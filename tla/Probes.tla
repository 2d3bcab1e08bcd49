------------------------------- MODULE Probes -------------------------------
(***************************************************************************)
(* ProbeRegistry under concurrent health requests, as ProbesServer and the *)
(* API serve them.  check_all runs its probes in order of registration:    *)
(* "db" first, which awaits the database, then the others, which do not.   *)
(* So a request has two awaits behind it when it writes the shared state,  *)
(* all of it at once: the arrival of SELECT 1 at the database, and the     *)
(* return of its result.                                                   *)
(***************************************************************************)
EXTENDS FiniteSets

CONSTANTS
    Requests,    \* concurrent health requests
    Registered   \* probes.add: "db", and "provider" in the gateway

Dependencies == {"db", "provider"}
Kinds == {"ready", "startup"}

ASSUME RegistryAssumption ==
    "db" \in Registered /\ Registered \subseteq Dependencies

VARIABLES
    up,         \* dependencies that work
    server,     \* "starting", "serving" or "stopped"
    lastOk,     \* probes with last_ok
    succeeded,  \* probes with succeeded_once
    pc, kind,   \* of each request: where it is, what it asks
    saw,        \* the result of its db_ping
    answer,     \* its answer: "none", "ok" or "failed" ...
    checks,     \* ... and the probes that answer shows as true
    process_up, process_ready,  \* gauges
    upDuring,   \* (history) dependencies up at some time during the request
    everStarted \* (history) "started" has been answered

shared == <<lastOk, succeeded>>
gauges == <<process_up, process_ready>>
vars == <<up, server, shared, pc, kind, saw, answer, checks, gauges, upDuring, everStarted>>

Init ==
    /\ up \in SUBSET Dependencies
    /\ server = "starting"
    /\ lastOk = {}
    /\ succeeded = {}
    /\ pc = [r \in Requests |-> "idle"]
    /\ kind = [r \in Requests |-> "ready"]
    /\ saw = [r \in Requests |-> FALSE]
    /\ answer = [r \in Requests |-> "none"]
    /\ checks = [r \in Requests |-> {}]
    /\ process_up = 0 /\ process_ready = 0
    /\ upDuring = [r \in Requests |-> {}]
    /\ everStarted = FALSE

-----------------------------------------------------------------------------
\* A dependency fails or recovers.
Flip(d) ==
    /\ up' = IF d \in up THEN up \ {d} ELSE up \cup {d}
    /\ upDuring' = [r \in Requests |-> upDuring[r] \cup up']
    /\ UNCHANGED <<server, shared, pc, kind, saw, answer, checks, gauges, everStarted>>

\* ProbesServer.start, and lifespan up to its yield
Start ==
    /\ server = "starting"
    /\ server' = "serving"
    /\ process_up' = 1
    /\ UNCHANGED <<up, shared, pc, kind, saw, answer, checks, process_ready, upDuring, everStarted>>

\* (variant: the gauges are reset without waiting)
WaitsForNobody == TRUE

\* AppRunner.cleanup returns when no handler runs any more.
HandlersDone == \A r \in Requests : pc[r] = "idle"

\* ProbesServer.stop, and the end of lifespan
Stop ==
    /\ server = "serving"
    /\ HandlersDone
    /\ server' = "stopped"
    /\ process_up' = 0 /\ process_ready' = 0
    /\ UNCHANGED <<up, shared, pc, kind, saw, answer, checks, upDuring, everStarted>>

\* GET /health/ready or /health/startup: check_all calls db_ping.
Request(r, k) ==
    /\ server = "serving"
    /\ pc[r] = "idle"
    /\ pc' = [pc EXCEPT ![r] = "pinging"]
    /\ kind' = [kind EXCEPT ![r] = k]
    /\ answer' = [answer EXCEPT ![r] = "none"]
    /\ upDuring' = [upDuring EXCEPT ![r] = up]
    /\ UNCHANGED <<up, server, shared, saw, checks, gauges, everStarted>>

\* The database answers SELECT 1, or does not.
Ping(r) ==
    /\ pc[r] = "pinging"
    /\ pc' = [pc EXCEPT ![r] = "pinged"]
    /\ saw' = [saw EXCEPT ![r] = "db" \in up]
    /\ UNCHANGED <<up, server, shared, kind, answer, checks, gauges, upDuring, everStarted>>

-----------------------------------------------------------------------------
\* What _run_check returned true for in this request.
Results(r) == {d \in Registered : IF d = "db" THEN saw[r] ELSE d \in up}

\* (variant: last_ok is only ever set)
RecordsSuccess(R) ==
    /\ lastOk' = lastOk \cup R
    /\ succeeded' = succeeded \cup R

\* (variant: succeeded_once is never set)
RecordsNoSuccess(R) ==
    /\ lastOk' = R
    /\ succeeded' = succeeded

\* The writes of check_all.
Record(R) ==
    /\ lastOk' = R
    /\ succeeded' = succeeded \cup R

\* (variants: one of the two questions is answered with the other's state)
ReadyOnceSucceeded(k, R) == succeeded \cup R = Registered
StartedIfOkNow(k, R) == R = Registered

\* is_ready and has_started
Verdict(k, R) ==
    IF k = "ready" THEN R = Registered ELSE succeeded \cup R = Registered

\* db_ping returns; the other probes and the answer follow without an await.
Respond(r) ==
    LET R == Results(r)
        ok == Verdict(kind[r], R)
    IN
    /\ pc[r] = "pinged"
    /\ Record(R)
    /\ pc' = [pc EXCEPT ![r] = "idle"]
    /\ answer' = [answer EXCEPT ![r] = IF ok THEN "ok" ELSE "failed"]
    /\ checks' = [checks EXCEPT ![r] =
                    IF kind[r] = "ready" THEN lastOk' ELSE succeeded']
    /\ process_ready' = IF kind[r] # "ready" THEN process_ready
                        ELSE IF ok THEN 1 ELSE 0
    /\ everStarted' = (everStarted \/ (ok /\ kind[r] = "startup"))
    /\ UNCHANGED <<up, server, kind, saw, process_up, upDuring>>

Next ==
    \/ \E d \in Dependencies : Flip(d)
    \/ Start \/ Stop
    \/ \E r \in Requests :
           (\E k \in Kinds : Request(r, k)) \/ Ping(r) \/ Respond(r)

Spec == Init /\ [][Next]_vars

-----------------------------------------------------------------------------
(* Properties *)

\* Every variable has its type.
TypeOK ==
    /\ up \subseteq Dependencies
    /\ lastOk \subseteq succeeded
    /\ succeeded \subseteq Registered
    /\ pc \in [Requests -> {"idle", "pinging", "pinged"}]
    /\ process_ready \in {0, 1}

\* Requests overlap and write the same registry, yet one that is answered
\* "ready" rests on its own checks: each dependency was up while it ran.
ReadyWasUp ==
    \A r \in Requests :
        answer[r] = "ok" /\ kind[r] = "ready" => Registered \subseteq upDuring[r]

\* A refusal names its reason: of the checks that a 503 shows, read from the
\* shared registry, at least one is false.
RefusalNamesCulprit ==
    \A r \in Requests : answer[r] = "failed" => Registered \ checks[r] # {}

\* /health/startup never takes "started" back, though dependencies fail.
StartedSticks ==
    [][\A r \in Requests :
           everStarted /\ kind'[r] = "startup" /\ pc[r] = "pinged" =>
               answer'[r] # "failed"]_vars

\* A process that has stopped its server shows neither "up" nor "ready": no
\* request that was still running has set the gauge again after stop reset it.
StoppedShowsNothing == server = "stopped" => process_up = 0 /\ process_ready = 0
=============================================================================
