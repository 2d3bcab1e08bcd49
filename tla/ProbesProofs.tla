---------------------------- MODULE ProbesProofs ----------------------------
(***************************************************************************)
(* Theorems about the probe registry: any number of overlapping health     *)
(* requests, with any dependency failing and recovering at any time.       *)
(***************************************************************************)
EXTENDS Probes, TLAPS

\* The types of the rest of a request's state, which TypeOK leaves out.
RequestTypes ==
    /\ kind \in [Requests -> Kinds]
    /\ saw \in [Requests -> BOOLEAN]
    /\ answer \in [Requests -> {"none", "ok", "failed"}]
    /\ checks \in [Requests -> SUBSET Dependencies]
    /\ upDuring \in [Requests -> SUBSET Dependencies]

\* What a request may rely on between its two awaits: every dependency that is
\* up now was up during it, and so was the database when its SELECT 1 came
\* back.  The verdict is given later, when the database may be down again.
RunningRequests ==
    \A r \in Requests : pc[r] # "idle" =>
        /\ up \subseteq upDuring[r]
        /\ pc[r] = "pinged" /\ saw[r] => "db" \in upDuring[r]
        /\ answer[r] = "none"

\* A stopped server has no handler running: AppRunner.cleanup has waited.
StoppedIsIdle == server = "stopped" => HandlersDone

\* "started" was answered only when every probe had succeeded once.
StartedMeansSucceeded == everStarted => succeeded = Registered

ProbesInv ==
    /\ TypeOK
    /\ RequestTypes
    /\ RunningRequests
    /\ StoppedIsIdle
    /\ StartedMeansSucceeded
    /\ ReadyWasUp
    /\ RefusalNamesCulprit
    /\ StoppedShowsNothing

-----------------------------------------------------------------------------
\* A process that has not served yet has asked and answered nothing.
LEMMA InitProbes == Init => ProbesInv
  BY DEF Init, ProbesInv, TypeOK, RequestTypes, Kinds, RunningRequests, StoppedIsIdle,
         HandlersDone, StartedMeansSucceeded, ReadyWasUp, RefusalNamesCulprit,
         StoppedShowsNothing

\* A dependency that comes up has been up during every request that runs.
LEMMA FlipKeepsInv ==
    ASSUME ProbesInv, NEW d \in Dependencies, Flip(d)
    PROVE  ProbesInv'
<1> USE DEF ProbesInv, Flip, shared, gauges
<1>1. up' \subseteq Dependencies
  BY DEF TypeOK
<1>2. \A r \in Requests : upDuring'[r] = upDuring[r] \cup up'
  OBVIOUS
<1>3. TypeOK' /\ RequestTypes'
  BY <1>1 DEF TypeOK, RequestTypes
<1>4. RunningRequests' /\ ReadyWasUp'
  BY <1>2 DEF RunningRequests, ReadyWasUp
<1>5. StoppedIsIdle' /\ StartedMeansSucceeded' /\ RefusalNamesCulprit' /\ StoppedShowsNothing'
  BY DEF StoppedIsIdle, HandlersDone, StartedMeansSucceeded, RefusalNamesCulprit,
         StoppedShowsNothing
<1> QED
  BY <1>3, <1>4, <1>5

\* The server starts, and stops when no handler runs.
LEMMA ServerKeepsInv ==
    ASSUME ProbesInv, Start \/ Stop
    PROVE  ProbesInv'
<1> USE DEF ProbesInv, shared
<1>1. UNCHANGED <<up, lastOk, succeeded, pc, kind, saw, answer, checks, upDuring, everStarted>>
  BY DEF Start, Stop
<1>2. TypeOK' /\ RequestTypes'
  BY <1>1 DEF TypeOK, RequestTypes, Start, Stop
<1>3. /\ RunningRequests' /\ ReadyWasUp' /\ RefusalNamesCulprit'
      /\ StartedMeansSucceeded'
  BY <1>1 DEF RunningRequests, ReadyWasUp, RefusalNamesCulprit, StartedMeansSucceeded
<1>4. StoppedIsIdle' /\ StoppedShowsNothing'
  BY <1>1 DEF StoppedIsIdle, HandlersDone, StoppedShowsNothing, Start, Stop
<1> QED
  BY <1>2, <1>3, <1>4

\* A request comes in at a server that serves; its history begins with the
\* dependencies that are up.
LEMMA RequestKeepsInv ==
    ASSUME ProbesInv, NEW r \in Requests, NEW k \in Kinds, Request(r, k)
    PROVE  ProbesInv'
<1> USE DEF ProbesInv, Request, shared, gauges
<1>1. TypeOK' /\ RequestTypes'
  BY DEF TypeOK, RequestTypes
<1>2. RunningRequests'
  BY DEF RunningRequests, TypeOK, RequestTypes
<1>3. ReadyWasUp' /\ RefusalNamesCulprit'
  BY DEF ReadyWasUp, RefusalNamesCulprit, RequestTypes
<1>4. StoppedIsIdle' /\ StartedMeansSucceeded' /\ StoppedShowsNothing'
  BY DEF StoppedIsIdle, StartedMeansSucceeded, StoppedShowsNothing
<1> QED
  BY <1>1, <1>2, <1>3, <1>4

\* The database answers SELECT 1, or does not: what the request saw was so
\* during the request.
LEMMA PingKeepsInv ==
    ASSUME ProbesInv, NEW r \in Requests, Ping(r)
    PROVE  ProbesInv'
<1> USE DEF ProbesInv, Ping, shared, gauges
<1>1. TypeOK' /\ RequestTypes'
  BY DEF TypeOK, RequestTypes
<1>2. RunningRequests'
  BY DEF RunningRequests, TypeOK, RequestTypes
<1>3. ReadyWasUp' /\ RefusalNamesCulprit' /\ StartedMeansSucceeded' /\ StoppedShowsNothing'
  BY DEF ReadyWasUp, RefusalNamesCulprit, StartedMeansSucceeded, StoppedShowsNothing
<1>4. StoppedIsIdle'
  BY DEF StoppedIsIdle, HandlersDone
<1> QED
  BY <1>1, <1>2, <1>3, <1>4

\* What check_all finds is about registered probes, and about dependencies
\* that were up while the request ran.
LEMMA ResultsWereUp ==
    ASSUME ProbesInv, NEW r \in Requests, pc[r] = "pinged"
    PROVE  Results(r) \subseteq Registered /\ Results(r) \subseteq upDuring[r]
  BY DEF ProbesInv, RunningRequests, Results

\* The answer: check_all writes what it found, and both verdicts are given
\* from what it has written, without another await.
LEMMA RespondKeepsInv ==
    ASSUME ProbesInv, NEW r \in Requests, Respond(r)
    PROVE  ProbesInv'
<1> USE RegistryAssumption DEF ProbesInv
<1>1. PICK R : R = Results(r)
  OBVIOUS
<1>2. PICK ok \in BOOLEAN : ok = Verdict(kind[r], R)
  BY DEF Verdict
<1>3. /\ pc[r] = "pinged"
      /\ lastOk' = R
      /\ succeeded' = succeeded \cup R
      /\ pc' = [pc EXCEPT ![r] = "idle"]
      /\ answer' = [answer EXCEPT ![r] = IF ok THEN "ok" ELSE "failed"]
      /\ checks' = [checks EXCEPT ![r] =
                      IF kind[r] = "ready" THEN lastOk' ELSE succeeded']
      /\ process_ready' = IF kind[r] # "ready" THEN process_ready
                          ELSE IF ok THEN 1 ELSE 0
      /\ everStarted' = (everStarted \/ (ok /\ kind[r] = "startup"))
      /\ UNCHANGED <<up, server, kind, saw, process_up, upDuring>>
  BY <1>1, <1>2 DEF Respond, Record
<1>4. R \subseteq Registered /\ R \subseteq upDuring[r]
  BY <1>1, <1>3, ResultsWereUp
<1>5. /\ ok /\ kind[r] = "ready" => R = Registered
      /\ ok /\ kind[r] = "startup" => succeeded' = Registered
      /\ ~ok => IF kind[r] = "ready" THEN lastOk' # Registered ELSE succeeded' # Registered
  BY <1>2, <1>3 DEF Verdict
<1>6. TypeOK' /\ RequestTypes'
  BY <1>3, <1>4 DEF TypeOK, RequestTypes
<1>7. RunningRequests'
  BY <1>3 DEF RunningRequests, TypeOK, RequestTypes
<1>8. ReadyWasUp'
  BY <1>3, <1>4, <1>5 DEF ReadyWasUp, RequestTypes
<1>9. RefusalNamesCulprit'
  BY <1>3, <1>4, <1>5 DEF RefusalNamesCulprit, RequestTypes, TypeOK
<1>10. StoppedIsIdle' /\ StoppedShowsNothing'
  BY <1>3 DEF StoppedIsIdle, HandlersDone, StoppedShowsNothing
<1>11. StartedMeansSucceeded'
  BY <1>3, <1>4, <1>5 DEF StartedMeansSucceeded
<1> QED
  BY <1>6, <1>7, <1>8, <1>9, <1>10, <1>11

\* Every step of a dependency, of the server or of a request.
LEMMA NextProbes == ProbesInv /\ [Next]_vars => ProbesInv'
<1> SUFFICES ASSUME ProbesInv, [Next]_vars
             PROVE  ProbesInv'
    OBVIOUS
<1>1. CASE UNCHANGED vars
  BY <1>1 DEF vars, shared, gauges, ProbesInv, TypeOK, RequestTypes, RunningRequests,
              StoppedIsIdle, HandlersDone, StartedMeansSucceeded, ReadyWasUp,
              RefusalNamesCulprit, StoppedShowsNothing
<1> QED
  BY <1>1, FlipKeepsInv, ServerKeepsInv, RequestKeepsInv, PingKeepsInv, RespondKeepsInv
  DEF Next

\* The invariant of the registry, over all its behaviours.
LEMMA ProbesHolds == Spec => []ProbesInv
  BY InitProbes, NextProbes, PTL DEF Spec

-----------------------------------------------------------------------------
\* The registry records registered probes only, and what succeeded last has
\* succeeded once.
THEOREM ProbeTypes == Spec => []TypeOK
<1>1. ProbesInv => TypeOK
  BY DEF ProbesInv
<1> QED
  BY <1>1, ProbesHolds, PTL

\* "ready" rests on the request's own checks, whatever other requests write
\* into the shared registry between its awaits.
THEOREM ReadyIsTrue == Spec => []ReadyWasUp
<1>1. ProbesInv => ReadyWasUp
  BY DEF ProbesInv
<1> QED
  BY <1>1, ProbesHolds, PTL

\* A 503 shows at least one false check, though the checks it shows are read
\* from the shared registry.
THEOREM RefusalsHaveCulprits == Spec => []RefusalNamesCulprit
<1>1. ProbesInv => RefusalNamesCulprit
  BY DEF ProbesInv
<1> QED
  BY <1>1, ProbesHolds, PTL

\* The gauges of a stopped process stay at zero: cleanup has waited for the
\* handlers that could have set them.
THEOREM StoppedIsSilent == Spec => []StoppedShowsNothing
<1>1. ProbesInv => StoppedShowsNothing
  BY DEF ProbesInv
<1> QED
  BY <1>1, ProbesHolds, PTL

\* /health/startup does not take "started" back: succeeded_once only grows,
\* and the first "started" found it full.
THEOREM StartedIsFinal == Spec => StartedSticks
<1>1. ASSUME ProbesInv, [Next]_vars, NEW r \in Requests,
             everStarted, kind'[r] = "startup", pc[r] = "pinged"
      PROVE  answer'[r] # "failed"
  <2>1. answer[r] = "none" /\ succeeded = Registered
    BY <1>1 DEF ProbesInv, RunningRequests, StartedMeansSucceeded
  <2>2. CASE Respond(r)
    <3>1. Results(r) \subseteq Registered
      BY <1>1, ResultsWereUp
    <3>2. kind[r] = "startup" /\ Verdict(kind[r], Results(r))
      BY <1>1, <2>1, <2>2, <3>1 DEF Respond, Verdict
    <3> QED
      BY <1>1, <2>2, <3>2 DEF Respond, ProbesInv, RequestTypes
  <2>3. CASE answer'[r] = answer[r]
    BY <2>1, <2>3
  <2>4. Respond(r) \/ answer'[r] = answer[r]
    BY <1>1 DEF Next, vars, Flip, Start, Stop, Request, Ping, Respond, ProbesInv, RequestTypes
  <2> QED
    BY <2>2, <2>3, <2>4
<1>2. ProbesInv /\ [Next]_vars =>
        [\A r \in Requests : everStarted /\ kind'[r] = "startup" /\ pc[r] = "pinged" =>
             answer'[r] # "failed"]_vars
  BY <1>1
<1> QED
  BY <1>2, ProbesHolds, PTL DEF Spec, StartedSticks
=============================================================================
