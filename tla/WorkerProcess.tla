---------------------------- MODULE WorkerProcess ----------------------------
(***************************************************************************)
(* Start and shutdown of the processes: main() of the gateway, of the      *)
(* consumer and of the reconciler, and lifespan of the API.  Each opens    *)
(* its resources in order, runs until a signal or the end of its task, and *)
(* closes them in a finally block; docker starts it again.  The engine is  *)
(* opened by the first session, whoever needs one.                         *)
(*                                                                         *)
(* In gateway and consumer FastStream.run replaces the signal handlers of  *)
(* main() by its own, and on a signal closes the broker before it returns: *)
(* the finally block then finds a closed broker, and in the gateway a      *)
(* receive loop that is still running.                                     *)
(***************************************************************************)
EXTENDS FiniteSets, SequencesExt

CONSTANT Mains

ASSUME MainsAssumption ==
    Mains \subseteq {"provider_gateway", "provider_consumer", "reconciler", "api"}

VARIABLES
    phase,  \* "starting", "running", "closing", "complete" or "failed"
    open,   \* resources of the process that are open
    todo    \* calls of startup, or of cleanup, still to be made

vars == <<phase, open, todo>>

Startup(k) ==
    CASE k = "provider_gateway" -> <<"broker", "probes", "provider", "receiver">>
      [] k = "provider_consumer" -> <<"broker", "monolith", "probes">>
      [] k = "reconciler" -> <<"monolith", "probes">>
      [] k = "api" -> <<"broker", "monolith">>

\* (variants: the engine is closed before its users, or the probes server is
\* not closed)
EngineFirst(k) == <<"engine", "provider", "receiver", "broker", "probes">>
ForgetsProbes(k) == <<"provider", "receiver", "broker", "engine">>

Cleanup(k) ==
    CASE k = "provider_gateway" ->
            <<"provider", "receiver", "broker", "probes", "engine">>
      [] k = "provider_consumer" -> <<"monolith", "broker", "probes", "engine">>
      [] k = "reconciler" -> <<"monolith", "probes", "engine">>
      [] k = "api" -> <<"monolith", "broker", "engine">>

\* Those whose task is FastStream.run, which starts the handlers and ends them.
FastStreamMains == {"provider_gateway", "provider_consumer"}

\* Those that run code which opens sessions: health requests that ping the
\* database, and, once startup is over, the handlers of the broker.
EngineUsers(k) == IF phase[k] = "starting" THEN {"probes"} ELSE {"broker", "probes"}

Init ==
    /\ phase = [k \in Mains |-> "starting"]
    /\ open = [k \in Mains |-> {}]
    /\ todo = [k \in Mains |-> Startup(k)]

-----------------------------------------------------------------------------
Enter(k, p, calls) ==
    /\ phase' = [phase EXCEPT ![k] = p]
    /\ todo' = [todo EXCEPT ![k] = calls]

OpenNext(k) ==
    /\ phase[k] = "starting"
    /\ todo[k] # <<>>
    /\ open' = [open EXCEPT ![k] = @ \cup {Head(todo[k])}]
    /\ todo' = [todo EXCEPT ![k] = Tail(@)]
    /\ UNCHANGED phase

Started(k) ==
    /\ phase[k] = "starting"
    /\ todo[k] = <<>>
    /\ Enter(k, "running", <<>>)
    /\ UNCHANGED open

\* A call of startup raises; the finally block has not been entered.
StartFails(k) ==
    /\ phase[k] = "starting"
    /\ Enter(k, "failed", <<>>)
    /\ UNCHANGED open

\* get_engine, by a session of a handler or of a health request.
UseEngine(k) ==
    /\ phase[k] \in {"starting", "running", "closing"}
    /\ open[k] \cap EngineUsers(k) # {}
    /\ open' = [open EXCEPT ![k] = @ \cup {"engine"}]
    /\ UNCHANGED <<phase, todo>>

\* SIGTERM or SIGINT, as FastStream.run handles them: the broker stops, while
\* everything else of the process runs on.
AppStops(k) ==
    /\ phase[k] = "running"
    /\ k \in FastStreamMains
    /\ "broker" \in open[k]
    /\ open' = [open EXCEPT ![k] = @ \ {"broker"}]
    /\ UNCHANGED <<phase, todo>>

\* The finally block is entered.  The task has ended, after AppStops or by an
\* exception with the broker still open; or stop_event is set, by a signal of
\* the reconciler, and in the others by one that came before FastStream.run;
\* or uvicorn ends the lifespan.
StopRequested(k) ==
    /\ phase[k] = "running"
    /\ Enter(k, "closing", Cleanup(k))
    /\ UNCHANGED open

\* FakeMonolithClient has no close.
HasClose(x) == x # "monolith"

CloseNext(k) ==
    /\ phase[k] = "closing"
    /\ todo[k] # <<>>
    /\ HasClose(Head(todo[k]))
    /\ open' = [open EXCEPT ![k] = @ \ {Head(todo[k])}]
    /\ todo' = [todo EXCEPT ![k] = Tail(@)]
    /\ UNCHANGED phase

\* AttributeError, or an error of the broker's close: the rest is skipped.
CloseFails(k) ==
    /\ phase[k] = "closing"
    /\ todo[k] # <<>>
    /\ Head(todo[k]) \in {"broker", "monolith"}
    /\ Enter(k, "failed", <<>>)
    /\ UNCHANGED open

Complete(k) ==
    /\ phase[k] = "closing"
    /\ todo[k] = <<>>
    /\ Enter(k, "complete", <<>>)
    /\ UNCHANGED open

\* restart: unless-stopped
Restart(k) ==
    /\ phase[k] \in {"complete", "failed"}
    /\ Enter(k, "starting", Startup(k))
    /\ open' = [open EXCEPT ![k] = {}]

Next ==
    \E k \in Mains :
        \/ OpenNext(k) \/ Started(k) \/ StartFails(k)
        \/ UseEngine(k) \/ AppStops(k) \/ StopRequested(k)
        \/ CloseNext(k) \/ CloseFails(k) \/ Complete(k)
        \/ Restart(k)

Spec == Init /\ [][Next]_vars

-----------------------------------------------------------------------------
(* Properties *)

\* Every variable has its type; what is to be opened is not open yet.
TypeOK ==
    \A k \in Mains :
        /\ phase[k] \in {"starting", "running", "closing", "complete", "failed"}
        /\ open[k] \subseteq ToSet(Cleanup(k))
        /\ phase[k] = "starting" => open[k] \cap ToSet(todo[k]) = {}

\* "Shutdown complete" is logged only when nothing is open: no handler and no
\* health request has opened the engine again after it was disposed.
CompleteMeansClosed ==
    \A k \in Mains : phase[k] = "complete" => open[k] = {}

\* The finally block announces a complete shutdown.  Taken at its word, a
\* process whose cleanup has begun does not exit without closing the probes
\* server and the engine, unless the broker's close fails.
ShutdownCompletes ==
    [][\A k \in Mains :
           phase[k] = "closing" /\ phase'[k] = "failed" =>
               Head(todo[k]) = "broker"]_vars
=============================================================================
