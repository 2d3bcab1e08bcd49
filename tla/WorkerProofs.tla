---------------------------- MODULE WorkerProofs ----------------------------
(***************************************************************************)
(* Theorems about start and shutdown of the processes, for every set of    *)
(* them.  What the proofs use of the lists of calls in main() and lifespan *)
(* is stated by AboutStartup and AboutCleanup.                             *)
(***************************************************************************)
EXTENDS WorkerProcess, TLAPS

Resources == {"provider", "receiver", "broker", "probes", "monolith", "engine"}

\* s is what is left of the calls c after the first n.
Rest(s, c, n) ==
    /\ s \in Seq(Resources)
    /\ Len(s) = Len(c) - n
    /\ \A i \in 1..Len(s) : s[i] = c[i + n]

\* Startup and cleanup go through their lists in order: which calls have been
\* made follows from how many, so a resource that comes later in startup is
\* not open yet, and one that comes earlier in cleanup is closed.  R is what
\* process k has open, and s the calls it has still to make.  Only the engine
\* is opened by no call: a health request may open it during startup already.
Opening(k, R, s) ==
    \E n \in 0..Len(Startup(k)) :
        /\ Rest(s, Startup(k), n)
        /\ R \ {"engine"} = {Startup(k)[i] : i \in 1..n}

Closing(k, R, s) ==
    \E n \in 0..Len(Cleanup(k)) :
        /\ Rest(s, Cleanup(k), n)
        /\ \A i \in 1..n : Cleanup(k)[i] \notin R

\* What is true of a process in each phase: everything it has open has a call
\* in its cleanup.
InPhase(k, p, R, s) ==
    /\ R \subseteq ToSet(Cleanup(k))
    /\ p = "starting" => Opening(k, R, s)
    /\ p = "closing" => Closing(k, R, s)
    /\ p = "complete" => R = {}

Phases == {"starting", "running", "closing", "complete", "failed"}

ProcessInv ==
    /\ phase \in [Mains -> Phases]
    /\ open \in [Mains -> SUBSET Resources]
    /\ todo \in [Mains -> Seq(Resources)]
    /\ \A k \in Mains : InPhase(k, phase[k], open[k], todo[k])

-----------------------------------------------------------------------------
\* Startup opens nothing twice, nothing that cleanup does not close, and leaves
\* the engine to its users.
LEMMA AboutStartup ==
    ASSUME NEW k \in Mains
    PROVE  /\ Startup(k) \in Seq(Resources)
           /\ \A i, j \in 1..Len(Startup(k)) : Startup(k)[i] = Startup(k)[j] => i = j
           /\ \A i \in 1..Len(Startup(k)) :
                  \E j \in 1..Len(Cleanup(k)) : Startup(k)[i] = Cleanup(k)[j]
           /\ \A i \in 1..Len(Startup(k)) : Startup(k)[i] # "engine"
<1> USE DEF Resources
<1>1. CASE k = "provider_gateway"
  <2>1. /\ Startup(k) = <<"broker", "probes", "provider", "receiver">>
        /\ Cleanup(k) = <<"provider", "receiver", "broker", "probes", "engine">>
    BY <1>1 DEF Startup, Cleanup
  <2> QED
    BY <2>1
<1>2. CASE k = "provider_consumer"
  <2>1. /\ Startup(k) = <<"broker", "monolith", "probes">>
        /\ Cleanup(k) = <<"monolith", "broker", "probes", "engine">>
    BY <1>2 DEF Startup, Cleanup
  <2> QED
    BY <2>1
<1>3. CASE k = "reconciler"
  <2>1. /\ Startup(k) = <<"monolith", "probes">>
        /\ Cleanup(k) = <<"monolith", "probes", "engine">>
    BY <1>3 DEF Startup, Cleanup
  <2> QED
    BY <2>1
<1>4. CASE k = "api"
  <2>1. /\ Startup(k) = <<"broker", "monolith">>
        /\ Cleanup(k) = <<"monolith", "broker", "engine">>
    BY <1>4 DEF Startup, Cleanup
  <2> QED
    BY <2>1
<1> QED
  BY <1>1, <1>2, <1>3, <1>4, MainsAssumption

\* Cleanup disposes of the engine last, and once.
LEMMA AboutCleanup ==
    ASSUME NEW k \in Mains
    PROVE  /\ Cleanup(k) \in Seq(Resources)
           /\ Len(Cleanup(k)) > 0 /\ Cleanup(k)[Len(Cleanup(k))] = "engine"
           /\ \A i \in 1..Len(Cleanup(k)) : Cleanup(k)[i] = "engine" => i = Len(Cleanup(k))
<1> USE DEF Resources
<1>1. CASE k = "provider_gateway"
  <2>1. Cleanup(k) = <<"provider", "receiver", "broker", "probes", "engine">>
    BY <1>1 DEF Cleanup
  <2> QED
    BY <2>1
<1>2. CASE k = "provider_consumer"
  <2>1. Cleanup(k) = <<"monolith", "broker", "probes", "engine">>
    BY <1>2 DEF Cleanup
  <2> QED
    BY <2>1
<1>3. CASE k = "reconciler"
  <2>1. Cleanup(k) = <<"monolith", "probes", "engine">>
    BY <1>3 DEF Cleanup
  <2> QED
    BY <2>1
<1>4. CASE k = "api"
  <2>1. Cleanup(k) = <<"monolith", "broker", "engine">>
    BY <1>4 DEF Cleanup
  <2> QED
    BY <2>1
<1> QED
  BY <1>1, <1>2, <1>3, <1>4, MainsAssumption

\* Before the first call, all calls are left.
LEMMA RestOfAll ==
    ASSUME NEW c \in Seq(Resources)
    PROVE  Rest(c, c, 0)
  BY DEF Rest

\* A call that is made is the next of the list, and leaves one call less.
LEMMA RestOfTail ==
    ASSUME NEW c \in Seq(Resources), NEW n \in 0..Len(c), NEW s, Rest(s, c, n), s # <<>>
    PROVE  /\ n + 1 \in 1..Len(c)
           /\ Head(s) = c[n + 1]
           /\ Rest(Tail(s), c, n + 1)
<1>1. s \in Seq(Resources) /\ Len(s) = Len(c) - n /\ Len(s) > 0
  BY DEF Rest
<1>2. Head(s) = c[n + 1] /\ n + 1 \in 1..Len(c)
  BY <1>1 DEF Rest
<1>3. \A i \in 1..Len(Tail(s)) : Tail(s)[i] = s[i + 1] /\ i + 1 \in 1..Len(s)
  BY <1>1
<1>4. Rest(Tail(s), c, n + 1)
  BY <1>1, <1>3 DEF Rest
<1> QED
  BY <1>2, <1>4

\* When no call is left, all have been made.
LEMMA RestIsEmpty ==
    ASSUME NEW c \in Seq(Resources), NEW n \in 0..Len(c), Rest(<<>>, c, n)
    PROVE  n = Len(c)
  BY DEF Rest

-----------------------------------------------------------------------------
\* A startup of which no call has been made.
LEMMA AtFirstCall ==
    ASSUME NEW k \in Mains
    PROVE  InPhase(k, "starting", {}, Startup(k))
<1>1. Rest(Startup(k), Startup(k), 0) /\ 0 \in 0..Len(Startup(k))
  BY RestOfAll, AboutStartup
<1>2. {} \ {"engine"} = {Startup(k)[i] : i \in 1..0}
  OBVIOUS
<1> QED
  BY <1>1, <1>2 DEF InPhase, Opening

\* Every process is at the first call of its startup.
LEMMA InitProcess == Init => ProcessInv
  BY AtFirstCall, AboutStartup DEF Init, ProcessInv, Phases

\* A step of one process leaves the others as they are, so it is enough that
\* the process is left in a state that its new phase allows.
LEMMA OneProcess ==
    ASSUME ProcessInv, NEW k \in Mains,
           NEW p \in Phases, NEW R \in SUBSET Resources, NEW s \in Seq(Resources),
           phase' = [phase EXCEPT ![k] = p],
           open' = [open EXCEPT ![k] = R],
           todo' = [todo EXCEPT ![k] = s],
           InPhase(k, p, R, s)
    PROVE  ProcessInv'
  BY DEF ProcessInv

\* A call of startup opens the next resource.
LEMMA OpenNextKeepsInv ==
    ASSUME ProcessInv, NEW k \in Mains, OpenNext(k)
    PROVE  ProcessInv'
<1> DEFINE S == Startup(k)
<1>1. PICK n \in 0..Len(S) :
          Rest(todo[k], S, n) /\ open[k] \ {"engine"} = {S[i] : i \in 1..n}
  BY DEF ProcessInv, InPhase, Opening, OpenNext
<1>2. /\ n + 1 \in 1..Len(S)
      /\ Head(todo[k]) = S[n + 1]
      /\ Rest(Tail(todo[k]), S, n + 1)
  BY <1>1, RestOfTail, AboutStartup DEF OpenNext
<1>3. PICK R : R = open[k] \cup {S[n + 1]}
  OBVIOUS
<1>4. R \ {"engine"} = {S[i] : i \in 1..n + 1}
  <2>1. \A i : i \in 1..n + 1 <=> i \in 1..n \/ i = n + 1
    OBVIOUS
  <2>2. S[n + 1] # "engine"
    BY <1>2, AboutStartup
  <2>3. R \ {"engine"} = (open[k] \ {"engine"}) \cup {S[n + 1]}
    BY <1>3, <2>2
  <2> QED
    BY <1>1, <2>1, <2>3
<1>5. S[n + 1] \in Resources /\ S[n + 1] \in ToSet(Cleanup(k))
  <2>1. PICK j \in 1..Len(Cleanup(k)) : S[n + 1] = Cleanup(k)[j]
    BY <1>2, AboutStartup
  <2> QED
    BY <1>2, <2>1, AboutStartup, AboutCleanup DEF ToSet
<1>6. R \in SUBSET Resources /\ R \subseteq ToSet(Cleanup(k))
  BY <1>3, <1>5 DEF ProcessInv, InPhase
<1>7. /\ phase' = [phase EXCEPT ![k] = "starting"]
      /\ open' = [open EXCEPT ![k] = R]
      /\ todo' = [todo EXCEPT ![k] = Tail(todo[k])]
  BY <1>2, <1>3 DEF OpenNext, ProcessInv
<1>8. InPhase(k, "starting", R, Tail(todo[k]))
  BY <1>2, <1>4, <1>6 DEF InPhase, Opening
<1>9. Tail(todo[k]) \in Seq(Resources)
  BY <1>2 DEF Rest
<1> QED
  BY <1>6, <1>7, <1>8, <1>9, OneProcess DEF Phases

\* The last call of startup was made.
LEMMA StartedKeepsInv ==
    ASSUME ProcessInv, NEW k \in Mains, Started(k)
    PROVE  ProcessInv'
<1>1. open[k] \in SUBSET Resources /\ InPhase(k, "running", open[k], <<>>) /\ <<>> \in Seq(Resources)
  BY DEF ProcessInv, InPhase
<1>2. /\ phase' = [phase EXCEPT ![k] = "running"]
      /\ open' = [open EXCEPT ![k] = open[k]]
      /\ todo' = [todo EXCEPT ![k] = <<>>]
  BY DEF Started, Enter, ProcessInv
<1> QED
  BY <1>1, <1>2, OneProcess DEF Phases

\* A call of startup or of cleanup that raises ends the process with whatever
\* it has open; only a new start is left to it.
LEMMA FailureKeepsInv ==
    ASSUME ProcessInv, NEW k \in Mains, StartFails(k) \/ CloseFails(k)
    PROVE  ProcessInv'
<1>1. /\ phase' = [phase EXCEPT ![k] = "failed"]
      /\ open' = [open EXCEPT ![k] = open[k]]
      /\ todo' = [todo EXCEPT ![k] = <<>>]
  BY DEF StartFails, CloseFails, Enter, ProcessInv
<1>2. open[k] \in SUBSET Resources /\ InPhase(k, "failed", open[k], <<>>) /\ <<>> \in Seq(Resources)
  BY DEF ProcessInv, InPhase
<1> QED
  BY <1>1, <1>2, OneProcess DEF Phases

\* A session opens the engine, also during startup, which no call of startup
\* notices, and during cleanup: as long as one of its users is open, its
\* dispose is still to come.
LEMMA UseEngineKeepsInv ==
    ASSUME ProcessInv, NEW k \in Mains, UseEngine(k)
    PROVE  ProcessInv'
<1> DEFINE C == Cleanup(k)
<1>1. PICK R : R = open[k] \cup {"engine"}
  OBVIOUS
<1>2. R \in SUBSET Resources /\ R \subseteq ToSet(C)
  <2>1. open[k] \in SUBSET Resources /\ open[k] \subseteq ToSet(C)
    BY DEF ProcessInv, InPhase
  <2>2. "engine" \in Resources /\ "engine" \in ToSet(C)
    BY AboutCleanup DEF ToSet, Resources
  <2> QED
    BY <1>1, <2>1, <2>2
<1>3. ASSUME phase[k] = "starting"
      PROVE  Opening(k, R, todo[k])
  <2>1. R \ {"engine"} = open[k] \ {"engine"}
    BY <1>1
  <2> QED
    BY <1>3, <2>1 DEF ProcessInv, InPhase, Opening
<1>4. ASSUME phase[k] = "closing"
      PROVE  Closing(k, R, todo[k])
  <2>1. PICK n \in 0..Len(C) : Rest(todo[k], C, n) /\ \A i \in 1..n : C[i] \notin open[k]
    BY <1>4 DEF ProcessInv, InPhase, Closing
  <2>2. PICK j \in 1..Len(C) : C[j] \in open[k]
    BY AboutCleanup DEF UseEngine, EngineUsers, ProcessInv, InPhase, ToSet
  <2>3. n < Len(C)
    BY <2>1, <2>2
  <2>4. \A i \in 1..n : C[i] # "engine"
    BY <2>3, AboutCleanup
  <2> QED
    BY <1>1, <2>1, <2>4 DEF Closing
<1>5. /\ phase[k] \in {"starting", "running", "closing"}
      /\ phase' = [phase EXCEPT ![k] = phase[k]]
      /\ open' = [open EXCEPT ![k] = R]
      /\ todo' = [todo EXCEPT ![k] = todo[k]]
  BY <1>1 DEF UseEngine, ProcessInv
<1>6. InPhase(k, phase[k], R, todo[k])
  BY <1>2, <1>3, <1>4, <1>5 DEF InPhase
<1>7. phase[k] \in Phases /\ todo[k] \in Seq(Resources)
  BY DEF ProcessInv
<1> QED
  BY <1>2, <1>5, <1>6, <1>7, OneProcess

\* FastStream closes the broker of a running process.
LEMMA AppStopsKeepsInv ==
    ASSUME ProcessInv, NEW k \in Mains, AppStops(k)
    PROVE  ProcessInv'
<1>1. PICK R : R = open[k] \ {"broker"}
  OBVIOUS
<1>2. R \in SUBSET Resources /\ InPhase(k, "running", R, todo[k])
  BY <1>1 DEF ProcessInv, InPhase
<1>3. /\ phase' = [phase EXCEPT ![k] = "running"]
      /\ open' = [open EXCEPT ![k] = R]
      /\ todo' = [todo EXCEPT ![k] = todo[k]]
      /\ todo[k] \in Seq(Resources)
  BY <1>1 DEF AppStops, ProcessInv
<1> QED
  BY <1>2, <1>3, OneProcess DEF Phases

\* The finally block is entered with all its calls to make, whatever FastStream
\* has closed before.
LEMMA StopKeepsInv ==
    ASSUME ProcessInv, NEW k \in Mains, StopRequested(k)
    PROVE  ProcessInv'
<1>1. /\ phase' = [phase EXCEPT ![k] = "closing"]
      /\ open' = [open EXCEPT ![k] = open[k]]
      /\ todo' = [todo EXCEPT ![k] = Cleanup(k)]
  BY DEF StopRequested, Enter, ProcessInv
<1>2. Rest(Cleanup(k), Cleanup(k), 0) /\ 0 \in 0..Len(Cleanup(k))
  BY RestOfAll, AboutCleanup
<1>3. Closing(k, open[k], Cleanup(k))
  BY <1>2 DEF Closing
<1>4. open[k] \in SUBSET Resources /\ InPhase(k, "closing", open[k], Cleanup(k))
  BY <1>3 DEF ProcessInv, InPhase, StopRequested
<1> QED
  BY <1>1, <1>4, AboutCleanup, OneProcess DEF Phases

\* A call of cleanup closes the next resource, if it is still open.
LEMMA CloseNextKeepsInv ==
    ASSUME ProcessInv, NEW k \in Mains, CloseNext(k)
    PROVE  ProcessInv'
<1> DEFINE C == Cleanup(k)
<1>1. PICK n \in 0..Len(C) : Rest(todo[k], C, n) /\ \A i \in 1..n : C[i] \notin open[k]
  BY DEF ProcessInv, InPhase, Closing, CloseNext
<1>2. /\ n + 1 \in 1..Len(C)
      /\ Head(todo[k]) = C[n + 1]
      /\ Rest(Tail(todo[k]), C, n + 1)
  BY <1>1, RestOfTail, AboutCleanup DEF CloseNext
<1>3. PICK R : R = open[k] \ {C[n + 1]}
  OBVIOUS
<1>4. \A i \in 1..n + 1 : C[i] \notin R
  BY <1>1, <1>3
<1>5. R \in SUBSET Resources /\ R \subseteq ToSet(C)
  BY <1>3 DEF ProcessInv, InPhase
<1>6. /\ phase' = [phase EXCEPT ![k] = "closing"]
      /\ open' = [open EXCEPT ![k] = R]
      /\ todo' = [todo EXCEPT ![k] = Tail(todo[k])]
  BY <1>2, <1>3 DEF CloseNext, ProcessInv
<1>7. InPhase(k, "closing", R, Tail(todo[k]))
  BY <1>2, <1>4, <1>5 DEF InPhase, Closing
<1>8. Tail(todo[k]) \in Seq(Resources)
  BY <1>2 DEF Rest
<1> QED
  BY <1>5, <1>6, <1>7, <1>8, OneProcess DEF Phases

\* "Shutdown complete" is logged after the last call: nothing is open.
LEMMA CompleteKeepsInv ==
    ASSUME ProcessInv, NEW k \in Mains, Complete(k)
    PROVE  ProcessInv'
<1> DEFINE C == Cleanup(k)
<1>1. PICK n \in 0..Len(C) : Rest(todo[k], C, n) /\ \A i \in 1..n : C[i] \notin open[k]
  BY DEF ProcessInv, InPhase, Closing, Complete
<1>2. n = Len(C)
  BY <1>1, RestIsEmpty, AboutCleanup DEF Complete
<1>3. open[k] = {}
  BY <1>1, <1>2, AboutCleanup DEF ProcessInv, InPhase, ToSet
<1>4. /\ phase' = [phase EXCEPT ![k] = "complete"]
      /\ open' = [open EXCEPT ![k] = {}]
      /\ todo' = [todo EXCEPT ![k] = <<>>]
  BY <1>3 DEF Complete, Enter, ProcessInv
<1>5. InPhase(k, "complete", {}, <<>>) /\ <<>> \in Seq(Resources)
  BY DEF InPhase
<1> QED
  BY <1>4, <1>5, OneProcess DEF Phases

\* docker starts the process again, without anything of the old one.
LEMMA RestartKeepsInv ==
    ASSUME ProcessInv, NEW k \in Mains, Restart(k)
    PROVE  ProcessInv'
<1>1. /\ phase' = [phase EXCEPT ![k] = "starting"]
      /\ open' = [open EXCEPT ![k] = {}]
      /\ todo' = [todo EXCEPT ![k] = Startup(k)]
  BY DEF Restart, Enter
<1> QED
  BY <1>1, AtFirstCall, AboutStartup, OneProcess DEF Phases

\* Every step of a process.
LEMMA NextProcess == ProcessInv /\ [Next]_vars => ProcessInv'
<1> SUFFICES ASSUME ProcessInv, [Next]_vars
             PROVE  ProcessInv'
    OBVIOUS
<1>1. CASE UNCHANGED vars
  BY <1>1 DEF vars, ProcessInv
<1> QED
  BY <1>1, OpenNextKeepsInv, StartedKeepsInv, FailureKeepsInv, UseEngineKeepsInv,
     AppStopsKeepsInv, StopKeepsInv, CloseNextKeepsInv, CompleteKeepsInv, RestartKeepsInv DEF Next

\* The invariant of start and shutdown, over all behaviours.
LEMMA ProcessHolds == Spec => []ProcessInv
  BY InitProcess, NextProcess, PTL DEF Spec

-----------------------------------------------------------------------------
\* A process opens nothing that its cleanup does not close, and nothing twice.
THEOREM ProcessTypes == Spec => []TypeOK
<1>1. ProcessInv => TypeOK
  <2> SUFFICES ASSUME ProcessInv, NEW k \in Mains, phase[k] = "starting",
                      NEW i \in DOMAIN todo[k]
               PROVE  todo[k][i] \notin open[k]
    BY DEF TypeOK, ProcessInv, InPhase, Phases, ToSet
  <2>1. PICK n \in 0..Len(Startup(k)) :
            /\ Rest(todo[k], Startup(k), n)
            /\ open[k] \ {"engine"} = {Startup(k)[j] : j \in 1..n}
    BY DEF ProcessInv, InPhase, Opening
  <2>2. Startup(k) \in Seq(Resources) /\ todo[k] \in Seq(Resources)
    BY AboutStartup DEF ProcessInv
  <2>3. i \in 1..Len(todo[k]) /\ Len(todo[k]) = Len(Startup(k)) - n
    BY <2>1, <2>2 DEF Rest
  <2>4. todo[k][i] = Startup(k)[i + n]
    BY <2>1, <2>3 DEF Rest
  <2>5. i + n \in 1..Len(Startup(k)) /\ \A j \in 1..n : j \in 1..Len(Startup(k)) /\ j # i + n
    BY <2>2, <2>3
  <2>6. \A j \in 1..n : Startup(k)[j] # todo[k][i]
    BY <2>4, <2>5, AboutStartup
  <2>7. todo[k][i] # "engine"
    BY <2>4, <2>5, AboutStartup
  <2> QED
    BY <2>1, <2>6, <2>7
<1> QED
  BY <1>1, ProcessHolds, PTL

\* "Shutdown complete" means that everything is closed: no handler and no
\* health request has opened the engine again behind its dispose.
THEOREM CompleteIsClosed == Spec => []CompleteMeansClosed
<1>1. ProcessInv => CompleteMeansClosed
  BY DEF ProcessInv, InPhase, CompleteMeansClosed
<1> QED
  BY <1>1, ProcessHolds, PTL
=============================================================================
