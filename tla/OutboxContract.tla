--------------------------- MODULE OutboxContract ---------------------------
(***************************************************************************)
(* What the outbox producer promises the rest of the system: an event is   *)
(* put into provider.out only while it is pending, it becomes PUBLISHED    *)
(* only when a copy of it is there, and PUBLISHED and FAILED are final.    *)
(***************************************************************************)
CONSTANT Events

VARIABLES
    state,   \* "absent", "pending", "published" or "failed"
    queued   \* events of which provider.out got at least one copy

vars == <<state, queued>>

Init ==
    /\ state = [e \in Events |-> "absent"]
    /\ queued = {}

Add(e) ==
    /\ state[e] = "absent"
    /\ state' = [state EXCEPT ![e] = "pending"]
    /\ UNCHANGED queued

Enqueue(e) ==
    /\ state[e] = "pending"
    /\ queued' = queued \cup {e}
    /\ UNCHANGED state

\* One commit decides a batch: P published, F given up, the rest unchanged.
Decide(P, F) ==
    /\ \A e \in P \cup F : state[e] = "pending"
    /\ P \cap F = {}
    /\ P \subseteq queued
    /\ state' = [e \in Events |-> IF e \in P THEN "published"
                                  ELSE IF e \in F THEN "failed" ELSE state[e]]
    /\ UNCHANGED queued

Next ==
    \/ \E e \in Events : Add(e) \/ Enqueue(e)
    \/ \E P, F \in SUBSET Events : Decide(P, F)

Spec == Init /\ [][Next]_vars
=============================================================================
