----------------------------- MODULE OutboxRelay -----------------------------
(***************************************************************************)
(* The outbox producer: OutboxProducerWorker's loop around                 *)
(* OutboxService.send_batch, and the OutboxRepository queries it uses.     *)
(* Any number of producers share the table through SKIP LOCKED.  Events    *)
(* are numbered in the order of created_at, which need not be the order of *)
(* their commits.                                                          *)
(***************************************************************************)
EXTENDS Naturals, FiniteSets

CONSTANTS
    Events,       \* outbox rows, numbered by created_at
    Producers,    \* outbox_producer processes
    BatchSize,    \* outbox_batch_size
    MaxAttempts,  \* max_attempts of mark_failed
    MaxCrashes    \* bound on crashes and failed transactions

ASSUME OutboxAssumption ==
    /\ Events \subseteq Nat
    /\ BatchSize \in Nat \ {0}
    /\ MaxAttempts \in Nat \ {0}
    /\ MaxCrashes \in Nat

VARIABLES
    evstatus,   \* outbox_events.status, "absent" before the insert
    attempts,   \* outbox_events.attempts
    copies,     \* copies of the event the broker has received
    todo,       \* events of the batch each producer has still to publish
    sent,       \* published_ids of each producer
    refused,    \* ids in the failed list of each producer
    crashes     \* crashes so far

vars == <<evstatus, attempts, copies, todo, sent, refused, crashes>>

OutboxStatus == {"pending", "published", "failed"}

Init ==
    /\ evstatus = [e \in Events |-> "absent"]
    /\ attempts = [e \in Events |-> 0]
    /\ copies = [e \in Events |-> 0]
    /\ todo = [p \in Producers |-> {}]
    /\ sent = [p \in Producers |-> {}]
    /\ refused = [p \in Producers |-> {}]
    /\ crashes = 0

-----------------------------------------------------------------------------
InHand(p) == todo[p] \cup sent[p] \cup refused[p]
Pending == {e \in Events : evstatus[e] = "pending"}
Locked == UNION {InHand(p) : p \in Producers}

\* (variant: off by one)
OldestButOne(n, S) == {e \in S : Cardinality({d \in S : d < e}) < n - 1}

\* ORDER BY created_at LIMIT n
Oldest(n, S) == {e \in S : Cardinality({d \in S : d < e}) < n}

\* (variant: rows locked by another producer are read as well)
WithoutSkipLocked == Oldest(BatchSize, Pending)

\* fetch_pending
Fetchable == Oldest(BatchSize, Pending \ Locked)

\* (variant: off by one)
GivesUpTooEarly(n) == n + 1 >= MaxAttempts

\* The CASE of mark_failed, on the incremented counter.
GivesUp(n) == n >= MaxAttempts

-----------------------------------------------------------------------------
\* A service commits an event (TicketService, through OutboxRepository.add).
Add(e) ==
    /\ evstatus[e] = "absent"
    /\ evstatus' = [evstatus EXCEPT ![e] = "pending"]
    /\ UNCHANGED <<attempts, copies, todo, sent, refused, crashes>>

\* send_batch begins: it locks its batch.
Fetch(p) ==
    /\ InHand(p) = {}
    /\ Fetchable # {}
    /\ todo' = [todo EXCEPT ![p] = Fetchable]
    /\ UNCHANGED <<evstatus, attempts, copies, sent, refused, crashes>>

\* The next event of the batch is the oldest one.
IsNext(p, e) == e \in Oldest(1, todo[p])

\* broker.publish returns: the broker has confirmed the message.
PublishOk(p, e) ==
    /\ IsNext(p, e)
    /\ todo' = [todo EXCEPT ![p] = @ \ {e}]
    /\ sent' = [sent EXCEPT ![p] = @ \cup {e}]
    /\ copies' = [copies EXCEPT ![e] = @ + 1]
    /\ UNCHANGED <<evstatus, attempts, refused, crashes>>

\* broker.publish raises.  The broker may have the message all the same: the
\* confirmation can be what was lost.
PublishFails(p, e) ==
    /\ IsNext(p, e)
    /\ todo' = [todo EXCEPT ![p] = @ \ {e}]
    /\ refused' = [refused EXCEPT ![p] = @ \cup {e}]
    /\ \E n \in {0, 1} : copies' = [copies EXCEPT ![e] = @ + n]
    /\ UNCHANGED <<evstatus, attempts, sent, crashes>>

\* (variant: a status outside the enumeration)
MarksDelivered(p, e) ==
    IF e \in sent[p] THEN "delivered" ELSE evstatus[e]

\* (variant: the failed list is marked published too)
MarksAllPublished(p, e) ==
    IF e \in sent[p] \cup refused[p] THEN "published" ELSE evstatus[e]

\* mark_published_many and mark_failed
Marked(p, e) ==
    CASE e \in sent[p] -> "published"
      [] e \in refused[p] /\ GivesUp(attempts[e] + 1) -> "failed"
      [] OTHER -> evstatus[e]

\* The single commit of send_batch.
Commit(p) ==
    /\ InHand(p) # {}
    /\ todo[p] = {}
    /\ evstatus' = [e \in Events |-> Marked(p, e)]
    /\ attempts' = [e \in Events |->
                      IF e \in refused[p] THEN attempts[e] + 1 ELSE attempts[e]]
    /\ sent' = [sent EXCEPT ![p] = {}]
    /\ refused' = [refused EXCEPT ![p] = {}]
    /\ UNCHANGED <<copies, todo, crashes>>

\* A crash, or an exception of the transaction: nothing is marked, what was
\* published stays published.  The loop goes on with the next poll.
Crash(p) ==
    /\ InHand(p) # {}
    /\ crashes < MaxCrashes
    /\ crashes' = crashes + 1
    /\ todo' = [todo EXCEPT ![p] = {}]
    /\ sent' = [sent EXCEPT ![p] = {}]
    /\ refused' = [refused EXCEPT ![p] = {}]
    /\ UNCHANGED <<evstatus, attempts, copies>>

Publish(p) == \E e \in Events : PublishOk(p, e) \/ PublishFails(p, e)

SendBatch(p) == Fetch(p) \/ Publish(p) \/ Commit(p)

Next ==
    \/ \E e \in Events : Add(e)
    \/ \E p \in Producers : SendBatch(p) \/ Crash(p)

Spec == Init /\ [][Next]_vars

\* The worker's loop never stops: it polls, and each await of a batch returns.
FairSpec == Spec /\ \A p \in Producers : WF_vars(SendBatch(p))

-----------------------------------------------------------------------------
(* Properties *)

\* Every variable has its type; attempts never exceed the limit.
TypeOK ==
    /\ evstatus \in [Events -> OutboxStatus \cup {"absent"}]
    /\ attempts \in [Events -> 0..MaxAttempts]
    /\ copies \in [Events -> Nat]
    /\ todo \in [Producers -> SUBSET Events]
    /\ sent \in [Producers -> SUBSET Events]
    /\ refused \in [Producers -> SUBSET Events]
    /\ crashes \in 0..MaxCrashes

\* SKIP LOCKED and the commit that ends a batch: whatever the broker holds of
\* an event beyond one copy is explained by an attempt that was counted or by
\* a transaction that was lost.  Producers do not duplicate each other's work.
CopiesExplained ==
    \A e \in Events : copies[e] <= 1 + attempts[e] + crashes

\* mark_failed gives an event up at its last allowed failure, not earlier,
\* and never leaves a pending event that has used up its attempts.
GivenUpAtTheLimit ==
    \A e \in Events :
        /\ evstatus[e] = "failed" => attempts[e] = MaxAttempts
        /\ evstatus[e] = "pending" => attempts[e] < MaxAttempts

\* Every event a service commits is in the end published or given up, when
\* transactions are lost only finitely often: the poll loop starves no event.
EveryEventDecided ==
    \A e \in Events :
        evstatus[e] = "pending" ~> evstatus[e] \in {"published", "failed"}

Contract == INSTANCE OutboxContract WITH
    state <- evstatus, queued <- {e \in Events : copies[e] > 0}

\* Commits of send_batch, crashes and competing producers are invisible
\* behind the contract: pending events are queued, then decided for good.
ImplementsContract == Contract!Spec
=============================================================================
