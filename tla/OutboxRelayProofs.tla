------------------------- MODULE OutboxRelayProofs -------------------------
(***************************************************************************)
(* Theorems about the outbox producer: any number of producers, of events, *)
(* of crashes, any batch size and any limit of attempts.                   *)
(***************************************************************************)
EXTENDS OutboxRelay, TLAPS

\* What FOR UPDATE SKIP LOCKED and the single commit of send_batch give: the
\* batches of two producers are disjoint, and an event is pending for as long
\* as a producer has it in hand.  The three parts of one batch are disjoint.
BatchesApart ==
    /\ \A p \in Producers :
           /\ todo[p] \cap sent[p] = {}
           /\ todo[p] \cap refused[p] = {}
           /\ sent[p] \cap refused[p] = {}
    /\ \A p, q \in Producers : p # q => InHand(p) \cap InHand(q) = {}
    /\ \A p \in Producers : \A e \in InHand(p) : evstatus[e] = "pending"

\* The publish of e has been tried in a transaction that is still open.
Tried(e) == \E p \in Producers : e \in sent[p] \cup refused[p]

\* CopiesExplained is not inductive: the copy that a crash or a failed publish
\* leaves unexplained must not be there already when the event is tried again.
\* So a pending event nobody has tried since has no copy to spare.
CopiesCounted ==
    /\ \A e \in Events :
           evstatus[e] = "pending" /\ ~Tried(e) => copies[e] <= attempts[e] + crashes
    /\ \A e \in Events : evstatus[e] = "absent" => copies[e] = 0 /\ attempts[e] = 0
    /\ \A p \in Producers : \A e \in sent[p] : copies[e] > 0

RelayInv ==
    TypeOK /\ BatchesApart /\ CopiesCounted /\ CopiesExplained /\ GivenUpAtTheLimit

-----------------------------------------------------------------------------
\* LIMIT and ORDER BY select among the rows of the query.
LEMMA OldestIsSubset == \A n, S : Oldest(n, S) \subseteq S
  BY DEF Oldest

\* The event a producer publishes next is one of its batch.
LEMMA NextIsInHand ==
    ASSUME NEW p \in Producers, NEW e \in Events, IsNext(p, e)
    PROVE  e \in todo[p]
  BY OldestIsSubset DEF IsNext

\* The table is empty and no producer has a batch.
LEMMA InitRelay == Init => RelayInv
  BY OutboxAssumption
  DEF Init, RelayInv, TypeOK, OutboxStatus, BatchesApart, InHand, CopiesCounted,
      Tried, CopiesExplained, GivenUpAtTheLimit

\* A service's commit makes the event pending: nobody has it in hand yet.
LEMMA AddKeepsInv ==
    ASSUME RelayInv, NEW e \in Events, Add(e)
    PROVE  RelayInv'
<1> USE OutboxAssumption DEF RelayInv, Add
<1>1. TypeOK'
  BY DEF TypeOK, OutboxStatus
<1>2. BatchesApart'
  BY DEF BatchesApart, InHand, TypeOK
<1>3. CopiesCounted'
  BY DEF CopiesCounted, Tried, TypeOK
<1>4. CopiesExplained'
  BY DEF CopiesExplained, TypeOK
<1>5. GivenUpAtTheLimit'
  BY DEF GivenUpAtTheLimit, TypeOK, CopiesCounted
<1> QED
  BY <1>1, <1>2, <1>3, <1>4, <1>5

\* fetch_pending takes pending rows that no other producer has locked.
LEMMA FetchKeepsInv ==
    ASSUME RelayInv, NEW p \in Producers, Fetch(p)
    PROVE  RelayInv'
<1> USE DEF RelayInv, Fetch
<1>1. /\ Fetchable \subseteq Events
      /\ \A e \in Fetchable : evstatus[e] = "pending"
      /\ \A q \in Producers : Fetchable \cap InHand(q) = {}
  BY OldestIsSubset DEF Fetchable, Pending, Locked
<1>2. TypeOK'
  BY <1>1 DEF TypeOK
<1>3. BatchesApart'
  BY <1>1 DEF BatchesApart, InHand, TypeOK
<1>4. CopiesCounted'
  BY DEF CopiesCounted, Tried, TypeOK
<1>5. CopiesExplained' /\ GivenUpAtTheLimit'
  BY DEF CopiesExplained, GivenUpAtTheLimit
<1> QED
  BY <1>2, <1>3, <1>4, <1>5

\* One publish of send_batch, confirmed or not, adds at most one copy of an
\* event that had none to spare, and moves the event within its batch.
LEMMA PublishKeepsInv ==
    ASSUME RelayInv, NEW p \in Producers, NEW e \in Events,
           PublishOk(p, e) \/ PublishFails(p, e)
    PROVE  RelayInv'
<1> USE DEF RelayInv
<1>1. e \in todo[p]
  BY NextIsInHand DEF PublishOk, PublishFails
<1>2. /\ todo' = [todo EXCEPT ![p] = @ \ {e}]
      /\ UNCHANGED <<evstatus, attempts, crashes>>
      /\ \/ /\ sent' = [sent EXCEPT ![p] = @ \cup {e}]
            /\ UNCHANGED refused
            /\ copies' = [copies EXCEPT ![e] = @ + 1]
         \/ /\ refused' = [refused EXCEPT ![p] = @ \cup {e}]
            /\ UNCHANGED sent
            /\ \E n \in {0, 1} : copies' = [copies EXCEPT ![e] = @ + n]
  BY DEF PublishOk, PublishFails
<1>3. TypeOK'
  BY <1>2 DEF TypeOK
<1>4. BatchesApart'
  BY <1>1, <1>2 DEF BatchesApart, InHand, TypeOK
<1>5. evstatus[e] = "pending" /\ ~Tried(e)
  BY <1>1 DEF BatchesApart, InHand, Tried, TypeOK
<1>6. \A d \in Events \ {e} : copies'[d] = copies[d] /\ (Tried(d))' = Tried(d)
  BY <1>2 DEF Tried, TypeOK
<1>7. (Tried(e))' /\ copies'[e] <= 1 + attempts[e] + crashes
  BY <1>2, <1>5 DEF Tried, TypeOK, CopiesCounted
<1>8. CopiesCounted'
  BY <1>2, <1>5, <1>6, <1>7 DEF CopiesCounted, TypeOK
<1>9. CopiesExplained'
  BY <1>2, <1>6, <1>7 DEF CopiesExplained, TypeOK
<1>10. GivenUpAtTheLimit'
  BY <1>2 DEF GivenUpAtTheLimit
<1> QED
  BY <1>3, <1>4, <1>8, <1>9, <1>10

\* The commit of send_batch counts the refused events, gives up those at their
\* limit, and lets go of the batch.
LEMMA CommitKeepsInv ==
    ASSUME RelayInv, NEW p \in Producers, Commit(p)
    PROVE  RelayInv'
<1> USE DEF RelayInv
<1>1. /\ evstatus' = [e \in Events |-> Marked(p, e)]
      /\ attempts' = [e \in Events |->
                        IF e \in refused[p] THEN attempts[e] + 1 ELSE attempts[e]]
      /\ sent' = [sent EXCEPT ![p] = {}]
      /\ refused' = [refused EXCEPT ![p] = {}]
      /\ todo[p] = {}
      /\ UNCHANGED <<copies, todo, crashes>>
  BY DEF Commit
<1>2. \A e \in Events :
          /\ e \in sent[p] => evstatus'[e] = "published"
          /\ e \in refused[p] /\ attempts[e] + 1 >= MaxAttempts => evstatus'[e] = "failed"
          /\ e \in refused[p] /\ ~(attempts[e] + 1 >= MaxAttempts) =>
                 evstatus'[e] = evstatus[e]
          /\ e \notin sent[p] \cup refused[p] => evstatus'[e] = evstatus[e]
  BY <1>1 DEF Marked, GivesUp, BatchesApart
<1>3. \A e \in sent[p] \cup refused[p] : evstatus[e] = "pending"
  BY DEF BatchesApart, InHand
<1>4. TypeOK'
  <2>1. attempts' \in [Events -> 0..MaxAttempts]
    BY <1>1, <1>3, OutboxAssumption DEF TypeOK, GivenUpAtTheLimit
  <2> QED
    BY <1>1, <2>1 DEF TypeOK, Marked, OutboxStatus
<1>5. BatchesApart'
  <2>1. \A q \in Producers \ {p} : \A e \in InHand(q) : e \notin InHand(p)
    BY DEF BatchesApart
  <2> QED
    BY <1>1, <1>2, <2>1 DEF BatchesApart, InHand, TypeOK
<1>6. \A e \in Events : copies[e] <= attempts[e] + crashes \/ Tried(e) \/ evstatus[e] # "pending"
  BY DEF CopiesCounted
<1>7. \A e \in Events \ (sent[p] \cup refused[p]) : (Tried(e))' = Tried(e)
  BY <1>1 DEF Tried, TypeOK
<1>8. CopiesCounted'
  <2>1. ASSUME NEW e \in Events, evstatus'[e] = "pending", ~(Tried(e))'
        PROVE  copies'[e] <= attempts'[e] + crashes'
    <3>1. e \notin sent[p]
      BY <1>2, <2>1
    <3>2. CASE e \in refused[p]
      BY <1>1, <3>2 DEF CopiesExplained, TypeOK
    <3>3. CASE e \notin refused[p]
      BY <1>1, <1>2, <1>7, <2>1, <3>1, <3>3 DEF CopiesCounted, TypeOK
    <3> QED
      BY <3>2, <3>3
  <2>2. ASSUME NEW e \in Events, evstatus'[e] = "absent"
        PROVE  copies'[e] = 0 /\ attempts'[e] = 0
    BY <1>1, <1>2, <1>3, <2>2 DEF CopiesCounted
  <2> QED
    BY <1>1, <2>1, <2>2 DEF CopiesCounted, TypeOK
<1>9. CopiesExplained'
  BY <1>1, OutboxAssumption DEF CopiesExplained, TypeOK
<1>10. GivenUpAtTheLimit'
  BY <1>1, <1>2, <1>3, OutboxAssumption DEF GivenUpAtTheLimit, TypeOK
<1> QED
  BY <1>4, <1>5, <1>8, <1>9, <1>10

\* A crash takes the locks and the lists of one producer; the copies it leaves
\* behind are charged to it.
LEMMA CrashKeepsInv ==
    ASSUME RelayInv, NEW p \in Producers, Crash(p)
    PROVE  RelayInv'
<1> USE OutboxAssumption DEF RelayInv, Crash
<1>1. TypeOK'
  BY DEF TypeOK
<1>2. BatchesApart'
  BY DEF BatchesApart, InHand, TypeOK
<1>3. CopiesCounted'
  BY DEF CopiesCounted, CopiesExplained, TypeOK
<1>4. CopiesExplained'
  BY DEF CopiesExplained, TypeOK
<1>5. GivenUpAtTheLimit'
  BY DEF GivenUpAtTheLimit
<1> QED
  BY <1>1, <1>2, <1>3, <1>4, <1>5

\* Every step of a service, of a producer or of a crash keeps the invariant.
LEMMA NextRelay == RelayInv /\ [Next]_vars => RelayInv'
<1> SUFFICES ASSUME RelayInv, [Next]_vars
             PROVE  RelayInv'
    OBVIOUS
<1>1. CASE UNCHANGED vars
  BY <1>1 DEF vars, RelayInv, TypeOK, BatchesApart, InHand, CopiesCounted, Tried,
              CopiesExplained, GivenUpAtTheLimit
<1>2. CASE Next
  BY <1>2, AddKeepsInv, FetchKeepsInv, PublishKeepsInv, CommitKeepsInv, CrashKeepsInv
  DEF Next, SendBatch, Publish
<1> QED
  BY <1>1, <1>2

\* The invariant of the relay, over all its behaviours.
LEMMA RelayHolds == Spec => []RelayInv
  BY InitRelay, NextRelay, PTL DEF Spec

-----------------------------------------------------------------------------
\* The columns of outbox_events keep their types, and attempts never passes
\* max_attempts.
THEOREM RelayTypes == Spec => []TypeOK
<1>1. RelayInv => TypeOK
  BY DEF RelayInv
<1> QED
  BY <1>1, RelayHolds, PTL

\* SKIP LOCKED at work, for any number of producers: a copy beyond the first
\* has a counted attempt or a lost transaction to show for it.
THEOREM NoUnexplainedCopy == Spec => []CopiesExplained
<1>1. RelayInv => CopiesExplained
  BY DEF RelayInv
<1> QED
  BY <1>1, RelayHolds, PTL

\* mark_failed gives up exactly at max_attempts.
THEOREM GivesUpAtTheLimit == Spec => []GivenUpAtTheLimit
<1>1. RelayInv => GivenUpAtTheLimit
  BY DEF RelayInv
<1> QED
  BY <1>1, RelayHolds, PTL

-----------------------------------------------------------------------------
(* The relay implements OutboxContract *)

\* The empty table is the contract's.
LEMMA InitImplementsContract == Init => Contract!Init
  BY DEF Init, Contract!Init

\* One publish of send_batch puts the event into provider.out, where it may be
\* already, or leaves the queue alone.
LEMMA PublishImplementsEnqueue ==
    ASSUME RelayInv, NEW p \in Producers, NEW e \in Events,
           PublishOk(p, e) \/ PublishFails(p, e)
    PROVE  Contract!Enqueue(e) \/ UNCHANGED Contract!vars
<1> DEFINE Q == {d \in Events : copies[d] > 0}
<1>1. evstatus[e] = "pending" /\ UNCHANGED evstatus
  BY NextIsInHand DEF PublishOk, PublishFails, RelayInv, BatchesApart, InHand
<1>2. copies' = [copies EXCEPT ![e] = @ + 1] \/ copies' = [copies EXCEPT ![e] = @ + 0]
  BY DEF PublishOk, PublishFails
<1>3. CASE copies' = [copies EXCEPT ![e] = @ + 1]
  <2>1. Q' = Q \cup {e}
    BY <1>3 DEF RelayInv, TypeOK
  <2> QED
    BY <1>1, <2>1 DEF Contract!Enqueue
<1>4. CASE copies' = [copies EXCEPT ![e] = @ + 0]
  <2>1. Q' = Q
    BY <1>4 DEF RelayInv, TypeOK
  <2> QED
    BY <1>1, <2>1 DEF Contract!vars
<1> QED
  BY <1>2, <1>3, <1>4

\* The commit of send_batch decides its batch: published what the broker has
\* confirmed, given up what has failed for the last time.
LEMMA CommitImplementsDecide ==
    ASSUME RelayInv, NEW p \in Producers, Commit(p)
    PROVE  \E P, F \in SUBSET Events : Contract!Decide(P, F)
<1> DEFINE F == {e \in refused[p] : GivesUp(attempts[e] + 1)}
<1>1. sent[p] \in SUBSET Events /\ F \in SUBSET Events
  BY DEF RelayInv, TypeOK
<1>2. \A e \in sent[p] \cup F : evstatus[e] = "pending"
  BY DEF RelayInv, BatchesApart, InHand
<1>3. sent[p] \cap F = {}
  BY DEF RelayInv, BatchesApart
<1>4. sent[p] \subseteq {e \in Events : copies[e] > 0}
  BY <1>1 DEF RelayInv, CopiesCounted
<1>5. evstatus' = [e \in Events |-> IF e \in sent[p] THEN "published"
                                    ELSE IF e \in F THEN "failed" ELSE evstatus[e]]
  <2>1. \A e \in Events : e \in F <=> e \in refused[p] /\ attempts[e] + 1 >= MaxAttempts
    BY <1>1 DEF GivesUp
  <2>2. \A e \in Events : Marked(p, e) = IF e \in sent[p] THEN "published"
                                         ELSE IF e \in F THEN "failed" ELSE evstatus[e]
    BY <1>3, <2>1 DEF Marked, GivesUp
  <2>3. evstatus' = [e \in Events |-> Marked(p, e)]
    BY DEF Commit
  <2> HIDE DEF F
  <2> QED
    BY <2>2, <2>3
<1>6. UNCHANGED copies
  BY DEF Commit
<1>7. Contract!Decide(sent[p], F)
  BY <1>2, <1>3, <1>4, <1>5, <1>6 DEF Contract!Decide
<1> QED
  BY <1>1, <1>7

\* Every step of the relay is a step of the contract or invisible in it.
LEMMA NextImplementsContract ==
    RelayInv /\ [Next]_vars => [Contract!Next]_Contract!vars
<1> SUFFICES ASSUME RelayInv, [Next]_vars
             PROVE  Contract!Next \/ UNCHANGED Contract!vars
    OBVIOUS
<1>1. ASSUME NEW e \in Events, Add(e)
      PROVE  Contract!Add(e)
  BY <1>1 DEF Add, Contract!Add
<1>2. ASSUME UNCHANGED <<evstatus, copies>>
      PROVE  UNCHANGED Contract!vars
  BY <1>2 DEF Contract!vars
<1>3. ASSUME NEW p \in Producers, Fetch(p) \/ Crash(p)
      PROVE  UNCHANGED Contract!vars
  BY <1>2, <1>3 DEF Fetch, Crash
<1>4. CASE UNCHANGED vars
  BY <1>2, <1>4 DEF vars
<1> QED
  BY <1>1, <1>3, <1>4, PublishImplementsEnqueue, CommitImplementsDecide
  DEF Next, SendBatch, Publish, Contract!Next

\* The outbox producer, with its batches, its competing processes and its
\* crashes, implements OutboxContract: nothing is PUBLISHED that the broker
\* has not got, nothing is enqueued before it is committed, and PUBLISHED and
\* FAILED are final.
THEOREM RelayRefinement == Spec => ImplementsContract
  BY InitImplementsContract, NextImplementsContract, RelayHolds, PTL
  DEF Spec, ImplementsContract, Contract!Spec
=============================================================================
