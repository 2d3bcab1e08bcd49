------------------------ MODULE TicketCreationProofs ------------------------
(***************************************************************************)
(* Theorems about POST /tickets: for any number of requests and keys, one  *)
(* ticket per Idempotency-Key, and no IntegrityError without the row that  *)
(* caused it.                                                              *)
(***************************************************************************)
EXTENDS TicketCreation, TLAPS

\* The unique index of tickets.idempotency_key, as the transactions of
\* create_ticket keep it.  Committed rows alone would not be inductive: it
\* takes the open transactions too, of which at most one holds a key, and only
\* while no committed row has it.
OneRowPerKey ==
    /\ \A q, r \in rows : key[q] = key[r] => q = r
    /\ \A r \in Requests : pc[r] = "inserted" => Existing(r) = {}
    /\ \A q, r \in Requests :
           pc[q] = "inserted" /\ pc[r] = "inserted" /\ key[q] = key[r] => q = r

\* A ticket and its TICKET event are committed together, and create_ticket
\* answers with a committed ticket of the request's key.
AnswersAreCommitted ==
    /\ rows = events
    /\ created \subseteq rows
    /\ \A r \in Requests : pc[r] = "committed" => r \in rows
    /\ \A r \in Requests : answer[r] # NoTicket =>
           answer[r] \in rows /\ key[answer[r]] = key[r]

CreationInv == TypeOK /\ OneRowPerKey /\ AnswersAreCommitted /\ ConflictFindsRow

-----------------------------------------------------------------------------
\* The tables start empty and every request at the first line of create_ticket.
LEMMA InitCreation == Init => CreationInv
  BY DEF Init, CreationInv, TypeOK, States, OneRowPerKey, AnswersAreCommitted,
         ConflictFindsRow, Existing

\* A step of one request leaves the tables and the answers alone, and moves
\* only this request: what it may break is said of this request alone.  This
\* covers the first read of a missing row, the INSERT, the IntegrityError, a
\* process that dies and a client that tries again.
LEMMA MovesKeepInv ==
    ASSUME CreationInv, NEW r \in Requests, NEW to \in States,
           GoTo(r, to), UNCHANGED <<key, rows, events, answer, created>>,
           to = "inserted" => ~InsertWaits(r) /\ Existing(r) = {},
           to = "conflict" => Existing(r) # {},
           to # "committed"
    PROVE  CreationInv'
<1> USE DEF CreationInv, GoTo, Existing
<1>1. TypeOK'
  BY DEF TypeOK, States
<1>2. OneRowPerKey'
  BY DEF OneRowPerKey, TypeOK, InsertWaits
<1>3. AnswersAreCommitted'
  BY DEF AnswersAreCommitted, TypeOK
<1>4. ConflictFindsRow'
  BY DEF ConflictFindsRow, TypeOK
<1> QED
  BY <1>1, <1>2, <1>3, <1>4

\* create_ticket returns a committed ticket that has the request's key.
LEMMA ReturnKeepsInv ==
    ASSUME CreationInv, NEW r \in Requests, NEW t \in Existing(r),
           ReturnExisting(r, t)
    PROVE  CreationInv'
<1> USE DEF CreationInv, ReturnExisting, GoTo, Existing
<1>1. TypeOK'
  BY DEF TypeOK, States
<1>2. OneRowPerKey'
  BY DEF OneRowPerKey, TypeOK
<1>3. AnswersAreCommitted'
  BY DEF AnswersAreCommitted, TypeOK
<1>4. ConflictFindsRow'
  BY DEF ConflictFindsRow, TypeOK
<1> QED
  BY <1>1, <1>2, <1>3, <1>4

\* The commit of create_ticket: the key was free, and no other transaction
\* that is still open holds it, so the row it adds is the only one of the key.
LEMMA CommitKeepsInv ==
    ASSUME CreationInv, NEW r \in Requests, Commit(r)
    PROVE  CreationInv'
<1> USE DEF CreationInv, Commit, CommitRows, GoTo, Existing
<1>1. TypeOK'
  BY DEF TypeOK, States
<1>2. OneRowPerKey'
  <2>1. \A q \in rows : key[q] # key[r]
    BY DEF OneRowPerKey, TypeOK
  <2> QED
    BY <2>1 DEF OneRowPerKey, TypeOK
<1>3. AnswersAreCommitted'
  BY DEF AnswersAreCommitted, TypeOK
<1>4. ConflictFindsRow'
  BY DEF ConflictFindsRow, TypeOK
<1> QED
  BY <1>1, <1>2, <1>3, <1>4

\* The answer with created=True names the ticket this request committed.
LEMMA AnswerKeepsInv ==
    ASSUME CreationInv, NEW r \in Requests, AnswerCreated(r)
    PROVE  CreationInv'
<1> USE DEF CreationInv, AnswerCreated, GoTo, Existing
<1>1. TypeOK'
  BY DEF TypeOK, States
<1>2. OneRowPerKey'
  BY DEF OneRowPerKey, TypeOK
<1>3. AnswersAreCommitted'
  BY DEF AnswersAreCommitted, TypeOK
<1>4. ConflictFindsRow'
  BY DEF ConflictFindsRow, TypeOK
<1> QED
  BY <1>1, <1>2, <1>3, <1>4

\* Every step of a request keeps the index, the answers and the rows that an
\* IntegrityError has seen.
LEMMA NextCreation == CreationInv /\ [Next]_vars => CreationInv'
<1> SUFFICES ASSUME CreationInv, [Next]_vars
             PROVE  CreationInv'
    OBVIOUS
<1>1. CASE UNCHANGED vars
  BY <1>1 DEF vars, CreationInv, TypeOK, OneRowPerKey, AnswersAreCommitted,
              ConflictFindsRow, Existing
<1>2. ASSUME NEW r \in Requests, Lookup(r)
      PROVE  CreationInv'
  <2>1. CASE Existing(r) = {}
    BY <1>2, <2>1, MovesKeepInv DEF Lookup, States
  <2>2. CASE Existing(r) # {}
    BY <1>2, <2>2, ReturnKeepsInv DEF Lookup
  <2> QED
    BY <2>1, <2>2
<1>3. ASSUME NEW r \in Requests, Insert(r)
      PROVE  CreationInv'
  BY <1>3, MovesKeepInv DEF Insert, ViolatesUnique, States
<1>4. ASSUME NEW r \in Requests, Conflict(r)
      PROVE  CreationInv'
  BY <1>4, MovesKeepInv DEF Conflict, ViolatesUnique, States
<1>5. ASSUME NEW r \in Requests, AnswerConflict(r)
      PROVE  CreationInv'
  <2>1. CASE Existing(r) = {}
    BY <1>5, <2>1, MovesKeepInv DEF AnswerConflict, States
  <2>2. CASE Existing(r) # {}
    BY <1>5, <2>2, ReturnKeepsInv DEF AnswerConflict
  <2> QED
    BY <2>1, <2>2
<1>6. ASSUME NEW r \in Requests, Abandon(r) \/ Retry(r)
      PROVE  CreationInv'
  BY <1>6, MovesKeepInv DEF Abandon, Retry, States
<1> QED
  BY <1>1, <1>2, <1>3, <1>4, <1>5, <1>6, CommitKeepsInv, AnswerKeepsInv DEF Next

\* The invariant of create_ticket, over all its behaviours.
LEMMA CreationHolds == Spec => []CreationInv
  BY InitCreation, NextCreation, PTL DEF Spec

-----------------------------------------------------------------------------
\* Every variable of create_ticket keeps its type; no ticket is ever answered
\* that is not the ticket of a request.
THEOREM CreationTypes == Spec => []TypeOK
<1>1. CreationInv => TypeOK
  BY DEF CreationInv
<1> QED
  BY <1>1, CreationHolds, PTL

\* Idempotency of create_ticket, for any number of concurrent requests, of
\* retries and of keys: all answers to one key name the same committed ticket,
\* which has its event in the outbox, and at most one said created=True.
THEOREM OneTicket == Spec => []OneTicketPerKey
<1>1. CreationInv => OneTicketPerKey
  BY DEF CreationInv, OneRowPerKey, AnswersAreCommitted, OneTicketPerKey
<1> QED
  BY <1>1, CreationHolds, PTL

\* The bare raise in create_ticket's handler of IntegrityError is dead code as
\* long as tickets are not deleted: the second read finds the row.
THEOREM ConflictsHaveRows == Spec => []ConflictFindsRow
<1>1. CreationInv => ConflictFindsRow
  BY DEF CreationInv
<1> QED
  BY <1>1, CreationHolds, PTL
=============================================================================
