--------------------------- MODULE TicketCreation ---------------------------
(***************************************************************************)
(* POST /tickets: TicketService.create_ticket under concurrent requests,   *)
(* several of which carry the same Idempotency-Key.  A ticket is named by  *)
(* the request whose uuid4() it got.                                       *)
(*                                                                         *)
(*   start --Lookup--> missing --Insert--> inserted --Commit--> committed  *)
(*   missing --Conflict--> conflict --Reread--> done                       *)
(***************************************************************************)
EXTENDS Naturals, FiniteSets

CONSTANTS
    Requests,  \* concurrent requests; a retry of the client is the same one
    Keys,      \* values of the Idempotency-Key header
    NoTicket   \* no ticket

ASSUME NoTicketIsNoRequest == NoTicket \notin Requests

VARIABLES
    key,      \* the key each request carries
    pc,       \* where each request is
    rows,     \* committed tickets
    events,   \* tickets whose TICKET event is committed
    answer,   \* ticket_id of the last response to each request
    created   \* requests answered with created=True

vars == <<key, pc, rows, events, answer, created>>

Init ==
    /\ key \in [Requests -> Keys]
    /\ pc = [r \in Requests |-> "start"]
    /\ rows = {}
    /\ events = {}
    /\ answer = [r \in Requests |-> NoTicket]
    /\ created = {}

-----------------------------------------------------------------------------
GoTo(r, to) == pc' = [pc EXCEPT ![r] = to]

\* get_by_idempotency_key: committed rows only.
Existing(r) == {t \in rows : key[t] = key[r]}

\* uq_tickets_idempotency_key against committed rows: IntegrityError.
ViolatesUnique(r) == Existing(r) # {}

\* (variant: an INSERT does not see other transactions)
InsertNeverWaits(r) == FALSE

\* An uncommitted row with the same key: the INSERT waits for its outcome.
InsertWaits(r) ==
    \E q \in Requests \ {r} : pc[q] = "inserted" /\ key[q] = key[r]

\* (variant: the response carries the key in place of the ticket_id)
AnswersTheKey(r, t) ==
    /\ answer' = [answer EXCEPT ![r] = key[r]]
    /\ GoTo(r, "done")
    /\ UNCHANGED <<key, rows, events, created>>

\* create_ticket returns created=False.
ReturnExisting(r, t) ==
    /\ answer' = [answer EXCEPT ![r] = t]
    /\ GoTo(r, "done")
    /\ UNCHANGED <<key, rows, events, created>>

\* The first read of create_ticket.
Lookup(r) ==
    /\ pc[r] = "start"
    /\ IF Existing(r) = {}
         THEN GoTo(r, "missing") /\ UNCHANGED <<key, rows, events, answer, created>>
         ELSE \E t \in Existing(r) : ReturnExisting(r, t)

\* The INSERTs of the ticket and of its event, in one open transaction.
Insert(r) ==
    /\ pc[r] = "missing"
    /\ ~InsertWaits(r)
    /\ ~ViolatesUnique(r)
    /\ GoTo(r, "inserted")
    /\ UNCHANGED <<key, rows, events, answer, created>>

\* (variant: the INSERT fails without waiting for the other transaction)
ConflictWithoutWait(r) ==
    /\ pc[r] = "missing"
    /\ InsertWaits(r) \/ ViolatesUnique(r)
    /\ GoTo(r, "conflict")
    /\ UNCHANGED <<key, rows, events, answer, created>>

\* IntegrityError, and the rollback of its handler.
Conflict(r) ==
    /\ pc[r] = "missing"
    /\ ~InsertWaits(r)
    /\ ViolatesUnique(r)
    /\ GoTo(r, "conflict")
    /\ UNCHANGED <<key, rows, events, answer, created>>

CommitRows(r) == rows' = rows \cup {r} /\ events' = events \cup {r}

Commit(r) ==
    /\ pc[r] = "inserted"
    /\ CommitRows(r)
    /\ GoTo(r, "committed")
    /\ UNCHANGED <<key, answer, created>>

\* The second read of create_ticket, after the rollback; it raises when the
\* row has gone.
AnswerConflict(r) ==
    /\ pc[r] = "conflict"
    /\ IF Existing(r) = {}
         THEN GoTo(r, "raised") /\ UNCHANGED <<key, rows, events, answer, created>>
         ELSE \E t \in Existing(r) : ReturnExisting(r, t)

\* create_ticket returns created=True after its commit.
AnswerCreated(r) ==
    /\ pc[r] = "committed"
    /\ answer' = [answer EXCEPT ![r] = r]
    /\ created' = created \cup {r}
    /\ GoTo(r, "done")
    /\ UNCHANGED <<key, rows, events>>

\* The process dies, the client disconnects or the database fails: an open
\* transaction is rolled back, a committed one stays.
Abandon(r) ==
    /\ pc[r] \in {"missing", "inserted", "committed", "conflict"}
    /\ GoTo(r, "abandoned")
    /\ UNCHANGED <<key, rows, events, answer, created>>

\* The client sends the request again with the same key.
Retry(r) ==
    /\ pc[r] \in {"abandoned", "done"}
    /\ GoTo(r, "start")
    /\ UNCHANGED <<key, rows, events, answer, created>>

Next ==
    \E r \in Requests :
        \/ Lookup(r)
        \/ Insert(r)
        \/ Conflict(r)
        \/ Commit(r)
        \/ AnswerConflict(r)
        \/ AnswerCreated(r)
        \/ Abandon(r)
        \/ Retry(r)

Spec == Init /\ [][Next]_vars

-----------------------------------------------------------------------------
(* Properties *)

States == {"start", "missing", "inserted", "conflict", "committed", "done",
           "raised", "abandoned"}

\* Every variable has its type.
TypeOK ==
    /\ key \in [Requests -> Keys]
    /\ pc \in [Requests -> States]
    /\ rows \subseteq Requests
    /\ events \subseteq Requests
    /\ answer \in [Requests -> Requests \cup {NoTicket}]
    /\ created \subseteq Requests

\* Idempotency of create_ticket: all answers to requests with one key, to
\* retries too, name the same committed ticket, whose TICKET event is in the
\* outbox; at most one of them said it created the ticket.
OneTicketPerKey ==
    /\ \A q, r \in rows : key[q] = key[r] => q = r
    /\ \A r \in Requests : answer[r] # NoTicket =>
           answer[r] \in rows \cap events /\ key[answer[r]] = key[r]
    /\ \A q, r \in created : key[q] = key[r] => q = r

\* The bare raise after the second read is never reached: an IntegrityError
\* on the key means that the other transaction has committed.
ConflictFindsRow == \A r \in Requests : pc[r] = "conflict" => Existing(r) # {}
=============================================================================
