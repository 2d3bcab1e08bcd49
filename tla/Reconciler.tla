----------------------------- MODULE Reconciler -----------------------------
(***************************************************************************)
(* ReconcilerWorker._recover_stuck_tickets and the request_cancellation    *)
(* calls it makes.                                                         *)
(*                                                                         *)
(* One session serves the whole batch.  find_stuck locks and loads every   *)
(* row of the batch; the commit inside the first request_cancellation      *)
(* releases all those locks, while the loaded objects stay as they are.    *)
(***************************************************************************)
EXTENDS TicketStore

CONSTANT BatchSize  \* reconciler_batch_size

ASSUME BatchSizeIsPositive == BatchSize \in Nat \ {0}

VARIABLES
    rpc,      \* where each reconciler is
    batch,    \* tickets of its batch still to be processed
    current   \* ticket whose request_cancellation is running

reconcilerVars == <<rpc, batch, current>>

ReconcilerStates == {"idle", "next", "cancel_calling"}

ReconcilerInit ==
    /\ rpc = [r \in Reconcilers |-> "idle"]
    /\ batch = [r \in Reconcilers |-> {}]
    /\ current = [r \in Reconcilers |-> NoTicket]

\* The types of the reconcilers.
ReconcilerTypeOK ==
    /\ rpc \in [Reconcilers -> ReconcilerStates]
    /\ batch \in [Reconcilers -> SUBSET Tickets]
    /\ current \in [Reconcilers -> Tickets \cup {NoTicket}]

-----------------------------------------------------------------------------
\* (variant: a ticket whose cancellation was requested is left to the provider)
StuckUnlessAsked(t) ==
    /\ status[t] \notin {"absent", "cancellation_requested"}
    /\ ~Terminal(status[t])
    /\ aged[t]
    /\ holder[t] = NoSession

\* The rows find_stuck may return; SKIP LOCKED leaves out the locked ones.
Stuck(t) ==
    /\ status[t] # "absent"
    /\ ~Terminal(status[t])
    /\ aged[t]
    /\ holder[t] = NoSession

EndTick(r) ==
    /\ rpc' = [rpc EXCEPT ![r] = "idle"]
    /\ batch' = [batch EXCEPT ![r] = {}]
    /\ current' = [current EXCEPT ![r] = NoTicket]
    /\ ReleaseLocks(r)
    /\ Forget(r)

\* find_stuck returns the rows B.  LIMIT and the rows other transactions hold
\* for an instant decide which of the stuck rows they are.
FindStuck(r, B) ==
    /\ rpc[r] = "idle"
    /\ B # {}
    /\ Cardinality(B) <= BatchSize
    /\ \A t \in B : Stuck(t)
    /\ holder' = [t \in Tickets |-> IF t \in B THEN r ELSE holder[t]]
    /\ seen' = [seen EXCEPT ![r] =
                  [t \in Tickets |-> IF t \in B THEN status[t] ELSE @[t]]]
    /\ rpc' = [rpc EXCEPT ![r] = "next"]
    /\ batch' = [batch EXCEPT ![r] = B]
    /\ UNCHANGED <<current, status, recommendation, aged, outbox>>

\* request_cancellation(t) takes the row lock (again, after the first commit)
\* and calls the monolith with the lock held.
StartCancel(r, t) ==
    /\ rpc[r] = "next"
    /\ t \in batch[r]
    /\ Lockable(r, t)
    /\ holder' = [holder EXCEPT ![t] = r]
    /\ rpc' = [rpc EXCEPT ![r] = "cancel_calling"]
    /\ current' = [current EXCEPT ![r] = t]
    /\ UNCHANGED <<batch, status, recommendation, aged, seen, outbox>>

\* The rest of request_cancellation, to its commit; after the last ticket the
\* session is closed.
FinishCancel(r) ==
    LET t == current[r]
        rest == batch[r] \ {t}
    IN
    /\ rpc[r] = "cancel_calling"
    /\ ChangeStatus(r, t, "cancellation_requested")
    /\ Touch(t)
    /\ Emit("REQUEST_CANCELLATION", t, 0)
    /\ IF rest = {}
         THEN EndTick(r)
         ELSE /\ rpc' = [rpc EXCEPT ![r] = "next"]
              /\ batch' = [batch EXCEPT ![r] = rest]
              /\ current' = [current EXCEPT ![r] = NoTicket]
              /\ ReleaseLocks(r)
              /\ seen' = [seen EXCEPT ![r][t] = "cancellation_requested"]
    /\ UNCHANGED recommendation

\* A crash, or a database error: it aborts the transaction of the session, so
\* the rest of the batch fails with it.
AbortTick(r) ==
    /\ rpc[r] # "idle"
    /\ EndTick(r)
    /\ UNCHANGED <<status, recommendation, aged, outbox>>

ReconcilerStep(r) ==
    \/ \E B \in SUBSET Tickets : FindStuck(r, B)
    \/ \E t \in Tickets : StartCancel(r, t)
    \/ FinishCancel(r)
    \/ AbortTick(r)
=============================================================================
