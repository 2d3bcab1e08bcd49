# The ticket platform in TLA+

The repository is an asynchronous betting-ticket platform: an API takes tickets,
a risk provider at the far end of a websocket recommends to accept or to decline
them, a monolith settles them, and the provider is told the result. This
directory specifies the code in `src/backend`, model-checks it with TLC on small
instances, and proves what matters most with TLAPS for every instance.

## 1. The system

| Component | Code | State it keeps | Operations that change state |
|---|---|---|---|
| Ticket store | `db/models`, `db/repositories`, `db/session.py` | tables `tickets`, `outbox_events`, `processed_provider_messages`; row locks; identity map of each session | the SQL of the repositories, commit, rollback |
| API | `api/v1/tickets.py`, `services/ticket.py` | none of its own | `create_ticket` |
| Ticket service | `services/ticket.py` | none of its own | `apply_recommendation`, `request_cancellation`, `mark_cancellation_applied` |
| Outbox producer | `services/outbox.py`, `workers/outbox_producer` | its open transaction: batch, `published_ids`, `failed` | `send_batch` in an endless loop |
| Broker | `transport/` | quorum queues provider.out and provider.in, delivery counters, dead-letter queue | publish, deliver, ack, nack |
| Provider gateway | `workers/provider_gateway/worker.py` | a message per running handler; the receive task | `_send_to_provider`, `_handle_message_success_ack`, `_recieve_from_provider` |
| Provider | `workers/provider_gateway/client.py` (a mock) | frames not yet received | `send`, `_schedule_response` |
| Provider consumer | `workers/provider_consumer/worker.py` | a frame, a session per running handler | `_handle` |
| Monolith | `services/monolith.py` (a fake) | what it has settled | `process_ticket` |
| Reconciler | `workers/reconciler/worker.py` | its batch, one session per tick | `_recover_stuck_tickets` |
| Probes | `observability/` | `last_ok`, `succeeded_once` of each check | `check_all` |

How they interact: the API, the consumer and the reconciler write tickets
together with outbox rows in one commit. The producer moves outbox rows to
provider.out. The gateway sends them to the provider, and after an "ok" changes
the ticket in a transaction of its own. The provider's frames arrive at the
gateway, which puts them into provider.in; the consumer claims each in the inbox
table and calls the service. The reconciler cancels tickets that have not
changed for a while. All processes share the rows of `tickets`, through
`SELECT ... FOR UPDATE` and through objects that a session keeps after its
commit (`expire_on_commit=False`).

Hard behaviours, and what makes each part correct:

* **Consumer.** Redelivery, two handlers with the same frame, a failure between
  the two commits of `apply_recommendation`, a monolith that fails. Correct: a
  frame is claimed together with its effect, settled once, answered once.
* **Service and store.** Rows that change between two reads of one session; a
  session that does not notice. Correct: a decided ticket rests on what provider
  and monolith did, and is never taken back to an early status.
* **Gateway.** A recommendation that overtakes the bookkeeping of the ticket's
  own "ok"; messages sent twice. Correct: late bookkeeping does no harm.
* **Reconciler.** One session for a batch, whose first commit releases all the
  locks. Correct: it cancels only what is still stuck (it does not: section 5).
* **Outbox producer.** Competing producers, publishes that fail, or that succeed
  without anyone knowing, a crash before the commit. Correct: every committed
  event is published or given up at the limit, and duplicates have a cause.
* **API.** Concurrent and repeated requests with one key. Correct: one ticket.
* **Receive loop and client.** Frames that exist in the memory of one process
  only, a loop that ends after one failed publish, a stop that cancels tasks.
  Correct: a frame is acknowledged to the provider only when the broker has it,
  and at most the frame in hand is lost by a failure.
* **Broker.** Messages returned by handlers that raise or processes that die, up
  to the delivery limit. Correct: nothing vanishes, nothing goes round for ever.
* **Probes.** Health requests that interleave in `check_all`. Correct: an answer
  rests on the checks of its own request, "started" is not taken back.
* **Start and shutdown.** Cleanup that stops half way; a framework that closes
  the broker before the cleanup begins; users that open again what was closed.
  Correct: a shutdown that is announced as complete has closed everything.

`PROJECT.json` lists the hazards with their lines, and the properties that cover
each.

## 2. The modules

| Module | Models | State and actions, and the code they stand for |
|---|---|---|
| `TicketTypes` | `constants.py` | statuses, message types, `Recommended`, `AckType`, `Decided` |
| `TicketStore` | tables and sessions | `status`, `recommendation`, `aged` (is `updated_at` beyond the threshold), `holder` (row lock), `seen` (identity map), `outbox`; `Loaded` is the status the object returned by `get_by_id_for_update` carries; `ChangeStatus`, `Touch`, `Emit` are the writes |
| `ProviderChannel` | the mock provider | `frames` it has sent, `accepted` events; `Accept` |
| `ProviderConsumer` | `_handle` and the service methods under it | program counter and frame per handler, `inbox`, `settled`; one action per stretch between two awaits that let others in |
| `ProviderGateway` | the sending half of the gateway | program counter and event per sender; `Take`, `ProviderAccepts`, `RecordAck` |
| `Reconciler` | `_recover_stuck_tickets` | `batch`, `current`; `FindStuck`, `StartCancel`, `FinishCancel` |
| `TicketLifecycle` | all of them together | the composition; its properties |
| `FrameContract` | what is promised for one frame | an abstract specification `TicketLifecycle` implements |
| `DecisionContract` | the state machine of statuses that the services really have | a second one; its state is read off `status`, inbox and outbox |
| `MCTicketLifecycle` | | symmetry for TLC |
| `OutboxRelay` | `send_batch` and its loop | `evstatus`, `attempts`, `copies` in the broker, and per producer `todo`, `sent`, `refused` |
| `OutboxContract` | what the producer promises | the abstract specification `OutboxRelay` implements |
| `TicketCreation` | `create_ticket` under concurrency | `rows`, `events`, a program counter per request |
| `BrokerQueue` | `transport/broker.py` and what FastStream and RabbitMQ make of it | `place` of each message (outside, ready, a process, acked, dead), `returns` (delivery counter), `stage` of its handler; `Publish`, `Deliver`, `Ack`, `Raise`, `Disconnect` |
| `OutboundPath` | producer, provider.out, `_send_to_provider` | instantiates `BrokerQueue` for the copies of an event and `OutboxContract` for the producers; `oks` and `rejected` are the provider's answers; `recorded` are the copies whose bookkeeping transaction is over, be it with a write or with an early return |
| `InboundPath` | client memory, `_recieve_from_provider`, provider.in, `_handle` as a whole | extends `BrokerQueue`; `delayed` and `inbound` are `_background_tasks` and `_inbound`, `loop` and `hand` the receive loop; `inbox` the committed claims |
| `Probes` | `ProbeRegistry`, `ProbesServer`, health routes of the API | `lastOk`, `succeeded`, the two gauges, and a position per request: before and after `db_ping` |
| `WorkerProcess` | `main` of gateway, consumer and reconciler, `lifespan` of the API | the calls of startup and cleanup still to be made, the resources open; `AppStops` is FastStream's own stop on a signal, `StopRequested` the entry of the finally block |
| `TicketLifecycleProofs` | | types, outbox pattern and locks of `TicketLifecycle` |
| `ContractProofs` | | its answers, decisions and two contracts |
| `TicketCreationProofs`, `OutboxRelayProofs`, `OutboundProofs`, `InboundProofs`, `ProbesProofs`, `WorkerProofs` | | theorems about the module each is named after |

`ProviderConsumer`, `ProviderGateway` and `Reconciler` share the variables of
`TicketStore` by extending it; `TicketLifecycle` extends all three, and each of
its actions frames the variables of the other processes. `OutboundPath` and
`InboundPath` are the two ways between the ticket store and the provider; what
a handler does to a ticket is in `TicketLifecycle` and one step there.

Abstractions, all but the one named below on the side of more behaviours:

* Between the outbox and the gateway, and between the provider and the consumer,
  `TicketLifecycle` has no queue: an event or a frame that exists may be
  delivered at any time, in any order, again, or never. Everything `OutboxRelay`
  and the broker do is among these behaviours, a handler that goes on working
  after its connection is lost included. In `BrokerQueue` a message is returned
  only when its handler has raised or its process is gone.
* A message that was returned more often than `DeliveryLimit` is dead: with
  `rmq_max_attempts` 3 a handler sees it at most four times. A dead message stays
  dead, as nobody consumes `tickets.dlq`.
* In `InboundPath` the consumer is reduced to the points that matter to the
  queue: duplicate, claimed, ignored since the ticket is terminal, finished,
  raised. In `OutboundPath` the type of an event is either REQUEST_CANCELLATION,
  for which the gateway records nothing, or any other.
* In `Probes` the first probe is "db", which awaits, and "provider" does not, so
  the writes of a request and its answer are one step. `mark_dead` has no caller:
  /health/live always answers "alive".
* In `WorkerProcess` a process that is restarted (`restart: unless-stopped`)
  has nothing open. `provider.stop` and the stop of the receive loop are steps of
  the gateway's cleanup; what they do to frames is in `InboundPath`.
* `FastStream.run` is external. It installs its own handlers for SIGTERM and
  SIGINT, which replace those of `main()`, and closes the broker before it
  returns. So a gateway or consumer that gets a signal enters its finally block
  with the broker closed; it enters it with the broker open only if the app fails
  or the signal comes before `FastStream.run`. What a gateway's receive loop meets
  meanwhile is a publish that raises: `PublishFails` in `InboundPath`.
* A broker that is closed has no running handlers. In the code its close waits
  30 seconds for them (`graceful_timeout`, `transport/broker.py:56`); a handler that
  takes longer could open the engine after `dispose_engine`. This is the one
  abstraction that has less behaviour than the code.
* A row lock that is taken and released without an await on anything but the
  database is a guard (`Lockable`); one that is kept across a call of the monolith
  (`request_cancellation`) or across a batch (`find_stuck`) is in `holder`.
* `GrowOld` lets any non-terminal row pass the threshold at any time; the order
  of `updated_at` inside a batch is left open.
* `FailHandler`, `FailSender`, `AbortTick` and `Crash` stand for a crash, a kill
  and a database error alike: the transaction is rolled back and the session is
  gone. A frame or event can be delivered again afterwards.
* Texts, amounts, reasons, timestamps other than `updated_at`, and the formats of
  messages are left out. Tickets are never deleted, so the branches for an
  unknown ticket are left out too, and so are messages that fail validation.

Comments that begin with "(variant" mark definitions no specification uses: each
is a wrong version of the definition after it (a dropped check, a lost write, an
off-by-one), and the property listed with it in `PROJECT.json` "mutants" fails
when it takes the place of that definition.

## 3. What TLC checks

| Run | Instance | Question |
|---|---|---|
| `one_ticket` | 1 ticket, 2 handlers, 2 senders, 1 reconciler, 4 events, 2 frames | Is the status of a ticket grounded, and does every frame follow `FrameContract`, whatever interleaves, is redelivered or fails? |
| `two_tickets` | 2 tickets, 1 handler, 1 sender, 1 reconciler, 5 events, 1 frame | Do locks protect what they should across a reconciler batch, is no status committed without its event, and do stale objects stay within `DecisionContract`? |
| `asked_again` | 1 ticket, 1 handler, 1 sender, 1 reconciler, 4 events, 2 frames | Is a ticket that is not terminal cancelled again and again; is every change of status a step of `DecisionContract`? |
| `outbox_relay` | 3 events, 2 producers, batches of 2, 2 attempts, 1 crash | Are events neither lost, starved nor duplicated without a cause? |
| `ticket_creation` | 3 requests with retries, 2 keys | One ticket per key, one event per ticket, no surprise for the client? |
| `outbound_path` | 1 event, 2 copies, 2 gateways, limit 3 | Does an event come to an end at the provider or in the dead-letter queue, and how often can the provider see it? |
| `inbound_path` | 2 frames, 1 consumer, limit 1, 1 restart | Where can a frame of the provider be lost? |
| `probes` | 2 requests, "db" and "provider" | Do overlapping health requests answer what they checked? |
| `worker_process` | the gateway, the consumer, the reconciler, the API | Does a shutdown that completes leave nothing open, although handlers and health requests open the engine whenever they like? |
| `doc_*` | see section 5 | Does the code do what a comment or the README says? |

The properties of the ticket system:

* `DecisionGrounded`, `CancellationGrounded`: CONFIRMED, DECLINED and CANCELLED
  rest on a chain through inbox, monolith, outbox and provider.
* `OneAnswerPerFrame` and `ImplementsFrameContract`: at most one settlement and
  one outbox event for each frame. The contract says in which order, and that work which dies
  between two commits stays where it is.
* `ClaimCommitsWithEffect`: the promise in the comments of `try_claim` and `_handle`.
* `NoEarlyRegress`, `TerminalReopensOnlyStale`: what the two checks of
  `_handle_message_success_ack`, and the first check of `apply_recommendation`,
  achieve. The second one names the only ways a terminal status is left.
* `TransactionalOutbox`, `LocksMatchWork`, `LockedRowsUntouched`: outbox pattern
  and locking.

* `ImplementsDecisionContract`: the edges of the status machine. It has more of
  them than the drawing in `src/README.md:50`; section 5 says which.
* `AskedAgain` (liveness): no ticket is stuck for good.

Of the producer: `CopiesExplained`, `GivenUpAtTheLimit`, `EveryEventDecided`
(liveness) and `ImplementsContract`. Of the API: `OneTicketPerKey` and
`ConflictFindsRow` (the bare `raise` in `create_ticket` is not reached).

Of the queues: `NothingVanishes`, `RetriesBounded` and `EveryEventEnds` (liveness)
on the way out; `AckedIsPersisted`, `LossExplained`, `AckedWasHandled` and
`FramesEnd` (liveness) on the way in. Of the probes: `ReadyWasUp`,
`RefusalNamesCulprit` (a 503 reads its checks from the shared registry and still
shows a false one), `StartedSticks`, `StoppedShowsNothing`. Of the processes:
`CompleteMeansClosed`. There is no property about the order in which a gateway's receive
loop and broker end: on a signal the broker is closed first, and what that may
cost is said by `AckedIsPersisted` and `LossExplained`.

### Bounds, and why they are enough

`MaxEvents` and `MaxFrames` bound the outbox and the provider's frames; at a bound
the action that would add one waits, as it would if the process were slow. Two
frames for one ticket are the least at which a duplicated TICKET gets two
contradicting recommendations, or a recommendation meets a cancellation; four
events allow a ticket, its answer, a cancellation by each of the consumer and the
reconciler. Two handlers and two senders are the least that race. Two tickets are
needed for the stale half of a reconciler batch only, so `two_tickets` spends its
states there. `asked_again` has one process
of each kind, and no symmetry, since it checks liveness; with one handler a
stale settle is still possible, as the sender confirms an earlier answer during
the call of the monolith. `MaxAttempts` is 2 in `outbox_relay` (3 in the code): one
failure below the limit and one at it; three events with batches of two make a
second batch. `MaxCrashes` bounds lost transactions. `outbound_path` has the limit of the
configuration, and two copies of one event, which is what a repeated publish
makes; copies of different events meet only in the crash of a gateway, which two
copies in one gateway show. `inbound_path` has two frames, one to be lost and one
behind it, a limit of 1 (a return below the limit and one at it), and one restart:
after it the gateway begins without memory, as after any later one. Two health requests
overlap in every way a third could add to, as each writes the shared sets at
once. `worker_process` and `probes` have no bounds. Deadlock is not checked: at
the bounds the system may have nothing left to do, and a created ticket, a
published event and an answered request are ends.

Symmetry is over handlers, senders and tickets, and only in runs without
liveness. (There is one reconciler in each run.)

### Fairness

Four modules claim liveness, each under its own `FairSpec`.

* `OutboxRelay`: weakly fair to `SendBatch(p)`
  for each producer: the loop in `OutboxProducerWorker._loop` catches every
  exception and polls again, and each await inside a batch returns or raises. A
  publish may fail every time; then the event is given up, which counts as decided.
  Crashes and lost transactions are finitely many, as no code could promise progress
  otherwise. Nothing is assumed of the services that add events.
* `OutboundPath`: weakly fair to `DecideBatch`, which is what `EveryEventDecided`
  shows of the producers; to the delivery of each copy, as a gateway that dies is
  restarted by docker; and to its handler, each await of which returns or
  raises. Gateways may die for ever: every death counts as a return.
* `InboundPath`: the same for the queue, and weakly fair to the receive loop and to
  each delayed task. A publish may fail at any time, the client may be stopped.
* `TicketLifecycle`: time passes; the database grants the reconciler its locks in
  the end, and not every tick is aborted (strong fairness, as a lock held by a
  handler disables its steps now and then: `run` catches what a tick raises and polls
  for ever); a handler that holds a row lock gets an answer from the monolith.
  Nothing is assumed of provider, queues, senders or other handlers.

## 4. What is proved

Every invariant and every action property of the passing runs, the three
refinements `ImplementsFrameContract`, `ImplementsDecisionContract` and
`ImplementsContract`, and one more: for any number of tickets, events, frames, requests,
processes and health requests, and for any value of the bounds. Each theorem
names the property it states, and `PROJECT.json` lists them.

### Assumptions

All of them are `ASSUME`d by name in the module that declares the constants, and
TLC evaluates them on the instances. Bounds are numbers: `MaxEventsIsNat`,
`MaxFramesIsNat`, `RestartAssumption`, `BatchSizeIsPositive`, `OutboxAssumption`
(event ids, batch size, `max_attempts` and crashes). Identities differ:
`SessionsAreDistinct` (sessions of different processes), `NoTicketIsNoRequest`,
`QueueAssumption` and `OutboundAssumption` (a process is not called "ready";
the delivery limit is a number), `FrameAssumption` (`_CLOSED` is no frame: the
code makes it an object of its own and compares it with `is`). The code's own
choices: `RegistryAssumption` (every process registers "db", and nothing beyond
"db" and "provider"), `MainsAssumption` (there are four entry points).

### The inductive invariants

Hardly a property is inductive as it stands. What a proof adds is what the code
relies on without saying so.

* `TicketLifecycleProofs`, tables and locks. `TypeInv` adds `WorkExists` to the
  types: whoever works has a frame, an event or a ticket that is there, and the
  sequences respect their bounds. `IndicesExist` and `RowsExist` say the same of the
  inbox, of acknowledged events and of reconciler batches. `OutboxPattern` needs no
  more. `LocksMatch` and `LocksProtect` need one fact beside `LocksMatchWork`: an idle
  reconciler has no batch.
* `ContractProofs!OneAnswer`. Whether a second answer is possible depends on three
  things the property does not mention, so `FrameInv` adds them: a frame is in the
  hands of at most one handler; its claim is committed exactly from the moment
  the handler leaves "claimed"; and the handler's position tells whether the
  monolith settled it. A frame in hand has no event yet, and every event with a
  cause is about a claimed frame. The lemmas follow the steps of `_handle`;
  gateway, API and reconciler change nothing `FrameInv` speaks of, except events
  that no frame caused.
* `ContractProofs!FrameRefinement`. `PhaseLaw` computes the phase that the
  contract sees from claim, settlement and event, which `FrameInv` makes unique;
  then each step of a handler is one step of the contract or none.
* `ContractProofs!DecisionRefinement` and the four theorems after it. The state of
  the contract is read off rows, inbox and outbox, so a step of any process must
  find the grounds the contract asks for. `EvidenceInv` has them: answers repeat
  claimed recommendations, a CANCELLATION_APPLIED answers an acknowledged
  request, a sender about to record holds an acknowledged event, the identity map
  (`seen`) of a handler holds the status its own first commit gave the ticket, and a
  reconciler that has seen CANCELLATION_REQUESTED saw it with its event: a stale
  object is old, never invented. With the refinement, `EarlyIsGroundless` (nothing was
  recommended on a ticket that is NEW or SENT_TO_PROVIDER) gives
  `NeverEarlyAgain`, and `StatusEvidence` gives
  `DecisionsAreGrounded` and `CancellationsAreGrounded`.
* `TicketCreationProofs`. One committed row per key is not inductive: `OneRowPerKey`
  adds the open transactions, of which at most one holds a key, and only while no
  committed row has it. That is what the unique index enforces, and what makes
  the bare `raise` unreachable.
* `OutboxRelayProofs`. `BatchesApart` is what SKIP LOCKED and the single commit give:
  batches are disjoint, and an event in hand is still pending. `CopiesCounted` is the
  strengthening of `CopiesExplained`: a pending event nobody has tried since has no
  copy to spare, so that the next attempt may leave one more. From both,
  `RelayRefinement` maps fetch and crash to stutters, a publish to `Enqueue` and a
  commit to one `Decide`.
* `OutboundProofs`. `HandlersKnow` says at each position of `_send_to_provider` what
  has been done, so that an acknowledgement may follow; `DeliveriesCounted` says that
  each earlier "ok" of a copy is paid for by a return. `PathKeepsOutboxContract` closes
  the composition: `OutboundPath` takes the producers by the contract that
  `RelayRefinement` shows of `OutboxRelay`, and no delivery, crash or dead letter
  makes an event look as if it had never been published.
* `InboundProofs`. `LoopKnows` ties the frame in hand to the loop's position;
  `LossKnown` names the reason for the single loss: until `stop`, the sentinel is not
  in the client's queue, so the loop ends by a failed publish only, and nothing
  follows it. The invariant has a half for the gateway and one for the consumer,
  which meet in the queue only (`QueueMoves`).
* `ProbesProofs`. `RunningRequests` says what a request may rely on between its two
  awaits: what is up now was up during the request, although the shared
  registry may have been written by others.
* `WorkerProofs`. `InPhase` says how far a process is in its list of calls
  (`Opening`, `Closing`): what shutdown has passed is closed, and stays so, since
  the only resource that anyone opens outside startup is the engine, whose call is
  the last. The engine may be open in every phase, so `Opening` leaves it out.
  The proofs use no more of the lists in `main()` and `lifespan` than
  `AboutStartup` and `AboutCleanup` say: startup opens nothing twice, nothing that
  cleanup does not name, and leaves the engine to its users; cleanup disposes of
  the engine last, once. `AppStops` only closes.

Preservation has one lemma per process or action, with one step per conjunct that
the action can disturb. The proofs notice what they should: they fail when
the producer's query takes locked rows, when an INSERT does not wait for an open
transaction with the same key, or when the broker does not count a return.

### Only model-checked

The four liveness properties `EveryEventDecided`, `EveryEventEnds`, `FramesEnd` and
`AskedAgain`, as the prover does not deal with fairness or ENABLED, and the runs of
section 5, which find counterexamples.

## 5. Where code and documentation part

* `doc_settle_spares_terminal` (`services/ticket.py:154`): the terminal check before SETTLED
  looks at the object loaded before the monolith call. The row is locked, the
  object is not refreshed, so a ticket cancelled meanwhile is settled.
* `doc_frames_reach_queue` (`workers/provider_gateway/worker.py:89`): one publish that raises ends
  the receive loop. Later frames stay in `_inbound`, the process stays up and ready.
  `FramesEnd` and `LossExplained` say what holds in spite of it.
* `doc_shutdown_completes` (`workers/reconciler/main.py:47`): the cleanup of reconciler, consumer
  and API begins with `monolith.close()`, which `FakeMonolithClient` does not have. The
  probes server is not stopped, the engine not disposed. `CompleteMeansClosed`
  therefore says little of these three: they never complete.

Further differences have no run of their own, but can be read off the contracts
and the models:

* `DecisionContract!RequestCancel` leaves terminal statuses, though `src/README.md:54`
  allows it from a non-terminal one: the second ticket of a reconciler
  batch is cancelled by its state at the beginning of the tick.
* `DecisionContract!Cancel` is enabled in any later status, not in
  CANCELLATION_REQUESTED only (`src/README.md:56`), and `Recommend` and `Decide` leave
  CANCELLATION_REQUESTED (`src/backend/constants.py:24`).
* `FrameContract` has no exit from "taken" or "settled" after a crash: a handler that
  dies after the first commit of `apply_recommendation` leaves a frame that later
  deliveries skip, though `try_claim` speaks of messages that were processed
  (`src/backend/db/repositories/inbox.py:23`).
* `NothingVanishes` has to count rejected copies as done: a frame the provider
  refuses is acknowledged (`workers/provider_gateway/worker.py:66`), as
  `_handle_message_rejection` does nothing, though `src/README.md:24` promises three
  retries and the dead-letter queue on failure.
* The finally block of `workers/provider_gateway/main.py:59` stops provider and receive
  loop before it closes the broker. On a signal this order is not kept, as
  `FastStream.run` (line 48) has closed the broker by then.
* The gauges of `Probes` mean less than `src/backend/observability/metrics.py:8` and `:15`
  say: process_up is set before any check, and no process registers a
  probe of the broker.

## 6. Not modelled

Configuration, metrics, logging, schemas of requests, error formatting, security
headers and migrations have no state the properties depend on. `get_ticket`,
`get_by_id` and `count_by_status` only read; `mark_provider_ack_delivered`,
`mark_dead` and `stale_threshold` have no caller. The status EXPIRED is never
written. `main` of the outbox producer has no cleanup of its own beyond
`async with broker`; its death is `Crash` in `OutboxRelay`. The websocket client is a
mock, so reconnection and lost sends are not in the code. RabbitMQ, FastStream, PostgreSQL and
aiohttp are modelled by how the code uses them, and marked external.

## 7. Running

    tlc -workers 2 -config OneTicket.cfg MCTicketLifecycle
    tlc -workers 2 -config OutboxRelay.cfg OutboxRelay
    tlc -workers 2 -config InboundPath.cfg InboundPath
    tlapm ContractProofs.tla

`one_ticket` and `ContractProofs` take about a minute each, every other run and
proof less than half of that.

## 8. Plan

Done, in this order: `TicketTypes`, `TicketStore`, `ProviderChannel`,
`ProviderConsumer`, `ProviderGateway`, `Reconciler`, `TicketLifecycle` with its
proofs, `FrameContract`, `OutboxRelay` with `OutboxContract`, `TicketCreation`;
`BrokerQueue`, `OutboundPath`, `InboundPath`, `DecisionContract`, liveness of
`TicketLifecycle`, `Probes`, `WorkerProcess`;
the proofs of the ticket system's types, outbox pattern, locks, answers and
decisions with both contracts; of `OutboxRelay` with its contract; of
`TicketCreation`, `OutboundPath`, `InboundPath`, `Probes` and `WorkerProcess`.

Left:

1. Bounds over all copies of an event, from `CopiesExplained` and `RetriesBounded`
   together: how often the provider can see one event.
2. The facts about `BrokerQueue` that `OutboundProofs` and `InboundProofs` both
   prove, stated once.
