# Verification of the hotel backend

TLA+ models of the concurrent core of the hotel management system
(`src/hotel/backend`, `src/hotel/workers`, `src/hotel/frontend/src/lib`,
`src/shared/actor-kit`, `src/shared/core`), the TLC runs that check them on small instances, and TLAPS
proofs of their invariants for every value of the constants.

The program is a Node.js backend on PostgreSQL, started as one or more
processes. People work through REST calls; "actors" (workers and agents) react
to events. Its difficult behaviour is not in single calls but between them:
transactions at READ COMMITTED that lock rows one by one, events delivered at
least once and in any order, awaits at which other work of the same process
runs, and process crashes that lose whatever was in memory.

## 1. The system

| Component | Code | State | Operations | Talks to |
|---|---|---|---|---|
| Transactional outbox and bus | `lib/write.js`, `lib/outbox.js`, `shared/core/bus` | `OutboxEvent` rows, listeners | write with events, dispatch, mark, relay, age | every service writes through it; all actors listen |
| Actor worker base | `shared/actor-kit/base-worker.js` | slots and queue in memory, `ProcessedEvent`, manual tasks, activity entries | handle, pool, retry, fall back to the staff | bus, approvals, manual tasks |
| Approval queue | `modules/approvals`, `actor-kit/approval.js` | `Approval`, `PendingAction` | request, decide, expire, claim, resume | worker base (asks and is resumed by event) |
| Room inventory | `modules/rooms`, `modules/reservations` | `Room`, `RoomType`, `RoomBlock`, `Reservation`, nights | create, assign, move, update, cancel, reinstate, block, withdraw | locks in `lib/locks.js` |
| Front desk | `modules/front-desk` | status and room of a reservation | check-in, check-out, their reverts | locks of the inventory; tells the workers |
| Housekeeping | `modules/housekeeping`, room and housekeeping workers | `HousekeepingTask`, status and occupancy of rooms | open, finish, inspect, cancel, stay-over job, event handlers | front desk, rooms |
| Read caches and live version | `lib/cache.js`, `lib/read-cache.js`, `lib/live-version.js` | values and versions in memory | load, answer, invalidate on an event | bus |
| Notifications | `modules/notifications` | queue rows | enqueue, claim, send, finish, recover, report | bus, providers |
| Channel manager | `modules/channel-manager`, channel-sync worker | dirty window, what was sent, bookings | mark dirty, claim, send the difference, full run, fetch and acknowledge | inventory (by event), external channel |
| Folios and payments | `modules/folios`, `modules/payments`, billing worker | folios, items, payments, routes | post, void, transfer, split, merge, close, charge nights, settle, pay, refund | front desk, approvals |
| Concierge and messaging | `modules/concierge`, `modules/messaging`, router and concierge agents | conversations and who answers, pending offers and requests, turns in memory | receive, route, answer, propose, request, hand off, take over, give back | language model, reservations (by event) |
| Live screens | `lib/realtime.js`, `frontend/src/lib/useLiveChannel.js`, `socket.js` | rooms of sockets, what a browser shows | subscribe, announce, refetch, poll, reconnect | bus, read caches |
| Everything else | | documents, lists, calculations | one transaction per call | |

`PROJECT.json` lists every component, modelled or not, with the reason, and
every hazard at its line.

Properties that make the components correct:

- **Outbox**: only committed events go out; a committed event goes out unless a
  relay died between its claim and its dispatch; each path sends once.
- **Worker base**: the pool's accounts are exact; an event recorded as processed
  was worked on, handed to the staff, or skipped on purpose; extra outcomes only
  for incidents; every job ends.
- **Approvals**: gated work is done under a grant and at most once; decisions are
  final; refusals close; grants are carried out; due requests are settled.
- **Inventory**: what a call has found free is free when it writes; no update is lost; a
  deadlock needs a call that locks a foreign type; nothing is overbooked
  unless someone allowed it or an operation without the type's lock lowered it.
- **Front desk and housekeeping**: two guests never share a room; a room and its
  tasks tell the truth once the newest fact has been written; a departure is
  followed by a cleaning.
- **Caches**: nobody who was told of a change reads the state before it.
- **Notifications**: a message goes out again only if it was put back; what its history says
  is true; every message ends.
- **Folios and payments**: stored totals are the sums of the rows; a closed folio owes
  nothing; nothing is left on a merged one; a night and a late fee are charged once; the
  settlement leaves what the check-out counted; nothing is given back that was not taken.
- **Channel manager**: a change is on its way, marked, or covered by a full run unless a named
  incident let it slip; the record of what was sent is true; the nightly run repairs.
- **Concierge and messaging**: nothing is booked that the guest did not confirm; the AI does not
  answer over the staff; the result of a request is told once, after the turn that made it; no
  message is left to nobody.
- **Live screens**: what a screen was told of is shown or on its way; a screen that was
  cut off catches up.

## 2. Modules

| Module | What it models |
|---|---|
| `Outbox` | writes with events, dispatch after commit, the relay and its claims, marks that fail, crashes |
| `AtLeastOnce` | the abstract promise: an event is committed, then sent, or lost with a relay |
| `DeliveryProofs` | theorems about `Outbox`, the refinement, and `ChannelSync` |
| `BaseWorker` | one actor: `handle()` with every await as a step, the pool, retries, manual tasks |
| `ApprovalQueue` | EXTENDS `BaseWorker`: requests, decisions, expiry, claims and resumes around the actor's steps |
| `WorkerProofs` | theorems about `BaseWorker` and, resting on them, about `ApprovalQueue` |
| `Inventory` | the transactions of rooms and reservations, lock by lock, read by read |
| `InventoryProofs` | theorems about `Inventory` |
| `StayRooms` | a business day of front desk, rooms, cleaning tasks and the two workers |
| `StayRoomsProofs` | theorems about `StayRooms` |
| `ReadCaches` | loaders of settings, computations of read results and the version they are kept under |
| `FreshnessProofs` | theorems about `ReadCaches` and `LiveScreens` |
| `Notifications` | the queue of messages and its senders, statement by statement, with late results and stale sends |
| `NotificationProofs` | theorems about `Notifications` |
| `Folios` | folios of stays: charges, voids, moves, nights, check-out and settlement |
| `Payments` | EXTENDS `Folios`: payments, refunds, voids and decisions on them |
| `FolioProofs` | theorems about `Folios` and `Payments` together |
| `ChannelSync` | keeping one sales channel in step with the hotel |
| `LiveScreens` | the screens of one browser on one live channel |
| `Handoff` | one conversation between a guest, the AI agents and the staff |
| `HandoffProofs` | theorems about `Handoff` |
| `MC*` | small instances |

How they compose: `ApprovalQueue` is `BaseWorker` with the approval steps
interleaved. `Outbox` establishes what the others assume of events (committed
events only, at least once, unordered), and `StayRooms` and `BaseWorker` take
their deliveries that way. `Inventory` models the row locks that make it
right to treat a front-desk transaction as one step in `StayRooms`: such a transaction
holds its reservation and its room from its checks to its commit. `StayRooms`
starts from hotels that the database's constraints allow, which `Inventory` has too (`Booked` at most one).
`Payments` adds its actions to those of `Folios`, on one state: a payment changes the
balance a check-out reads. `LiveScreens` takes from `ReadCaches` that an answer is never older
than what was announced when the request arrived, and from `Outbox` that a committed
change is announced eventually and in any order. `ChannelSync` takes its change events from
`Outbox` too, and names the loss of one among its incidents. `Handoff` takes from `BaseWorker` that an event
is tried twice and then handed to the staff, or lost with its process.

### State and actions against the code

Each definition names its lines in `PROJECT.json` ("map"). In short:

- **Outbox**. `Begin`, `Stage`, `Commit`, `Retry`, `Fail` are `writeWithEvents`;
  `Dispatch`, `Mark`, `MarkFails` are `dispatchStaged` with its mark after the
  dispatch; `RelayClaim` and `RelayDispatch` are the maintenance job, which marks
  first; `Age` is the grace period.
- **BaseWorker**. A job is a delivery of an event. `pc` names the await the job
  stands at: `Check` (processed?), `Gate` (enabled?, approval?), `Handler...`,
  `Ask`, `Mark`, `Log`, `Fallback`, the overflow branch. `running` and `queue` are
  the fields of the class; a crash loses them. A call in `MayFail` may reject;
  `CallFails` follows the code's catch blocks. A handler is a row of `Parts` transactions
  (`HandlerCommits`), as in `billing-worker/index.js:88-131` and `housekeeping-worker/index.js:139-168`; it may
  fail before, between and after them, what is committed stays, and a retry starts with the first. What a
  service does with a call that comes again is modelled with the service. `torn`, `crossed` and `taskless` record
  incidents and change nothing.
- **ApprovalQueue**. `status`, `due`, `resumed` are columns; `grant` is where a
  delivery of `approval.granted` stands between claim, resume and abandon.
- **Inventory**. A call is a transaction with its plan of locks; its reads and its
  write are separate steps, so that only held rows protect a decision. `Commit` lets the database's constraints
  refuse a write, so no room is ever given twice; `ChecksHold` says which writes are left to them.
  Deadlocks abort a victim, which is retried up to `MaxAttempts`.
- **StayRooms**. A transaction is one step; `news` are the committed events the
  workers have still to handle. `current`, `dirt` and `shared` exist only in the
  model: whether a field was last written by the newest fact about it, what the room
  really looks like, and which rooms a guest was moved into over another.
- **Notifications**. `at[w][r]` is where sender `w` stands with row `r` between its claim and the
  statement that writes the result; that statement asks for `SENDING` only, as the code
  does, so a sender may finish another's claim. `made` is the number of attempts the
  sender saw; `calls`, `accepted` and `recovered` count what happened and exist only in the model.
- **Folios**. `item` and `pay` are rows with where they stand (`at`) and where their reversal
  stands (`back`). `job[g]` is a transaction that holds the lock of a stay while it plans and
  chooses a folio (`Begin...`), and locks the folio and looks again when it commits (`CommitPosting`,
  `Retarget`, `Abort`). The night and the late fee of a settlement go through two calls of `postSpecs` in one
  transaction; the model chooses their folio once. The first call holds it when the second chooses, and both follow the
  same route, so only a folio reopened between the two could part the night from the fee.
  `deciding` holds decisions on a void between their read and their lock; a second delivery of a decision may
  overlap the first (`Delivered`), and an event of the billing worker may come again after its commit (`Handled`).
  Everything else is one transaction and one step. `quiet` exists only in the model: the stay
  whose account nobody else touched since it left.
- **Payments**. One step per operation and decision; a refund is a negative payment.
- **ChannelSync**. `sent` is `ChannelAriState`, `remote` what the channel sells. `run.at` is the await
  the recurring job stands at between the claim of the dirty days and the record. `list` and
  `reads` are the process's list of connected hotels and the reads of it under way.
  `slipped` exists only in the model: the pairs an incident may have left behind. The event of a change and the
  event of switching the actor on can be lost. An API key that cannot be opened (`sync.js:285`) ends a run as
  an error of the database does.
- **LiveScreens**. `wire` and `requests` are the two directions of one socket; `server` and `inRoom`
  its server side; a screen's record is the hook's closure (`live`, `once`, `timer`) and the query's
  entry (`data`, `stale`, `fetch`). `covered` and `missed` exist only in the model: screens whose last
  fetch began inside the room, and screens whose last refresh came to nothing.
- **Handoff**. A message is its number; `replied` says up to which one the newest message of the AI or of staff
  reaches, `conv` is the row, `memory` is `ConversationAiState`. `at[m]` follows the events of a message through the
  router to its turn, `queue` is `#queues`, a map in memory, so one process is taken to run the agents, `turn` the closure of the
  turn under way between its reads and its transactions. Events of a message come once; those of results may come again. `form` is the version a person's screen shows. `seen`, `overtaken`, `shown`, `cut`, `unheard` and
  `spokeOver` exist only in the model: which messages were taken into account, which came while an answer was
  written, when a proposal was shown or cut off, and what staff wrote that the AI has not read.
- **ReadCaches**. `generation` and `inflight` guard settings; `version` keys
  answers; both react to the event of a commit, which comes after the commit.

## 3. Runs

| Run | Instance | Shows |
|---|---|---|
| `outbox` | 2 processes, 1 write of up to 3 events, 2 attempts, batches of 2, 2 crashes, 1 failing mark | a committed event is sent unless a relay dropped it, and the refinement of `AtLeastOnce` |
| `worker` | 1 event delivered 3 times, or 1 gated event delivered and resumed, work in 2 transactions, 2 attempts, pool of 1 slot and 1 place, both overflow policies, 2 faults, 1 crash | outcomes behind records, paid repeats, the worker comes to rest |
| `approvals` | 1 gated event delivered twice, its grant delivered twice, work in 2 transactions, 2 attempts, 2 processes, 1 fault, 1 crash | work under one claimed grant only, refusals close, liveness |
| `inventory` | 2 concurrent calls, 2 reservations, 2 rooms, 2 types, 2 nights, 298 hotels to start from | the database refuses only the known writes, no lost update, deadlocks and overbooking only where they are known |
| `stay_rooms` | 2 reservations, 2 rooms, 5 steps of people, jobs and repeats | check-in never shares a room; rooms and tasks tell the truth when the newest fact was last |
| `read_cache` | 1 setting, 1 row, 2 loaders, computations and requests, 3 commits | nothing older than what was announced is served |
| `notifications` | 2 messages, 2 senders, batches of 2 on 1 lane, 2 attempts, 2 troubles | repeats only after recoveries, a true history, every message ends |
| `folios` | 2 stays, 3 folios, 1 charge of either sign, 1 payment, 4 operations of the staff | totals, closed and merged folios and voids stay in order against postings under way |
| `settlements` | 2 stays, 2 folios, 3 payments, 2 prices of the night, 2 departures, 4 operations | a night and a late fee are charged once, the settlement leaves what was counted, refunds are covered |
| `channel_sync` | 1 channel, 2 days, 2 values, 2 changes, 2 switches, 1 incident of any kind | nothing is forgotten but by an incident, the record is true, the nightly run repairs |
| `handoff` | 2 messages, 2 proposals, 2 requests, 2 acts of the staff, 1 trouble | bookings are confirmed, staff are not spoken over, results are told once, no message is left to nobody |
| `live_screens` | 2 screens of one browser, 1 change, 2 troubles, 2 subscriptions under way | what was announced is shown or on its way; cut-off screens catch up |

Why the bounds are enough for what they are asked:

- Two processes (or calls, loaders, requests) show every race the code arbitrates
  between a pair: the claims, marks, locks and generations are compared pairwise.
  A third adds a waiter to a queue, which the pool run has (three deliveries for one
  slot and one place) and the proofs cover for any number.
- In `approvals` the request and the first delivery of its grant are placed on one process, the second of each on
  the other (`InitSmall`), which is what the bus and the relay of another process do.
- In `worker` a behaviour delivers one of two events (`InitSmall`): the gated one is worked on only when it is resumed,
  which `approvals` has in full. Two transactions are the least with a "between", two attempts the least that repeat; a second fault is
  needed for a manual task that cannot be written after a failed call.
- One crash and one fault reach every await a process can die at and every catch;
  two crashes are given to the outbox because a relay can crash after a writer.
- Three commits in `read_cache` distinguish the answer before, at and after a change, twice for a
  setting, so that a loader that started two changes ago is among the cases.
- In `stay_rooms` five steps reach check-out, check-in of the next guest and his
  check-out with a cleaning in between; two rooms are needed for a move, two
  reservations to share one. A worker's steps are not bounded; an event that comes
  again counts as a step.
- In `notifications` two messages fill a batch and keep one waiting for the lane while the other is
  sent; two troubles let a slow send be recovered and its late result meet the second
  sender's attempt, and still leave one for a crash.
- In `folios` three folios are a source, a target and the stay's own; four operations suffice for a
  folio that is chosen, merged away and reopened while a posting waits, for a void that is
  asked, moved and granted. In `settlements` two departures are needed for a check-out that is taken
  back and repeated with the events of the first still under way, two prices for an
  adjustment of a posted night.
- In `channel_sync` two days make the dirty window an interval whose ends differ, two changes a change
  and the way back, two switches a pause of the actor or the channel and its end. One incident at any
  await is what the property excuses pair by pair.
- In `handoff` two messages are an offer's question and its yes, or a message and one that overtakes it; two
  acts of the staff are taking over and giving back; one trouble is a failing turn, a repeated result or
  a crash. All properties were also checked once with two troubles (3.4 million states), the safety properties with three
  messages (8.4 million).
- In `live_screens` two screens share the subscription, two troubles break the connection and then
  break it again or fail what was to repair it. `NothingIsMissed` was also checked with two changes,
  whose announcements may come in either order (2.1 million states); the run keeps to one for the sake of
  its liveness property. `MaxRequests` bounds the socket's queue, not the code.
- Bounds are conjuncts of guards (`MaxFaults`, `MaxCrashes`, `MaxSteps`,
  `MaxAttempts`, `MaxGeneration`, `MaxOps`, `MaxTroubles`, `MaxChanges`, `MaxSwitches`, ...), named where they are declared. Most runs stop at
  them, hence `CHECK_DEADLOCK FALSE`; deadlock among database calls is a property
  of `Inventory`, not a stop of the model.

### Fairness

- `Outbox`: weak fairness of a write's steps, of ageing, and of the relay per
  process. A started transaction ends, and the maintenance timer runs in every
  live process. Nothing is assumed of a process after its last crash.
- `BaseWorker`: while a job is at work some job goes on (weak fairness of the steps of all jobs together): awaits
  are answered and retries are bounded. Nothing is assumed about deliveries.
- `ApprovalQueue`: additionally the expiry job, which runs every minute, and
  the delivery of a committed grant, which `Outbox` gives. `GrantedIsDone` asks for
  an outcome only while no process died and no call failed.
- `Notifications`: weak fairness of every sender's steps (its job runs in every live process and a
  provider answers or times out), of time (`TimePasses`, `GrowsStale`) and of the recovery
  job. Troubles are bounded: quiet hours end and calls stop being lost.
- `ChannelSync`: weak fairness of the actor's handlers (the bus delivers), of the recurring job,
  of the end of pauses and of nights. Nothing is assumed of managers. `EverythingArrives` is stated for
  behaviours in which changes, switches and incidents come to an end.
- `Handoff`: weak fairness of time and of the job for stalled conversations, which runs every minute.
  Nothing is assumed of the agents, so `EveryMessageIsSeen` holds when all of their work is lost.
- `LiveScreens`: weak fairness of announcements, of both ends of the socket, of answers, timers and
  polls. socket.io reconnects without end; polling stops in a hidden window, which is left out.
- `Inventory`, `StayRooms`, `ReadCaches`, `Folios` and `Payments` state no liveness: whether people act and
  a delayed event ever comes is not theirs to promise.

### Disagreements between code and documentation

No run of the project ends in a counterexample: these were met while modelling. Where a property excuses the behaviour,
taking the exception out of it makes TLC show a trace.

- A guest in house can be moved into the room of a guest who leaves today and has not left
  (`rooms/service.js:1798` asks for the nights from today only; check-in at `front-desk/service.js:362` and the revert of a
  check-out look for a guest inside). The later check-out then marks the room vacant with the other guest in it.
  The migration `20260910090000_room_inventory` says that one physical room cannot be given to two guests.
  `OnlyMovesShare` excuses it.
- A turn saves its proposal before its reply (`concierge-agent/index.js:212`). If the reply is refused or fails, the guest never
  saw the proposal, but a later yes to something else is taken for it, against `tools.js:12`.
  `RequestsAreConfirmed` counts it as seen.
- A message that comes while the answer to an earlier one is written is left without an answer: its own
  turn finds an answer after it (`index.js:107`), and the wait is over for the job that is to cover "every remaining
  case" (`concierge/jobs.js:12`). `EveryMessageIsSeen` excludes it.
- `requestReservation` does not ask whose side the conversation is on: a turn may book after staff took over. `appendAiReply`
  asks for the mode at that moment only: if staff take over, write and give back during a turn, the AI answers
  without having read them. `StaffAreNotSpokenOver` excuses the second.
- If the guest has been told that the staff will get in touch and the hand-over after it fails, the retry no longer finds the
  request and nobody is told (`index.js:284-295`). A request older than half an hour is replaced, and its later
  result is not told at all (`concierge/service.js:457`).
- The relay marks a batch published before it dispatches it (`outbox.js:40`); a crash in between
  loses the batch, against `maintenance-jobs.js:9`. `CommittedIsSentUnlessDropped` excuses exactly these events.
- If the manual task of a failed job cannot be written and the processed mark can
  (`base-worker.js:297-299`), nobody does the work. `ProcessedIsHandled` excuses it.
- A grant claimed by a process that dies is never resumed (`approvals/service.js:630` against `:617`).
- A room is checked for reservations before its lock is held, and can be deleted under one
  (`rooms/service.js:608`, `:1560`).
- A changed or reinstated reservation that keeps its room is checked before the room's row is held. An out-of-service
  record, or, if the room is of another type, another guest, can take it in between; the call then ends with the
  database's error, which the check before the write is to prevent (`reservations/service.js:1034`).
  `ChecksHold` excuses it.
- An inspection is applied to the room as it is now, however long ago the cleaning was
  (`housekeeping-worker/index.js:176`).
- A sender slower than five minutes is taken for dead: its message is recovered and may be sent
  twice, and its late result ends the second sender's claim (`dispatcher.js:90`). A manager's test
  message that was recovered goes out as an ordinary message.
- A refund may be requested while the void of its payment waits for a decision; if both are
  granted, the refund is left without the money it gives back, which `payments/service.js:791` wants to
  exclude (`refundableAmount` does not take pending voids off, `applyVoid` does not ask again).
- A settlement event handled after the check-out was taken back and made again without a late fee
  posts the fee of the first check-out. `reopenStayOnCheckOutRevert` does not look whether the stay is
  in house again.
- `setRoutes` checks the target folio without its lock: the route may name a folio that was merged
  or closed meanwhile; the next posting falls back to the stay's own folio.
- The grant of a void is dropped, with an alert, if a merge moved the item between the
  read and the lock.
- A night whose item was voided between the plan and the lock is adjusted instead of charged anew
  (`folios/rules.js:98`, `posting.js:338`).
- `channel-manager/sync.js:37` says no change is lost. A call that times out although it was carried out
  leaves the old value in the record: if the hotel goes back to that value before the retry, the
  retry finds no difference and the channel keeps the other until the nightly full run. The same holds
  for a crash or a database error after the claim, of which `sync.js:201` says the channel is taken up again in the next
  round, and for an event dropped because the process had not read its list again (`service.js:523`).
- A change announced between a screen's first read and its first subscription is not
  asked for, although `useLiveChannel.js:113` takes the first read for fresh; the same holds for a screen
  opened again within the 30 seconds of `staleTime`.
- A refresh that meets the first fetch of its query is swallowed by it, and restarts of a slow
  fetch can put the answer off as long as messages keep coming faster than answers (`useLiveChannel.js:92`).
- A screen opened after the server failed to find the hotel reads `socket.connected`, calls itself live,
  is in no room and does not poll, against `realtime.js:437`. With more than ten channels retained, a reconnect
  subscribes to the first ten only (`realtime.js:390`). A second backend process announces to its own sockets only.
- Overlapping deliveries of an ungated event both do the work (`base-worker.js:232`
  checks, then acts), which `RepeatsArePaidFor` counts (`crossed`); a failing activity entry after a successful handler opens a
  manual task for work that was done (`:270`).
- A job of an actor that is no longer registered is lost if its manual task cannot be
  written (`approvals/subscribers.js:43`).
- `server.js:129` says the remaining background jobs are collected at startup, but
  the queue is in memory.
- Unassigning a room of another type, or a change of the party only, gives demand
  back to a type without a check; `createReservation` with a room of another type
  locks types out of their order, so that two such calls may deadlock and are retried.
- A check-in event that comes after the guest was moved leaves the old room
  "occupied", and no screen lets the staff set a room's occupancy by hand.
- A reverted check-out that is handled late cancels whichever checkout cleaning is open then,
  the follow-up of a failed inspection too.

## 4. Proofs

TLAPS checks the theorems below for every value of the constants allowed by the
modules' assumptions (finite sets where cardinalities count, bounds in `Nat`,
in `Inventory` an order of rows, and hotels
to start from that the database could hold: records and stays refer to rooms that are there).

| Module | Theorems |
|---|---|
| `DeliveryProofs` | `TypeCorrect`, `OutboxInvariant`, `CommittedOnly`, `NoDoubleDispatch`, `MarkedIsSent`, `OutboxImplementsPromise`; `SyncTypeCorrect`, `SyncInvariant`, `NoChangeIsForgotten`, `TheRecordIsTrue` |
| `WorkerProofs` | `WorkerTypeCorrect`, `PoolIsExact`, `RecordsAreBacked`, `RepeatsArePaid`; `ApprovalTypeCorrect`, `GrantWorksOnce`, `RefusalCloses`, `DecisionsAreFinal` |
| `InventoryProofs` | `InventoryTypeCorrect`, `ChecksDecide`, `RequestsOpenOnce`, `UpdatesAreNotLost`, `LockOrderSuffices`, `OverbookingNeedsLeave`, `UnlockedLossesAreKnown` |
| `StayRoomsProofs` | `DayInvariant`, `StayTypeCorrect`, `CheckInNeverShares`, `OccupancyIsRight`, `CleanRoomsAreClean`, `DeparturesAreCleaned` |
| `NotificationProofs` | `QueueTyping`, `SentOncePerRecovery`, `BoundedAttempts`, `TrueHistory`, `EndsAreFinal`, `ToldFailures` |
| `FolioProofs` | `Typing`, `StoredTotals`, `ClosedStaysSettled`, `MergedStaysEmpty`, `VoidsStayTogether`, `LateFeeIsOnce`, `NightIsChargedOnce`, `GivenBackWasTaken`, `LeavesAsCounted` |
| `HandoffProofs` | `ConversationTyping`, `RequestsWereConfirmed`, `StaffHaveTheWord`, `ToldOnce` |
| `FreshnessProofs` | `CachesTypeCorrect`, `SettingsAreFresh`, `KeptAnswersAreFresh`, `WhoAsksSeesTheChange`; `ScreensTypeCorrect`, `ScreensMissNothing` |

The arguments:

- **Outbox**. The invariant ties the state of a write to its staged events and a dispatch
  in progress to the path that owns it; an event can be in the hands of one writer
  and one relay at most. The refinement maps the rows to the abstract set of
  committed and sent events; every other step is a stutter.
- **Worker**. `PInv` adds to the pool's accounts that only pooled jobs hold a slot or wait.
  It is inductive step by step: cardinalities of the slots change by one with the
  counter. `RecordsAreBacked` needs that an attempt has committed every part up to the one it has reached.
  `RepeatsArePaid` needs, per event and part, the number of jobs that still owe an outcome: what was committed or
  handed out and what is owed together never exceed the incidents by more than one, and by none once nobody is at
  work and no record is there (`Account`). A new delivery finds either somebody at work, and is an incident, or a
  settled account.
- **Approvals**. The invariants carry a claim forward: a gated effect comes from the
  one delivery that holds the claim, and a claim exists for granted requests only. While that delivery works, a
  part is committed once more than its broken attempts only if the attempt at hand has reached it (`Reached`).
- **Inventory**. `IInv` says of every call that its locks are held by it, were taken in
  order, and that what it has read of a locked row is what the row still holds. `LockOrderSuffices` is
  the classical argument: a cycle of waiting calls would have a least-ranked row, by
  well-foundedness of the order of rows.
- **Vacancy**. `FInv`, inductive beside `IInv` and `SInv`, says that a room a call has checked is still free for it
  (`RoomFree`). Nobody else gives a guest to a room, or changes a stay in it, without holding the room's row
  (`GuestsStay`), and the room cannot take on the type that was read unless that type's row is let go. So a write that
  the database refuses is a known one (`ChecksDecide`).
- **Overbooking**. Two more invariants, inductive beside `IInv`. `SInv`: a call that is past its locks
  holds exactly the types its operation names (`AsksSound`), which includes the type of its room as it was *first*
  read, and what it has seen of held rows is what they hold (`DecisionSound`). `MInv`: unless some
  commit has lost a type behind its row, what each check left for its call is still left (`Margin`: one per
  reservation to be opened, one for a guest to be moved, reinstated or extended, one for a room to be blocked or
  withdrawn), because a type whose row is held only gains. The counts are never summed: a commit of one
  stay or one room moves the calendar by at most one (`StayChange`, `RoomChange`), by subsets
  of free rooms and of waiting stays; only opening a group needs the size of a union. So a commit that loses a type
  it holds finds one left, or may overbook; one that loses a type it does not hold is one of the known ones (`LossSound`).
- **Stay and rooms**. The properties speak of what has been written; the invariant (`DayInv`) adds what is
  still to be written: an event under way that is the newest fact about a field will write what is true of
  its room (`NewsTrue`). A step that changes the truth about a field takes "newest" from the events under
  way about it (`AgedTrue`), so whichever of them comes last and late, it cannot be believed.
- **Caches**. What a loader or a computation has read covers every change announced
  before it started, unless the generation or the version has moved on, in which case nothing
  is kept.
- **Channel**. `SyncInv` says that every pair of a room type and a day is safe: in step, or still owed by
  somebody (a pending window, an event on its way, a retry, a full run to come), or in the hands of the run
  under way. The strengthening describes the run: its plan covers the days it claimed (`RunSound`), what has
  gone is what the channel has (`GoneSound`), the record is true but for what has gone and is not
  recorded yet (`RecordSound`), and a plan overtaken by a change is made good by whatever overtook it
  (`PlanSound`). Without the last two a save, which clears what is due and the window, would forget changes.
- **Screens**. A screen counts as covered only if its server end is in the room and the screen is open, and
  only open screens have timers (`LiveInv`). So an announcement always puts "changed" on the wire of
  a covered screen, and what is behind there has an answer, a timer or a message on the way.
- **Notifications**. The invariant counts, per message, the senders that hold it: acceptances and
  calls so far, plus one for every sender that may still add one, are bounded by the recoveries. A claim
  moves a row from "free" to one hand, a recovery frees it and pays for the next hand. That late results
  of former holders cannot add a send follows because they only write.
- **Folios**. The invariant adds to the properties where rows may stand (`Placed`), which rows a decision is
  still to come for, and what a posting that holds the lock of its stay has planned (`JobGood`): its
  plan is still right when it commits, because whatever changes a night or a fee
  needs that lock or voids the row. Sums over sets of rows are handled by lemmas about adding, removing and
  changing one row; that a sum over finitely many equal parts is what it should be is proved by a
  minimal counterexample, since induction is not available.
- **Settlement**. A second invariant (`CountInv`), inductive beside the first, follows one stay. Until it is
  checked out it is in house, without events or a late fee (`Fresh`); after a first check-out that nothing
  interferes with, that check-out's event is the only one about it (`Left`). While the event waits, the balance
  of the stay's own folios plus what is owing (the missing part of the night and the late fee, nothing if
  charges go to another stay's folio) is what the check-out counted; afterwards the balance alone is
  (`Counted`). A posting under way has planned exactly what is missing and goes where it belongs
  (`OwnPosting`), so its commit moves its amount from what is owing to the balance. Which of the night run
  and the settlement posts the night does not matter, and the theorem needs no order of the two.
- **Handoff**. The code compares times; the invariant says why that is enough. What a turn works with was made by
  itself, after the message it answers, or was shown (or cut off) before that message (`OffersKnown`): the queue
  runs one turn at a time and a turn starts only if nothing follows the newest message, so a kept proposal
  is older than the message that may confirm it. An offer that was requested is used by nobody again
  (`RequestsSound`), and the open request is an untold one, closed in the step that tells it.

Only model-checked: liveness under fairness (`CommittedIsSentUnlessDropped`, `JobsEnd`,
`GrantedIsDone`, `DueIsSettled`, `EveryMessageEnds`, `EveryMessageIsSeen`, `EverythingArrives`, `EventuallyCurrent`). Proved but not run are the type invariants, `PoolIsExact`, `NoDoubleDispatch`, `MarkedIsSent`,
`DecisionsAreFinal`, `SettingsAreFresh`, `KeptAnswersAreFresh`, `BoundedAttempts`, `EndsAreFinal` and `ToldFailures`: the theorem says more
than a run would. In every proof module the definitions that TLC checks are the ones the theorems name.

## 5. Not modelled

Listed in `PROJECT.json` with reasons. In short: calculations and documents
(payroll, accounting, budgets, prices), input and output (channels' protocols,
PDF, files, mail), screens, permissions, and the modules still planned below.
Within modelled components: early check-in and cancellation fees, taxes and currencies, versions
of forms where a lock already serialises, nested read caches, time-to-live caches of reports, `accepts()`
filters of workers, a second process that runs the agents, a second delivery of a message's own events, requests for approval that a service opens without an event, bookings that
come from sales channels, the activity stream and the bell.

## 6. Plan

What would come next, in this order:

1. Bookings of sales channels (`channel-manager/bookings`): stored before they are acknowledged, applied in
   the order of their revisions, each through `createReservation` of `Inventory`.
2. An abstract cache ("an answer is one the database had after the request's last
   announced change") that `ReadCaches` implements and `LiveScreens` uses.
3. Invoices drawn from closed folios, their numbers and their cancellation.
