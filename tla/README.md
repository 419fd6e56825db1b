# TrackFlow in TLA+

A verification project for TrackFlow, a delivery tracking backend of five Go
services (api-gateway, order-service, tracking-service, carrier-sync-service,
notification-service) over one Postgres database and one redis. The modules
here model the services' own logic: the transactions on an order, idempotent
creation, the two caches, the dispatch of notifications and their deduplication,
the carrier's push loop and its backoff, and the gateway. TLC checks them on small
instances; TLAPS proves every safety property and refinement that the passing runs
check, for every value of the constants, and bounds on the work of each process that
the liveness properties rest on.

Run everything from this directory: `tlc -config MCOrderStore.cfg MCOrderStore.tla`,
`tlapm OrderStoreProofs.tla`, and so on. `PROJECT.json` lists the runs, the
mutants that show each property can fail, the source lines behind each
definition, the hazards and the theorems.

## 1. Inventory

Paths are under `src/services/`.

| Component | State | Operations | Hard part |
|---|---|---|---|
| status state machine (`tracking-service/internal/service/state_machine.go`) | none | `ValidateStatusTransition`, `NormalizeStatus`, `NormalizeStatusSource` | only one of the two writing services uses it |
| order transactions (`order-service/.../order_repository.go`, `tracking-service/.../tracking_repository.go`) | tables `orders`, `assignments`, `order_status_history` | `AssignOrder`, `UpdateOrderStatus` | two services write the same rows; row locks; rollback on every early return; lost COMMIT answers; `NOW()` |
| order creation (`order-service/.../service.go`, `order_repository.go`) | tables `orders`, `addresses`, unique index on `idempotency_key` | `CreateOrder` | concurrent creations under one key, conflict and second lookup |
| order cache, timeline cache (redis) | `order:<id>`, `timeline:<id>` with TTL | get, set, delete by two services | invalidation races, failed deletes, spelling of ids |
| reads (`ListOrders`, `GetOrderByID`, `GetOrderTimeline`) | none | | through the caches |
| notification dispatch (`tracking-service/internal/notification/http_client.go`) | none | two POSTs after each status change | after the commit, under the rest of the handler's deadline |
| notification-service (`internal/service/service.go`) | map of reservations under a mutex | `Send` | reserve, send without the mutex, release on failure; expiry; restart |
| carrier-sync-service (`worker`, `service`, `client`, `mapping`) | last known batch, mock cursor | worker cycle, `POST /sync/run` | retries of non-idempotent pushes, a second consumer of the stream |
| api-gateway (`internal/gateway`) | none | validation, forwarding, error mapping | two layers of validation and of error codes |
| metrics, request ids, `cmd/server/main.go` | counters | | none that a property is about |

Interactions:

- order-service and tracking-service share the database: `AssignOrder` and
  `UpdateOrderStatus` lock and write the same `orders` row and both append to
  `order_status_history`.
- They share redis: the order-service fills `order:<id>`, the tracking-service
  deletes it; the tracking-service alone fills and deletes the timeline.
- carrier-sync-service pushes updates to the tracking-service over HTTP.
- tracking-service posts two notifications (email, telegram) to the
  notification-service after each committed change.
- api-gateway forwards client requests to order-service and tracking-service.

What makes each part correct is stated by the properties of section 4; the
hazards behind them are listed, line by line, in `PROJECT.json`.

## 2. Modules and how they correspond to the code

**StatusMachine** holds the statuses, sources and `AllowedTransitions` of
`state_machine.go`. Strings are the normalised values.

**OrderLifecycle** is the abstract specification of an order: created once,
status along the transition map, a courier attached at most once and in the step
from created to assigned. It is what clients may rely on.

**OrderStore** is the detailed specification. A request is a process with a
program counter over the SQL statements of its transaction:
`BeginTx`, `SelectForUpdate` (waits for `lock[o]`, then reads the committed row
and runs the status check), `CheckCourier`, `InsertAssignment`, `UpdateRow`,
`InsertHistory`, `Commit`, and `Rollback` for each early return. Writes are kept
in `wrote[p]` and reach `row`, `assignment`, `history` at the commit, as at READ
COMMITTED. `Fail` is any failing statement, broken connection or passed
deadline; `CommitAnswerLost` is a COMMIT that took effect without its answer
arriving. `began[p]` is the transaction's `NOW()`. It EXTENDS StatusMachine and
INSTANCEs OrderLifecycle.

**IdempotentCreation** is the abstract specification of `CreateOrder` as a client
sees it: a request creates the one order under its key, finds it, or fails (and may
have created it all the same), in one step.

**OrderCreation** models `CreateOrder` of service and repository: lookup by key,
two addresses, the insert into the unique index (waits for an open transaction
that has inserted the key, fails on a committed one), commit, the second lookup
after a conflict, and `cacheOrder`. It INSTANCEs IdempotentCreation.

**OrderCaches** models every redis and Postgres call of `GetOrderByID`,
`GetOrderTimeline`, a replayed `CreateOrder`, `AssignOrder` and
`UpdateOrderStatus` on one order. The order's state is a version number; a
status change is one step, which OrderStore justifies. Cache keys are spellings
of the id: `uuidPattern` takes both cases, Postgres treats them alike, redis
does not. The history variable `crossing` records which fills were under way
when an entry was deleted.

**NotificationService** is the abstract notification-service: a call enters as a
duplicate or reserves its key, holds it while the event is sent, keeps it once the
provider took the event and gives it back if the provider failed; expired
reservations of calls no longer at work go when a call enters; a restart loses all.
It has no time. StatusDispatch is composed with its actions, NotificationDedup
implements it.

**NotificationDedup** models `Send`: `Begin` reads the time, `Reserve` is
`reserveDedupKey` with its cleanup (one critical section), `SendOk`/`SendFails`
the provider's outcome without the mutex, `Release` the deferred release.
`Restart` empties the map. To NotificationService (`places`, `reservedKeys`) a call at
the mutex is still on its way, and one whose sender failed is being sent until its key
is given back.

**StatusDispatch** models the handler of `UpdateOrderStatus` from its transaction
to its answer, beside the notification-service: `Commit`, `Refuse` or
`CommitFails` (whose answer may be what is lost), `Invalidate` for the two cache
deletions, then `Send`, and one of `Hear`, `TimeUp`, `Broken` for each of the two
channels of `NotifyStatusChanged`. Seconds pass in `Tick`: `age[u]` is that of the
handler, `waited[u]` that of the current request, and a request ends with the
smaller of what is left of both. `Send` is also NotificationService's `Ask`, and
`Reserve`, `ProviderTakes`, `ProviderFails` and `Restart` are its `Enter`, `Take`,
`Fail` and `Restart` with the handlers standing still; a request may reach it
after it was given up. `Crash` cuts the handlers of the tracking-service.
`AssignOrder` is the order-service's silent step of the same order.

**CarrierSync** models the worker's cycle (`Fetch`, `Store`, `Push`, and the four ends of
an attempt: `Confirmed` for a 2xx, `Refused` for a 409, `ErrorAnswer` for a 500,
`GiveUp` for no answer), the manual run and the restart. Requests sent stay in `net`
until the tracking-service handles them, perhaps after the worker has given them up or
died; the tracking-service is its effect on the order, guarded by
`ValidateStatusTransition`, and a 500 may come with the effect, because a COMMIT that
took effect can return an error. A delay between two attempts is any time.

**RetryBackoff** models `withRetry` with `backoffDelay` on integers of a fixed
width: `CallFails` begins the delay with the corrected base, `Double` is a turn of
the loop, `Sleep` adds the jitter and sleeps, `Interrupted` is the end of the
worker's context during the sleep.

**Gateway** models a client's call through the api-gateway: `Refuse` or
`Forward` by the checks of `validation.go`, the service's handling
(`HandleRefused`, `HandleApplied`, `HandleRead`, `HandleFails`), and what becomes
of the answer (`Deliver`, `TimeOut`, `Unavailable`). A timed out or broken call
may still be handled afterwards. It EXTENDS OrderLifecycle: the services' effect
on an order is one step there, which OrderStore implements, and `Others` is any
step of it by anybody else. A request has one flaw or none; `GatewayChecks`,
`ServiceChecks` and `ColumnFlaws` say which layer refuses it, each translated
from the code of that layer. The services' answers carry a message and the
gateway finds the code in it (`BusinessCode`).

The `MC*` modules extend these with symmetry and definitions for constants; the
`*Proofs` modules hold the theorems.

## 3. Bounds

Each bound is a CONSTANT and appears in a guard.

| Run | Instance | Why it is enough |
|---|---|---|
| `order_store` | 3 requests (any mix of assign and update), 1 order, 2 couriers of which 1 active, clock 0..1 | two transactions race while a third is queued on the lock; orders do not interact; the clock tells "began before" from "began after" |
| `order_store_live` | 3 requests, fairness | a waiter behind a waiter |
| `order_creation` | 4 requests, 2 keys, fairness | winner, loser, a late repeat, and an unrelated key |
| `order_caches` | 1 reader, 2 writers, 2 spellings, TTLs 2 and 1, deadline 1, clock 0..3 | an entry can be filled, go stale and expire within the run; two writers give an update after an assignment and an update after an update |
| `notification_dedup` | 4 calls, 2 keys, window 2, call time 1, clock 0..4, 1 restart | a window passes twice; first, duplicate, failed and repeated call of one key |
| `carrier_sync` | batch 2, manual batch 1, 3 updates, 2 attempts, 1 order, 1 restart, fairness | a batch of the worker before or after one of a manual run, both in hand at once; two changes of one order in one batch, late requests of every attempt, every pair of ends of two attempts, the carrier starting again while requests of the last run are under way, whole cycles without any answer |
| `status_dispatch` | 2 updates of 1 order that ask for the same status, or for one and the next; deadline 3, client's timeout 2 (scaled down from 5 and 3 seconds), fairness | one send can use up its own timeout and two together the deadline, as in the code; two handlers can overlap or follow one another |
| `retry_backoff` | durations -16..15, every base and cap, 4 attempts, jitter 0, 20 and 100 per cent | three delays: below the cap, at it, and past where a doubled duration overflows |
| `gateway` | 2 calls of any route and flaw, 1 order, 1 active and 1 inactive courier, any number of other clients' steps | a call and its repeat, or two that compete; what else happens to the order is free |

`CHECK_DEADLOCK FALSE` is set where a finite set of requests ends and nothing is
left to do. In the `carrier_sync` run the check for deadlock is on.

Three runs have `expect: violation`; see section 6.

## 4. What the runs show

OrderStore: `HistoryIsLifecyclePath` (the rows written by two code bases form a
walk of one transition map), `LastStatusAtMatchesHistory`,
`AssignmentMatchesHistory`, `AnswerMatchesStore` (ok, refusal and error tell the
truth, nothing is applied twice), `AssignmentConflictUnreachable` (the unique
constraint never decides), `ImplementsLifecycle` (refinement), and
`EveryRequestEnds` (no request waits for ever for a lock).

OrderCreation: `AnswersAgree`, `RelookupFinds` (the error path of the second lookup is
unreachable without a delete), `NoOrphanAddresses`, `CachedAreCommitted`,
`ImplementsIdempotentCreation` (refinement: a request that overlaps others, meets a
conflict or loses its COMMIT's answer still creates, finds or fails in one step, and
the order under a key is never replaced), `EveryCreateEnds`.

OrderCaches: `BoundedStaleness` (nothing served was out of date for more than one
TTL and one deadline, although assignments never delete the timeline and failed
deletes are only logged) and `StaleOnlyByCrossing` (after a delete the entry can
only become older again through a fill that was under way).

NotificationDedup: `AtMostOncePerWindow`, `NoStuckReservation`,
`ReleasesOwnReservation`.

StatusDispatch: `ProviderTakesCommittedOnce` (the provider is told only of
committed changes and of each once per channel, however often reservations are
lost; the transition map is what this rests on, not the deduplication),
`TakenOrLogged` (a change answered as a success was taken on both channels or is
in the log as failed), `OvertakenOnlyWhenGivenUp` (changes reach the provider in
order unless their handlers overlapped or a request had been given up),
`SlowEmailSparesTelegram` (a silent email channel leaves telegram some time),
`HandlersEnd`. No property says that a committed change is notified: a crash after
the commit loses it, there is no outbox.

CarrierSync: `AppliedAtMostOnce` (pushes carry no key; the transition map makes
them idempotent), `CountsTellEffect` (synced means applied; failed may mean applied too, as a COMMIT
can take effect and be answered 500 or too late, and the retry's 409 does not tell;
but an update of which the worker got nothing but refusals changed nothing),
`UpdatesAccountedFor` (updates taken by a manual run are pushed by nobody, and that
is the only way to lose one; the worker and a manual run hold updates at once),
`EveryCycleEnds`.

RetryBackoff: `BackoffDoublesToCap` (the loop computes the smaller of base doubled
and the cap, one unit early for an odd cap, without overflow), `SleepsAreBounded`
(how long an operation can sleep in all, and that no retry follows at once).

Gateway: `AcceptedIsValid` (what the gateway lets through no service refuses as
invalid), `AnswerTellsEffect` (4xx means nothing was changed and nothing will
be, a success of a writing route that it was; only 5xx leaves it open),
`ConflictIsFinal` (an assignment refused with 409 can never succeed later),
`RefusalsKeepTheirCode` (the codes inferred from another service's wording tell
every refusal apart).

### Fairness

Liveness is checked under weak fairness of a process's own next call
(`Advance`): a goroutine that can run does run, and Postgres grants a free row
lock or answers a statement. No fairness is assumed of clients, of failures, of
lost answers or of the clock. In CarrierSync `Advance` includes `GiveUp`,
because every attempt runs under a context with a timeout; no answer ever has to
arrive. In StatusDispatch the fairness is that of "a second passes or some handler
goes on": a handler stands still only while it waits, and what it waits for ends
with the time limits; nothing is assumed of the notification-service or the net.
`EveryRequestEnds` and `EveryCreateEnds` do not use the failure actions: they hold
without the handlers' deadlines.

## 5. What is proved

All proofs are checked by TLAPS without unproved steps.

**OrderStoreProofs** (any number of requests, orders, couriers; assumptions
`CouriersAssumption`, `ConstantsAssumption`). None of the properties is
inductive by itself. `StoreInv` adds: what a request has written so far as a
function of its program counter (`WritesInv`), that a request between its SELECT
and its end holds the row's lock and that the status it checked is still there
(`LockInv`), and that the committed tables of one order agree (`TableInv`). The
step that matters is a commit: the lock shows that the checked status is the
replaced one, so the history grows by one allowed transition. The answers need
one more invariant, `AnswerInv`. Results: `TypeCorrect`, `HistoryCorrect`,
`StampCorrect`, `AssignmentCorrect`, `ConflictUnreachable`, `AnswersCorrect`,
and `StoreImplementsLifecycle` (every step is a step of OrderLifecycle or a
stutter). `RequestsBounded` is what `EveryRequestEnds` rests on: `HolderInv` says that
whoever holds a row's lock is past its SELECT, so nobody waits for one that waits
itself (`NobodyWaitsForWaiting`), and each step of a request brings it nearer to its
end, at most eight away, while nobody else's step takes it back (`NearerToEnd`).

**OrderCreationProofs** (any number of requests and keys; `NoneAssumption`).
`CreationInv` adds that an open index entry belongs to the one transaction about
to commit, what each transaction has written, and that the order under a key
belongs to a committed request with that key. Results: `CreationTyped`, `AgreementCorrect`,
`KeyCorrect` (an action property, `OrderNeverReplaced`), `RelookupCorrect`,
`AddressesCorrect`, `CachingCorrect`. `CreationKeepsPromise` is the refinement of
IdempotentCreation: the commit is the step that creates, a lookup that succeeds the one
that finds, everything else a stutter or a failure; it needs that a request which has
not decided has not answered (`UndecidedIsUnanswered`). `CreatesBounded` is what
`EveryCreateEnds` rests on: who waits for an entry of the index waits for a transaction
that is about to commit, and a request takes at most seven steps.

**NotificationDedupProofs** (any number of calls, keys, restarts;
`TimesAssumption`, `WindowAssumption`). `DedupInv` adds how old a running call
can be, that the reservation of a sent call stays for a window, and that a call
only comes to work a window after the one that was sent. The assumption that a
call runs for less than the window is used exactly where a cleanup could drop
the reservation of a call still at work; the code does not enforce it (the
window is configurable), it holds for the default of 24 hours and the handler's
three seconds. Results: `DedupTyped`, `ReservationCorrect`, `RetryCorrect`, `DedupCorrect`,
and `DedupImplementsService`, the refinement of NotificationService. Its one hard step is
`Reserve`, whose cleanup uses a time read before the mutex was taken: a reservation it
drops is a window old, and calls at work are younger than that (`RunningIsYoung`,
`ReleasesOwnReservation`).

**GatewayProofs** (any number of calls, orders, couriers;
`GatewayAssumption`). `CallInv` adds what is known of a call at each place
(`PlaceInv`), what an outcome says of the order at any later time
(`OutcomeInv`, which needs that orders only move onward under everybody's
steps), and where an answer can come from (`AnswerInv`). Results: `GatewayTyped`,
`ValidationAgrees`, `AnswersAreHonest`, `ConflictsAreFinal`,
`CodesTellRefusalsApart`. `GatewayKeepsLifecycle`: the module's orders behave as
OrderLifecycle says, calls handled after the gateway's timeout included.
`ChecksSuffice`: a request that passes the services' checks finds the order as its
change needs it (`ChecksAreComplete`), because an order still open for assignment has
no courier (`OpenIsUnassigned`); so the model's services never get stuck between a
check and its effect, and an assignment's insert never meets another one.

**OrderCachesProofs** (any number of requests and spellings, any TTLs and
deadline; `TimesAssumption`). `FillInv` says that what a request is about to cache
was current when the request began or later; with the deadline that bounds the
age of every entry (`EntryInv`) and of every value served. `CrossInv` is the
induction behind `StaleOnlyByCrossing`: a fill older than a deletion was under way
when the entry was deleted. Results: `CachesTyped`, `CachesBounded`,
`CachesCrossing`.

**CarrierSyncProofs** (any stream of updates, batch, attempts and restarts;
`CountsAssumption`). `OrderInv`: the status of an order is at or past every change
that was applied to it, which makes pushes idempotent. `PartsInv` and `ShownInv`:
what was handed out is split among the counts, the batch and the manual runs.
`RequestInv`: a request belongs to an update of its own run, no request is handled
twice, and (`Traced`) as long as its update is not counted as synced the worker still
waits for it or is unsure of the update. Results: `CarrierTyped`, `PushesCorrect`,
`CountsCorrect`, `UpdatesCorrect`, and `MappingIsUnambiguous` (the CHOOSE of
`MapExternalStatus` has one candidate). `CyclesBounded` is what `EveryCycleEnds` rests
on: `Left`, the steps that a cycle may still take, begins at no more than
1 + RetryMaxAttempts * (1 + 2 * BatchSize), falls with each step of the worker, and is
not changed by the carrier, the tracking-service, its clients or a manual run.

**StatusDispatchProofs** (any number of orders and updates, any positive time
limits; `DispatchAssumption`). `OrderInv`, by the ranks of the statuses: no two
committed updates of an order asked for the same status. So no two requests share
a key (`ReservedInv`): as long as nobody else uses the notification-service, the
dispatch never meets a duplicate. `SentInv`, `TakenInv`, `HeardInv` and `PastInv`
follow a notification from the commit to the provider and back; `TimeInv` adds up
the time before telegram's turn. Results: `DispatchTyped`, `DispatchOnce`,
`DispatchComplete`, `DispatchOvertaking`, `DispatchSparesTelegram`.
`DispatchUsesService`: the handlers, however they die or give up, are clients of
NotificationService like any other; as the module's steps of the service are those of
NotificationService with nothing added to their guards, the results hold of every
implementation of it, `Send` among them (`DedupImplementsService`). `HandlersBounded`
is what `HandlersEnd` rests on: a handler takes at most Deadline + 6 steps and seconds,
and only its own steps and the clock count.

**RetryBackoffProofs** (any width, base, cap, number of attempts and jitter;
`BackoffAssumption`). `DelayInv`: the delay lies between base and cap, for which
the test against half the cap before the doubling is needed; `SleepInv` adds up.
Results: `BackoffTyped`, `BackoffBounded` and `BackoffDoubles`. The last one speaks of
powers of two, which is induction over numbers: `PowersExist` and `PowersAgree` show,
by the least counterexample (`LeastNumber`, from the well-foundedness of < on Nat),
that the recursive function `PowerOfTwo` is what its definition says, and `DoublingInv`
ties the delay in the loop to the power reached so far.

Only model-checked: the four liveness properties `EveryRequestEnds`,
`EveryCreateEnds`, `EveryCycleEnds` and `HandlersEnd`. Fairness and ENABLED are outside
the prover's reach. What is proved of them is the part without fairness: each process
has a finite budget of steps that only falls, and nobody waits for one that waits. What
TLC adds is that a process with steps left can take one.

## 6. Disagreements found

- `timeline_starts_at_created`: the API document's timeline begins with
  `created`; `CreateOrder` writes no history row, only the seed does.
- `timeline_in_change_order`: the timeline is sorted by `created_at`, the
  *start* of the transaction. Two overlapping transactions can commit in one
  order and be listed in the other, and `last_status_at` can go back.
- `update_invalidates_caches`: cache keys follow the client's spelling of the
  UUID, so an update under another spelling leaves old entries in both caches.
Two more were read in the text and need no run. The API document asks for a weight
above zero and both validations accept 0.004, which NUMERIC(8,2) rounds to the zero
the table's check refuses: the creation is answered 500. And it lists no 405, 502
and 504, which the gateway answers.

## 7. What is not modelled

- Layout and wording: JSON, log lines, request ids, nginx, the wiring in
  `cmd/server/main.go`. The values it configures are constants.
- HTTP metrics: counters under one mutex that nothing else reads. Their maps have
  no bound (a hazard without a property).
- The content of a request beyond what a guard reads: addresses, weights,
  comments, metadata. A second creation under a key with another payload gets
  the first order, as in the code, whatever the payload.
- Postgres reporting a constraint at COMMIT instead of at the statement (the
  constraints are not deferrable), SERIALIZABLE anomalies, a clock that goes
  back.
- Redis: a SET that arrives after its client has given up (the entry would be
  written past the deadline `BoundedStaleness` relies on), eviction before the
  TTL.
- NotificationDedup: validation of the event. The provider is the mock sender.
- StatusDispatch: the statements of the transaction (OrderStore) and the two cache
  deletions (OrderCaches) are a step each, the times of reservations are
  NotificationDedup's (a reservation expires at any time its request is not being
  sent, but is only dropped when a call enters, as in the code), recipients are fixed per
  channel. `AssignOrder` takes no notification
  because the code sends none.
- CarrierSync: more than one manual run between its fetch and its store, orders that
  do not begin in created.
- RetryBackoff: the jitter factor is a percentage, where the code multiplies
  floats; negative settings, which the code treats like zero.
- Gateway: panics and the recovery middleware, headers, an upstream body that
  breaks off, two flaws in one request (which of them is named in the answer).

## 8. Plan

Done: the abstract specifications OrderLifecycle, IdempotentCreation and
NotificationService; OrderStore, OrderCreation, OrderCaches, NotificationDedup,
StatusDispatch, CarrierSync, RetryBackoff, Gateway, and proofs about all of them: every
safety property and refinement of the passing runs, and the bounds behind the liveness
properties.

What is left:

1. The composition of CarrierSync with StatusDispatch: how long the pushes of a batch
   take when every notification is slow, beside the push's own timeout.
2. The slice of the timeline that a `limit` asks for, and that it stays a prefix of
   the timeline through the cache.
3. Which batch `lastKnown` keeps when a manual run and the worker overlap, once
   the code says which it should be.
