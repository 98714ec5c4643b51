# as-backend: verification

This directory is the formal model of *as-backend*: TLA+ modules translated from
the source, configurations that check them with TLC, and theorems proved with
TLAPS. Paths are relative to the repository; the backend is `src/`, the script is
`cron_authnet_shipstation/`.

## 1. The system

A shop sells through BigCommerce and through a site whose payments are captured by
Authorize.net. Every paid order must become an order in ShipStation.

* The **backend** (NestJS) receives the webhooks of Authorize.net and BigCommerce and
  serves the operator's UI.
* The **cron script** runs once each time it is started (its own schedule is commented out
  in `main.ts:532-554`), reads the transactions the backend accepted, and makes ShipStation
  orders of those that are settled.
* Both share a Postgres database; neither knows whether the other is running.

### Components

| Component | State | Operations | What must be right |
|---|---|---|---|
| Shared tables (`*.entity.ts`, `db.ts`) | `created`, `issues`, `processed`, each with a unique index on the transaction | insert, remove, move | an accepted transaction is in some table until its order is recorded |
| Authorize.net webhook, captures (`authwebhook`, `transactions-created`, `hookmutext`) | the call in progress, behind a mutex | `shouldSkip`, `createNew` | redelivery makes no second order; BigCommerce payments are skipped |
| Authorize.net webhook, refunds (`authwebhook`) | orders of ShipStation, updates in the limiter | `processRefundVoidedTransactions` | an open order is worth what was paid minus what was refunded; no refund of an order of the script is dropped in silence; a cancelled order stays so |
| Operator requests (`transactions-issues`) | rows a request found | restore, delete | a restore never loses the transaction; no order is made twice by it |
| Cron run (`main.ts`) | batch, details, groups, order in progress | `dbProcessor`, `orderPairProcessor` | only paid transactions are ordered, once, and each settled one in the end, if the script is started and no row blocks it |
| Processors (`processors/`) | the batch, thinned from one to the next | Issued, Voided, BigCommerceSkip, Common | what leaves the batch is in a table the operator sees |
| Combine rules (`combineRules/`) | the list, rewritten while it is walked over | pair a lock with its accessory | the groups partition the batch; what goes together is paired, with the closest invoice |
| Order building (`CommonProcessor`, `preprocessors/`) | transactions changed in place, orders so far | `transformData`, pre-processors | each settled group is one order or one issue, with all its money, of a product of the model that was bought |
| BigCommerce webhook (`bigcomhook`) | orders of ShipStation, `processed`, `issues` | make, complete, cancel, refund | a BigCommerce order has all its ShipStation orders or is an issue |
| Custom fields (`postProcessOrders`, twice) | the order being labelled | label an order by the most specific group | no key hides another; the two copies agree |
| Splitting (`generateOrders`) | products whose quantity is reset in place | split an order into parts | every piece in one part; the sums add up |
| Rate limiters (`ShipStationProxy`, `BigCommerceProxy`) | queue, reservoir, what is under way | schedule a request, give it up | effects in the order of the calls; every call ends; the account's rate |
| Hook watchdog (`TaskCheckBGHook.ts`, `custom/bigCommerceHookHandler.ts`) | the hook of BigCommerce, events | enable it again, make it | a disabled hook is enabled, if the task is started; each run leaves an event; edits survive |
| Products, groups, users, logs, UI, migrations | configuration | CRUD | nothing beyond single rows |

### How they interact

1. Authorize.net sends a capture; the backend asks for the details (`shouldSkip`), looks
   in `processed`, asks for the details again and inserts into `created`. Webhooks wait
   for the hook mutex (a Bottleneck queue with `maxConcurrent: 1`); the operator's
   requests do not.
2. A run reads `created`, deletes what is processed already, fetches the details of all
   rows at once and passes them through the processors: *Issued* moves what was not
   approved to `issues` (and awaits nothing), *Voided* moves what was voided,
   *BigCommerceSkip* deletes what BigCommerce handles, *Common* combines the rest, keeps
   the groups whose members are all settled and builds an order for each; what it cannot
   build it moves to `issues`.
3. For each order: send it to ShipStation, move its transactions to `processed`; on any
   exception, move them to `issues`.
4. The operator deletes an issue or restores it: `createNew`, then remove the row.
5. BigCommerce sends a hook for each status change and refund. Behind the same mutex the
   backend asks BigCommerce for the order as it is now and makes its ShipStation orders
   (one for each part), or lists those there are and sends them back shipped, cancelled or
   with a smaller `amountPaid`. The requests of one handler are handed to the limiter
   together; `Promise.all` gives up at the first that fails, the others are still sent.
6. Authorize.net sends a refund or void. Behind the same mutex the backend finds the
   number of the order of the charge (in `processed`, or the invoice number; a row of the
   BigCommerce webhook holds an array and gives no number), lists the
   orders whose number begins with it and sends each back with a smaller `amountPaid` or
   cancelled. A failure makes an issue; when there is one already, the answer is 500.
7. Every instance of a proxy has a limiter of its own: the backend has two of each, the
   script one.
8. BigCommerce switches its hook off when deliveries fail; the watchdog switches on the
   hook whose number it knows. It runs once each time it is started.

### What is hard

* *Interleaving*: every `await` of a request lets the script run, and the script's
  statements interleave with requests; runs may overlap.
* *Atomicity*: `restoreTransactionById` and `createNew` are several statements without a
  transaction; `moveIssuedTransaction` and `moveProcessedTransaction` are transactions.
* *Stale state*: `createNew` inserts on what it read before asking Authorize.net; a run
  makes orders on details it fetched at its start; a request removes a row it found.
* *Partial failure*: between the order in ShipStation and the row in `processed` there is
  no transaction. An exception in a `catch` block ends the run for everybody.
* *Delivery*: a webhook comes more than once, late, or after a newer one.
* *Leftovers*: requests to ShipStation outlive the handler that made them, and carry
  whole orders that were read earlier.
* *Liveness*: rows that stop every run, groups that wait for a member forever, work that
  nobody starts.
* *Shared objects*: a pre-processor changes the transaction, the splitting the product
  that stands for all its pieces; later code reads the changed object.
* *Orders of literals*: names, keys and globs hold one another, and the first match wins.

Every hazard is in `PROJECT.json` at its line, with the properties that look at it.

## 2. Modules

| Module | Models |
|---|---|
| `SharedStore` | tables, transactions at Authorize.net, orders at ShipStation; the statements on them |
| `Backend` | webhook of a capture, `createNew`, restore and delete, one action per stretch between awaits |
| `CronRun` | a run of the script, one action per statement or external call |
| `Lifecycle` | `Backend` and `CronRun` on one `SharedStore`; fairness; properties |
| `Custody` | the abstract promise: *absent - held - shipped*, with the operator's *discarded* |
| `WebOrders` | the BigCommerce webhook: the shop, its hooks, the handler behind the mutex, the limiter, the orders of ShipStation |
| `Parcels` | the abstract promise to the orders of ShipStation: each change is one thing, made at once |
| `Splitting` | `generateOrders`: the requests for the parts in any order, the split, the sums |
| `Refunds` | the refund and void webhook, the limiter's leftovers, the orders of ShipStation |
| `Ledger` | the abstract promise of refunds: each is taken at once from what is left |
| `Grouping` | the abstract promise of the combine rules: pairs are merged, nothing is touched twice |
| `Pairing` | `combineTransactions` with both rules, one step per transaction and rule; implements `Grouping` |
| `OrderBuild` | the rest of `CommonProcessor.process`: settled groups, pre-processors, product, order or issue |
| `Labels` | `postProcessOrders` of the script and of the backend side by side, on one item |
| `RateLimits` | the limiters of one account, timeouts, a service that is late |
| `HookWatch` | the watchdog, the script run by hand, the shop and its owner |
| `MCLifecycle` | instances for TLC: a lock and its accessory, an unknown product, one without a description, a BigCommerce payment, a declined one |
| `MCWebOrders` | an order number no other begins with, for TLC |
| `MCRefunds`, `MCOrderBuild`, `MCLabels`, `MCSplitting` | amounts, products and groups for TLC |
| `LifecycleProofs` | all safety properties of `Lifecycle` as theorems, and that it implements `Custody` |
| `WebProofs` | all safety properties of `WebOrders` as theorems, and that it implements `Parcels` |
| `RefundProofs` | all safety properties of `Refunds` as theorems, and that it implements `Ledger` |
| `ProxyProofs` | all safety properties of `RateLimits` and of `HookWatch` as theorems |
| `PairingProofs` | all properties of `Pairing` as theorems, and that it implements `Grouping` |
| `OrderBuildProofs` | all properties of `OrderBuild` as theorems |
| `PartsProofs` | all properties of `Splitting` and of `Labels` as theorems |
| `Sums` | lemmas about sums over sets and about the folds of the library |

How they fit together: `CronRun` takes the groups (`Combine`) as any partition of the
batch, which `Pairing` implements through `Grouping`, and the products that are unknown
(`Unknown`) as any set, which `OrderBuild` decides. `WebOrders` takes the parts of an order
as a constant; `Splitting` makes them (there are some, each with a number of its own:
`PartsAreNumbered`) and `Labels` labels them. `WebOrders` and `Refunds` each
have a limiter with one place that works in the order of the calls; that it does so is
`InOrder` of `RateLimits`. There a request that was given up may take effect late; in
`WebOrders` and `Refunds` a request that fails has been done or never will be, so a
timeout after which ShipStation is late by a whole request is seen in `RateLimits` only.

### State and code

* `created`, `issues`, `processed` are sets of transactions because of the unique indexes.
  `issueKey[t]` is the primary key of the last issues row of `t`: `Repository.remove`
  deletes by key, so a request that holds an old key deletes nothing. Rows of `created`
  are deleted by transaction id (`db.ts:61-70`, `db.ts:116-141`), except by
  `removeDuplicates`, where any row of a processed transaction is a duplicate; they need
  no key.
* `status[t]` is what Authorize.net answers: an unsettled capture is settled or voided,
  both final. `orders[t]` counts the ShipStation orders that contain `t`.
* `discarded` and `stray` are history: `t` was deleted by the operator and is in no
  table; orders whose answer did not reach the tables because of a failure.
* `call[c]` is the progress of the handler behind the mutex (`Hook`) and of each operator
  request: `read`, `save`, `remove` are the awaits of `createNew` and
  `restoreTransactionById`.
* `run[r]` is the local state of a run. `batch` is `transactionDetails`, `settled` what
  its fetched details say, `bg` the moves of `IssuedProcessor` nobody awaits, `reject` and
  `groups` what Common refuses and orders, `cur` the order in progress.
* `faults` counts what fails for an outside reason (a fetch, a query, a process), at most
  `MaxFaults`. Failures that the program causes itself are not counted and not bounded: a
  unique index, and the `TypeError` of a transaction that has neither a description nor a
  subscription (`Undescribed`), which ends every run that reads its row (`FetchThrows`).

In `WebOrders`:

* `sent` is every hook in the order BigCommerce sent them, `pending` those that were not
  answered with 200 yet. A hook may be delivered again after its answer was lost
  (`repeats`, at most `MaxRepeats`), and in any order unless `InOrder`.
* `handler` is the one handler behind the mutex: the hook it is about, which of the four
  methods runs (`kind`), and where (`pc`): `fetch` is the call to BigCommerce, `prepare`
  and `list` the calls before the orders are sent, `wait` the `Promise.all`, `catch` the
  `catch` block of `createShipStationOrder`.
* `jobs` are the calls of `createOrUpdateOrder` in the limiter: a new order (`at = 0`) or
  a copy of the order at a place of `ship`. `Prepare` and `List` begin with requests of
  their own and so wait until `jobs` is empty: the limiter runs one request at a time in
  the order they came. `jobs` is a set because the requests of one handler are about
  different orders and are never mixed with those of another.
* `JobFails` lets the request be done or not. If the handler still waits, its `Promise.all`
  rejects (`Reject`); if not, nobody sees the failure.
* `Lists[o]` are the orders a filter by the number of `o` finds: ShipStation matches the
  beginning of a number, which the code needs to find `12-1/2` for order 12.
* `failed[o]` counts the failures met with `o`, at most `MaxFaults`. `dropped` is history:
  handlers whose failure was only logged. `Resolve` is the operator, who deletes an issue
  or restores it; the restored row is deleted by the cron script (BigCommerceSkip).
* The `isDuplicate` query is one step with the answer of BigCommerce: only this handler
  writes the processed row of such a transaction, and the mutex lets one run at a time.
* Of the amounts only the refund is kept. The parts of an order are a constant, see
  `Splitting`. Changes ShipStation makes on its own (a label is bought, an order is edited
  there) are not modelled.

In `Refunds`:

* `handler` is the one delivery behind the mutex: `skip` is `shouldSkip`, `find` the calls
  up to the number, `list` `getListOrders`, `wait` the `Promise.all`, `catch` the `catch`
  block. `jobs` are the updates in the limiter; `handler.left` says how many of the last
  ones the handler still waits for. `find` and `list` begin with a request of the same
  limiter and so wait until the updates before them are sent.
* `Under[n]` are the orders that a list by number `n` returns, `Invoice[e]` is the invoice
  number in the payload, used when the charge has no processed row. `RowNumber` is what
  `orderObject.orderNumber` gives: the number for a row of the script, which saves the order
  that ShipStation answered; `undefined` for a row of the BigCommerce webhook (`FromShop`),
  which saves the array of them (`bigcomhook.service.ts:653`). No order is listed under it.
* `taken[o][e]` is history: how many updates for `e` reached `o`. `ended[e]` is how the
  last delivery ended; `found` means that the processed row of the charge was there.
* `Make` and `Record` are the script or the BigCommerce webhook: it makes the order, later
  it saves the row.

In `Pairing` and `OrderBuild`:

* A description is what the rules look for in it: it starts like one of the two add-ons,
  or only contains *compact*, or neither (`Kind`). `CombineRule` compares the colour in
  the description and the e-mail, which a `customer` stands for together. `list` is the
  array the code rewrites while `position` walks over it; `rule` is the inner loop.
* `OrderBuild` goes on with the groups. A description is the text of a product, or of the
  case a pre-processor writes for it, and that of an add-on beside it; `Holds` says which
  names hold which. `Tables` are the tables of products there may be, by the names of the
  rows that have measures, and `table` is the one that is read: `Matching` are its rows whose
  name the text holds, shorter ones such as *TT Patriot* and *Patriot 35S* included.
  `bought` are the descriptions as they were fetched, `heap` the
  transaction objects, which the pre-processors change in place, `approved`, `pre` and
  `orders` the arrays of `CommonProcessor.process`, `issued` what went to the issues.
  `originalApproved` is found by the identity of the transaction in the result.

In `Labels`: a name is the set of the texts it holds that the code looks for, `Holds` says
which keys hold which, and the order of the literals is that of the tuples. `anymatch` with
an array looks at its first item only; an order that reaches this code without a field has
one item. Its sku may be empty, and then no colour is put after it. Both sides label the same item from one table of groups.

In `Splitting`: `List` are the products of an order in the shop's answer, `quantity` is
the field of the product object; `Push` is one turn of the `forEach` over them, which is a
fold over `List`. The answers are separate steps in any order. An amount is
a natural, and `NaN` what does not pass the `Number.isFinite` of the code.

In `RateLimits`: `state` is the caller's promise, `server` what the service has done with the
request, which goes on after the promise was rejected. `effects` are the writes in the
order in which they took effect; `seen` is what a list has shown. A tick is a fraction of
the refresh interval; `minTime`, which spreads the starts within it, is left out.
BigCommerce, ShipStation and Bottleneck are external and modelled by what the proxies use
of them.

In `HookWatch`: `hooks` are the hooks of the shop by number, `known` the one whose number is in
the code, `new` the one `createHook` makes. Each run reads all hooks and later sends one
back as it read it. A write may be carried out and its answer lost: then the run of the task
ends in its `catch` and the hook is written. `events` are those of the current run of the task. A failure, a shop
that switches hooks off, an edit and a run of the script count as trouble.

Abstractions of the other modules, and why they are sound:

* `MoveProcessed` is one step: its first statement deletes the `created` row and so locks
  it; a second run that moves the same transaction waits for the lock.
* The reads of `createNew` are one step (`Promise.all` of two `findOne`; only the one in
  `processed` decides). The details it asks for afterwards are not used for a decision; a
  failure of that call is `CallFails`.
* `FetchDetails` is one step. Answers arrive one by one, but a settled or voided status
  never changes, so an answer taken later differs only in statuses that a later run sees.
* `Delete` finds and removes in one step: a row that went in between makes the remove a
  no-op, like a delete that comes late.
* `Combine` and `Unknown` stand for the combine rules and the product table: any partition
  of the batch, any set of groups no order can be built for.
* A run may be started at any time when it is not under way; `Run` has as many members as
  runs may overlap. `End` forgets `bg`: the connection is closed under those moves.

## 3. Properties

Each module with a protocol has one type invariant, `TypeOK`; it is proved (section 6) and
so is in no run.

Of the tables and the cron script:

* `CustodyKept` (refinement): every step of the two programs is a step of `Custody` for
  each transaction that is not BigCommerce's. Threats: the two statements of a restore
  against a run's move, two restores of one row, a delete against a run that read the row.
* `OneOrder`: with runs that do not overlap, a second order needs a failure between
  ShipStation and the tables.
* `ProcessedHasOrder`, `StrayIsHeld`: the tables and ShipStation agree, up to orders whose
  answer was lost; those belong to a transaction somebody still sees.
* `OnlyPaidShipped`: only settled, approved transactions of the site are ordered, although
  the decision is taken on old details and refused moves leave members in the batch.
* `SettledIsServed` (liveness): a settled transaction does not stay in `created` forever, if
  the script is started again and again and no row that blocks it stays there for good.
  `Blocking` are the rows that do: one that cannot be read, one of an unknown product with an
  issues row, a voided one with an issues row. Threats: every other exception that throws a
  run out on its way, moves that are refused, groups that wait.
* `KnownProductShips` (liveness, violated, see Findings).

Of the BigCommerce webhook:

* `ProcessedComplete`: a processed order has all its parts in ShipStation, whichever
  requests failed or were still queued when a handler ended.
* `MadeOnce`: redelivered hooks and orders that are paid twice make no order a second
  time; each duplicate is paid for by a failure.
* `AttemptRecorded`: orders in ShipStation that no row knows are in somebody's hands.
* `ImplementsParcels` (refinement): whole orders are sent back that were listed earlier,
  and the requests of a handler that gave up are sent after it, yet each is a single change
  of the order as it is when the request is done: a cancellation, the shipment of one that
  waits, or `amountPaid` less what was refunded by then, of an order that is listed with
  the refunded one. Nothing is lost, undone or made again without a failure. It rests on
  the limiter and the mutex. That no cancellation is undone (`CancelStays`) follows.
* `PaidIsHandled`, `RefundReachesOrders`, `ClosedIsCancelled` (liveness).
* `PartialRefundKeepsOrder` (violated, see Findings).

Of refunds:

* `RefundsAddUp`: orders are written back whole by updates that outlive their handler,
  yet no update undoes another one, and none leaves an open order with nothing or cancels
  one with money that nobody refunded. A refund that is delivered
  twice is taken twice: `OncePerDelivery` bounds it by the deliveries.
* `FoundIsTaken`: when the row of the charge was saved by the script, failures of some of the
  parallel updates are never silent. With a row of the BigCommerce webhook nothing is found
  and nothing is said (section 5).
* `ImplementsLedger` (refinement): the handler lists, computes and writes in three steps, and
  what a failed one left in the limiter is written later still; yet each refund is taken at
  once from what is left of the order, no more often than it was delivered, and only from
  orders that a list by one of the event's two numbers returns. That no late update opens a
  cancelled order again (`StaysCancelled`) follows.
* `ListedIsSettled` (liveness): a refund whose order was listed is taken, an issue, or
  answered 500.

Of a batch:

* `RefinesGrouping`, `EachOnce`: rewriting the list while walking over it keeps every
  transaction in one place; `PairsFit`, `NothingLeft`, `ClosestTaken`: the pairs are
  those the rules are meant to find, although two rules compete and scan once.
* `AmountIsSum`, `EachGroupOnce`: objects changed in place and found again by identity.
* `SoldIsBought`: names that hold one another and those of other products, and the name of
  the add-on beside them. Whatever rows the table has, the item is named after its own model,
  and its sku and measures are not those of another model. They may be those of a product
  that names none, such as *TT Patriot*.

Of labels and parts:

* `KeysTell`: the order of the literals. `CopiesAgree`: what the two copies of the code
  have in common, and under which conditions (a table the backend reads whole, globs that
  tell the groups apart, none of the names that only one copy knows). `OwnFieldStays`:
  a label that `extraCase` gave is not written over.
* `PiecesAddUp`, `AmountPaidIsWhole`, `PartsTravelAlone`: the split, with
  one product object for all pieces. `AmountPaidIsWhole` says exactly when the amount on
  the orders is less than what was paid: when a product that is neither an extra part nor
  free was bought more than once.

Of the limiters and the watchdog:

* `InOrder`, `EveryRequestEnds` (liveness): the order of effects and the end of every call,
  with a service that is late or silent.
* `AccountLoad`: the most an account gets of one limiter in any interval, which is twice
  its reservoir.
* `OnlyEnables` (action): the watchdog sends a whole hook back, yet undoes no edit it could
  have seen. `EachRunReports`: a run leaves an event, whichever request or save fails;
  only one whose `catch` block cannot save either leaves none. `EnabledAgain` (liveness): a
  hook of the known number is not left switched off while the task is started again and
  again.

## 4. Runs

| Run | Instance | Shows |
|---|---|---|
| `lifecycle` | a transaction of the site, a declined one and one of BigCommerce, two requests of the operator (symmetric), one run at a time, one failure | `CustodyKept`, `OneOrder`, `ProcessedHasOrder`, `OnlyPaidShipped`, `StrayIsHeld` |
| `served` | a lock, its accessory (alone a product nobody knows) and one that cannot be read; one failure, webhooks twice | `SettledIsServed` |
| `poison` | lock, unknown product; webhooks twice | `KnownProductShips` is violated |
| `web` | an order of two parts, three hooks in order, one of them repeated, two failures or restarts | `ProcessedComplete`, `MadeOnce`, `AttemptRecorded`, `ImplementsParcels`, `PaidIsHandled`, `RefundReachesOrders`, `ClosedIsCancelled` |
| `late_refund` | four hooks in any order, no failure | `PartialRefundKeepsOrder` is violated |
| `splitting` | three products, up to three pieces of each, any of them extra parts, answers in any order or missing | `PiecesAddUp`, `AmountPaidIsWhole`, `PartsTravelAlone` |
| `refunds` | two partial refunds and one to skip, each delivered twice, two orders of which one list returns both, one of them of the BigCommerce webhook, two failures | `RefundsAddUp`, `OncePerDelivery`, `FoundIsTaken`, `ImplementsLedger`, `ListedIsSettled` |
| `pairing` | every batch of four transactions, two customers, two invoices or none | `EachOnce`, `PairsFit`, `NothingLeft`, `ClosestTaken`, `RefinesGrouping` |
| `orderbuild` | two pairs and a single one, any products, settled or not; the rows of the initial data, alone and with one for each case | `AmountIsSum`, `EachGroupOnce`, `SoldIsBought` |
| `labels` | every key alone and with another text, five tables of groups | `KeysTell`, `CopiesAgree`, `OwnFieldStays` |
| `limits` | a limiter with one place and a reservoir of one, four requests of any kind | `InOrder`, `AccountLoad`, `EveryRequestEnds` |
| `hookwatch` | the task and the script, three troubles | `EachRunReports`, `OnlyEnables`, `EnabledAgain` |

**Bounds.** `MaxFaults = 1` is one failure at any place and any time, which is what the
properties of `Lifecycle` speak about: a second failure hits a state the first left, and
those are all visited, with restores as well. Two requests are needed for two restores of
the same row or a restore and a delete. In `lifecycle` webhooks come once and runs do not
overlap; redelivery, overlapping runs and groups of several transactions are covered by the
theorems about the same five properties, which hold for every value of the constants
(`OneOrder` for runs that do not overlap: with two, each may order a transaction the other
has read, and no document of the repository says otherwise). `served` has a pair, the
largest group the combine rules build, of which one member alone is an unknown product, a
transaction that cannot be read, and a second delivery, so that each exception of a run that
has a cause in the tables happens; `poison` has a known and an unknown product.

In `WebOrders`, three hooks are a payment, a cancellation or refund, and one more; two
failures let one request of an attempt fail and the `catch` block or the next attempt as
well; two parts are the fewest of which one may fail while the other is queued.
The safety properties are theorems for hooks in any order, orders without a transaction
included. `RefundReachesOrders` and `ClosedIsCancelled` speak of behaviours in which no hook
comes again after its answer: a repeated hook is one that is out of order.

In `Refunds`, two failures leave an update of one event in the limiter and let the next
delivery fail as well; two orders under one list are the fewest of which one may be updated
while the other fails; the amounts of orders and refunds make sums that differ. Four
transactions are two pairs that compete, or a main one with three add-ons to choose from;
two customers are what equality can tell. Prices in `orderbuild` are powers of two, so no
two sums are equal. `labels` takes every key the code has, with every text beside it, and
tables in which a key of a group is part of another. Three pieces are more than the
quantity of one and the clone that follows; three products leave one between the first and
the last, and one of them is free and has no shipping cost. Four requests on one limiter are two writes, a list, and one that is late; limiters
share nothing, and the theorems are about any number of them. A timeout of half an interval
makes a request late within the interval, and ages are counted up to the longer of the two.
Three troubles switch a hook off, edit it and let a request fail within one run of the task.

`Pairing`, `OrderBuild`, `Labels` and `Splitting` come to an end, `Refunds`,
`RateLimits` and `HookWatch` are bounded by the number of events, requests and troubles:
their configurations allow deadlock.

**Fairness.** `WF` of the steps of a run that was started (`RunNext` when the run is not
idle): every request has a timeout and every statement an answer, so a run goes on. Nothing
is assumed of its start. Failures are in no fairness condition. `WF` of *Settle or Void*: Authorize.net settles
captures each night. Nothing is assumed of the backend, of the operator, or of the moves
nobody awaits: a call may stay where it is.
In `WebOrders`, `WF` of a delivery of a pending hook (BigCommerce sends it until it is
answered with 200, and the mutex serves whoever waits) and of the handler's steps (every
request has a timeout of 30 seconds in the proxies). Failures are in no condition;
`MaxFaults` ends them.
In `Refunds`, `WF` of the steps of the handler and of the limiter, for the same reason.
In `RateLimits`, `WF` of the clock, of the start of the first request in each queue and of
each timeout (the event loop runs what is due); nothing is assumed of the service. In
`HookWatch`, `WF` of the steps of a run of the task that was started (`TaskGoesOn`); nothing
is assumed of its start.

**When liveness holds.** No schedule of the code is in force: the one of the script is
commented out (`main.ts:532-554`), and that of the watchdog is made with `start = false`,
so `runOnInit` runs it once and nobody calls `start()`. Who starts them is outside the
repository. `SettledIsServed` and `EnabledAgain` therefore say what follows *if* the script,
or the task, is started again and again (`Scheduled`, `Restarted`), and
`KnownProductShips` is violated even so.

`SettledIsServed` has a second condition: that no row stays in `created` for ever that blocks
the others (`Blocking`). There are three kinds, each until the operator interferes, and no
document promises more:

* A transaction without a description and without a subscription: `main.ts:96-101` reads a
  field of `undefined`, the fetch of the batch rejects, and every run ends there.
* A product nobody knows that has an issues row already (the finding of `poison`).
* A voided transaction that was issued before: its move is refused
  (`VoidedProcessor.ts:34-36` logs and leaves it in the batch), it is combined with its
  lock, and the pair waits for a settlement that never comes.

The liveness of `WebOrders` is checked with hooks that arrive in order. Three things are
outside it, and no document of the repository says what should happen:

* The hook of a payment that is handled after that of a cancellation makes orders that
  nobody cancels: `createShipStationOrder` does not look at the present status.
* A second partial refund does not change the status, so only its refund hook comes, and
  that one is skipped for a partially refunded order: `amountPaid` keeps the first refund.
* An order without a transaction has no processed row: a redelivered hook makes it again.

## 5. Findings

`poison`: `__test__/main.test.ts:139-157` expects an order for the known product next to
an unknown one. When the unknown one has an issues row already (it became an issue, then
its webhook came again: `createNew` looks in `processed` only), `moveIssuedTransaction` in
the `catch` of `CommonProcessor.process` (line 379) violates the unique index, the
exception ends the run before any order is made, and every later run ends the same way
until the operator deletes the issue.

`late_refund`: `deleteShipStationOrder` says that an order that is partially refunded need
not be deleted (line 723), and tells so by the status the order has when the hook is
handled. When the hook of a partial refund is handled after the staff moved the order on
(to be shipped, say), all its orders are cancelled, although nobody closed the order.

Observed while modelling, where no document says otherwise: the refund of a charge whose
order the BigCommerce webhook recorded reaches no order when it comes from Authorize.net and
is not itself skipped, and leaves no trace, because the row holds an array of orders
(`bigcomhook.service.ts:653`) and `authwebhook.service.ts:78` reads the number of one;
with the rows of the initial data alone, a pair of a lock and an add-on becomes an issue
(no row is called *UP Pistol*), and a Bluetooth or fingerprint lock alone is sent with the
sku of *TT Patriot*, the one row that its new text holds; a refund that is delivered twice
is taken twice (`OncePerDelivery` is the most one can say); `amountPaid` of an order with
two of the same safe is that of one (`AmountPaidIsWhole`); a product whose name has both
*Compact (RFID)* and *Elite* is taken by the pre-processor of the former; a pair of watches
and two names are labelled by one copy of the label code only (`TwoWatches`, `OtherLock`).
The comment of `BigCommerceProxy.ts:10` names 150 requests in 30 seconds; a reservoir of
150 bounds the starts between two refreshes, so those just before one and just after it
are twice as many in less than 30 seconds (`AccountLoad` is the bound), and the backend
and the script have three such limiters for one account.

## 6. Proofs

* `TypeCorrect`: `Spec => []TypeOK`, one step per action.
* `CustodyInvariant`: `Spec => []CustodyInv`. `CustodyKept` is not inductive: a run may
  move to `processed` what it read long ago, so the proof needs that *whatever a run has
  in hand is held or discarded* (`HandsKnown`), that a request never holds a key the table
  has not given yet (`KeysKnown`), that *while the row a restore is about to remove exists,
  another table has a copy* (`RestoreSafe`), and that BigCommerceSkip deletes only what
  belongs to BigCommerce (`SkipsBigCommerce`).
* `CustodyIsKept`: `Spec => CustodyKept`. The changes of the tables are a handful of
  statements; a lemma for each says which step of `Custody` it is, and the step theorem
  goes through the actions.
* `PaidInvariant`: `Spec => []OnlyPaidShipped`. `PaidInv` adds that a run orders only what
  its fetched details call settled, approved and not BigCommerce's (`RunPaid`), and that
  what they call settled is settled now.
* `StrayInvariant`: `Spec => []StrayIsHeld`, from `CustodyInv`.
* `BackedInvariant`: `Spec => []ProcessedHasOrder`. Two runs may each have made an order of
  the same transaction and not yet recorded it; the move of the second is then refused or
  deletes nothing. `BackedInv` counts the runs that are between the order and the move
  (`Movers`) next to the orders, so the proof counts elements of a set of runs and needs
  `Run` to be finite.
* `OneOrderInvariant`: `Spec => []OneOrder` when `Run` has one member. `OneOrderInv` says
  that what the run has in hand has no order yet beyond the stray ones (`RunFresh`).

Each strengthening is in `Lifecycle`, under "Why the properties of the orders hold".

In `WebProofs`, with the strengthenings in `WebOrders`:

* `WebTypes`: `Spec => []TypeOK`.
* `ProcessedIsComplete` and `CancellationStays` share `ShipInv`: the copies in the limiter
  are of the order at their place and not older than a cancellation of it, no order has
  two of them (`CopiesFresh`), and while `createShipStationOrder` waits with nothing
  failed, each part is made or queued (`NoPartMissing`).
* `MadeOnceInvariant`: `MadeInv` counts, for each part, its orders and the one that is
  queued against the failures and the one attempt that is recorded or under way. The proof
  counts places of `ship`, so it needs no assumption that `Part` is small.
* `WebImplementsParcels`: `Spec => ImplementsParcels`. A request in the limiter differs in one
  thing from the order as it is now, or makes one of an order that is not recorded
  (`RequestsExact`): between a list and the last write nobody else changes an order, since
  a handler lists only when the requests left behind are done. What it takes off is a
  refund that was made (`ParcelsInv`). `OneChange` names the changes; that no order
  has two requests (`CopiesFresh`) keeps it as it was listed until its own is done. The other steps are stutters, but for
  the end of `createShipStationOrder`, which records an order that has all its parts
  (`NoPartMissing`), and for failures, which `Parcels` counts; that a part is made again
  only after one comes from `MadeInv`.
* `RecordInvariant`: `RecordInv` says the same of what is queued as of what is made, and
  that the handler runs the method its hook calls for.

In `RefundProofs` and `ProxyProofs`:

* `TypeCorrect` and `WatchTypeCorrect` say more than sets: what is left to wait for is in
  the limiter, no reservoir is overdrawn, no write has two effects.
* `RefundOncePerDelivery`, `RefundIsTaken` and `CancelledForEver` share one invariant. The
  handler waits for all updates in the limiter or for none (`WaitsForAll`); an order has at
  most one update under way (`OneEach`), which was computed from what the order is now
  (`Current`), so it never opens a cancelled order; each delivery is used up by an update
  that was made, is under way, or may still be made by the handler (`Counted`); and what
  the handler found is listed, and what it listed is taken or under way (`FoundIsPending`).
* `RefundsAlwaysAddUp` rests on the same invariant: what is written back was computed from
  the order as it is (`Current`), so an update adds its refund to those that are taken
  (`Total`), and an order that does not exist yet has none (`AbsentIsWhole`).
* `RefundsImplementLedger`: `Spec => ImplementsLedger`. The value that is written was computed
  from the order as it is (`Current`), an update is of a delivery that is not used up
  (`Counted`), and an update in the limiter is of an order that its event reaches
  (`Reached`, the one thing to be added). `RefundsAddUp` says that an open order
  has something left, so `Ledger` needs no states of orders.
* `LimiterInOrder`: `InOrder` is not inductive. It needs that with one place a request is
  started only when those before it have ended (`FirstComeFirstServed`), which is where the
  cardinality of what is running is used, that a promise that was kept was done
  (`OkIsDone`), so an earlier request that ended and is not done was given up, and that
  the writes that are done are those with an effect (`EffectIsDone`).
* `LoadIsBounded`: the requests that `AccountLoad` counts are split at the last refresh.
  Those that started since came out of the present reservoir, those before, as far as they
  are young enough to count, out of the one before (`OutOfReservoirs`). A refresh makes the
  former the latter; a tick ages both.
* `RunsReport` and `TaskOnlyEnables` need only that the task writes a hook it has found
  (`FoundIsPut`).

In `PairingProofs`, with `IInv`:

* `NoneLostOrDoubled`, `PairsAlwaysFit`, `WalkIsComplete` and `ClosestIsTaken` share one
  invariant of the walk. The list stays in the order of the batch (`Ascending`), has pairs
  only behind the position (`SinglesAhead`), holds every transaction (`NothingLost`) once
  (`NothingDoubled`); an entry the walk has left alone found nothing among the single ones
  further right (`Settled`), and no rule would have had another one rather than the one a
  pair has (`Closest`). The last two are the properties at every moment of the walk, for
  each rule as far as its turn has come.
* `PairingRefinesGrouping`: the initial groups are the single transactions, and a step of
  the walk merges two single groups or leaves the groups alone. `GroupsPartition` carries
  the partition over from `Grouping`.

In `OrderBuildProofs`, with `IInv`:

* `AmountsAddUp`, `EachGroupBecomesOne` and `LocksAreSoldRight`. The settled groups are
  those the filter keeps (`Kept`); a group whose turn has not come is as it was fetched
  (`Waiting`), so no pre-processor sees what another one changed; one that is done is
  represented by one of its members, whose object holds the amount of all of them and, if a
  pre-processor knows the lock, the text it writes (`Processed`); and an order is of the
  group its transaction stands for, which is in the orders or the issues (`OrdersRight`).
  Which pre-processor is chosen for which pair of texts is settled by lemmas over the names,
  and so is which rows a text that a pre-processor wrote can match: whatever the table has,
  only those of its own model and of none (`CasesHold`).

In `PartsProofs`, with `SplitInv` and `LabelsInv`:

* `SplitIsRight` is about one evaluation of `SplitProductsIntoIndividuals`: each entry is
  one piece of a product that is no extra part, or it is the last and holds all extra parts;
  and for any numbers on the products, what the entries hold of them is what was bought
  (`RightSplit`). It is proved along the fold over the products: after `k` of them, what the
  pieces and the extra parts hold is what the first `k` were bought for (`Good`).
* `SplitInvariant`: the quantities, entries and the amount stay as the split left them, and
  each order is what `GenerateOrder` makes of its entry with these. `OrdersAddUp` and
  `ExtraPartsTravelAlone` follow with tax, shipping, weight and *one per piece* as the
  numbers. `AmountIsPaidOrLess` compares two sums term by term.
* `PartsAreNumbered`: every entry but that of the extra parts holds one piece, so the pieces
  that are no extra parts, summed up over the entries, count them.
* `LabelsInvariant` says what the order of either side is at each stage: new, with the
  field `extraCase` gives, or labelled by a group that matches, which happens only where
  `extraCase` gave none (`CronDone`, `BackendDone`). `OwnLabelStays` and `SameLabels`
  read it. `SameLabels` needs that the two tables of locks differ in the keys
  of the first row only (`LockTypesDiffer`), that a table the backend can read whole is
  read whole (`ReadsAll`), and that a group without a rival is the one both take.
* `KeysTellAll`: the loop ends at the first row with a key that the name holds. If a key
  holds none of an earlier row that means something else (`InOrder`), that row means what
  the key means (`FirstTells`), whatever else the name holds.

**Sums and folds.** The library's induction theorems take an operator, which the provers
cannot instantiate. `Sums` gets induction without one: for a *set* of numbers
(`SetInduction`, from the smallest number that is not in it) and a *set* of subsets of a
finite set (`SubsetInduction`). From these it follows that the functions `FoldSet` and
`FoldLeft` are defined with exist (`FoldExists`, `LoopExists`), that a sum does not depend
on the order in which the elements are taken (`SumTakesAny`), and what the proofs above use:
sums of one element more or less, sums that are compared, copies of a value, and the sum
along a sequence that names each element once. Where the code has a loop, the model has a
`FoldLeft` for this reason: the library's `SelectSeq` cannot be seen into.

Assumptions: those named in the modules. Subsets and naturals; that `Run` is finite and
`Combine` partitions the batch; that an order has parts, finitely many, and is listed under
its own number; that `Order` and `Event` of `Refunds` are finite and amounts are positive;
that no order is listed under `undefined`; that the groups of `OrderBuild` have one or two
transactions and share none, and that its tables have rows with known names; that an order
of the shop has products, each listed once; that a table of groups is finite and names have
a place in the alphabet. `OneOrderInvariant` assumes a single run. The proofs hold for any
number of transactions, requests, overlapping runs, limiters, failures and deliveries, for
batches of any length and for any prices, groups and products.

`KeysTellAll` assumes that the literal tables are in order (`KeysInOrder`). The tables are
definitions, but which texts hold which is the constant `Holds`; `MCLabels` gives it for all
keys of the code and states the assumption, so TLC evaluates it.

Only model-checked: the liveness properties, which rest on fairness: `SettledIsServed`,
`PaidIsHandled`, `RefundReachesOrders`, `ClosedIsCancelled`, `ListedIsSettled`,
`EveryRequestEnds` and `EnabledAgain`. Every other property of a run is a theorem. The refuted properties of section 5 are runs of TLC. `OrderBuild`,
`Pairing`, `Labels` and `Splitting` are computations without a protocol; the types of their
variables are part of the invariants of their proofs.

## 7. Not modelled

* Users and sessions, the UI, logs, system health, migrations: configuration, views and
  append-only rows; no other part decides on them.
* Products and groups: CRUD of single rows by one operator. `find` and `save` are two
  statements there, as in many services of this kind; what the rows say is a constant of
  `OrderBuild` and `Labels`.
* The ShipStation webhook: it reads an order, asks BigCommerce and logs; it changes nothing.
* `BigCommerceProcessor`: not in `createProcessors`.
* The building and parsing of requests in the proxies: their failures are faults of the
  modules that call them. The paging over settled batches is reached from tests only.
* Wording of notes and messages, weights and dimensions of locks.
* Changes ShipStation or its users make to orders on their own.

What could come next: `WebOrders` and `Refunds` with an operator that edits orders in
ShipStation, which are then no longer as they were listed.
