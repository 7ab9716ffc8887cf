# A shop of spaceship parts: specifications, model checking and proofs

The repository is a shop made of three Go services:

| service | keeps | operations |
|---|---|---|
| **OrderService** (`order/`), HTTP on `:8080` | tables `orders` and `order_items` in Postgres; no state in memory | create, get, pay, cancel an order |
| **PaymentService** (`payment/`), gRPC on `:50052` | table `payments` in a Postgres of its own | `PayOrder` |
| **InventoryService** (`inventory/`), gRPC on `:50051` | table `parts`, filled by a migration and never updated | `GetPart`, `ListParts` |

OrderService calls InventoryService (`ListParts`) when an order is created and
PaymentService (`PayOrder`) when it is paid.  Nothing else is shared.  Each HTTP
request is a goroutine; requests meet only in the rows of the tables.

This directory says in TLA+ what these services do, checks it with TLC on small
instances, and proves the most important of it with TLAPS for all instances.

## 1. Inventory

**Orders** (`order/internal`).  State: one row per order, with its status, the
transaction UUID and the payment method; the items never change.  An order is
`PENDING_PAYMENT`, `PAYMENT_PROCESSING`, `PAID` or `CANCELLED`; the API shows
`PAYMENT_PROCESSING` as `PENDING_PAYMENT`.
Every change of status is one `UPDATE … WHERE uuid = $1 AND status = $n`.

- `Create`: checks the parts with InventoryService, adds up the prices, draws a
  UUID, inserts the order and its items in one transaction.
- `Get`: two `SELECT`s.
- `Cancel`: `PENDING_PAYMENT → CANCELLED`; when the `UPDATE` affects no row, a
  `SELECT` by which the refusal is chosen.
- `Pay`: `StartPayment` (`PENDING_PAYMENT → PAYMENT_PROCESSING`), then the gRPC
  call, then `FinishPayment` (`→ PAID`, with the receipt) or, after any error
  of the call, `ResetPayment` (`→ PENDING_PAYMENT`).

Hard behaviours: a payment is three transactions in two databases with no
coordinator; `PAYMENT_PROCESSING` is a lock kept in the database with no owner
and no expiry; the status behind a refusal is read by a statement of its own;
an error of the payment call does not say whether the payment was made; the
reset uses the context of the request, which may be done; the process may stop
anywhere and nothing at startup looks for payments that were under way.

What makes it correct: an order is paid once and by a payment that exists for
it; an answer is never taken back; a client is charged behind no refusal; no
order is left in `PAYMENT_PROCESSING`; a refusal gives the true reason.

**Payments** (`payment/internal`).  State: the table `payments`.  `PayOrder`
validates its arguments, draws a fresh UUID, inserts a row.  Nothing ties a
payment to its order: no uniqueness of `order_uuid`, no idempotency key.
Correct when what it answers agrees with its table.

**Parts** (`inventory/internal`).  State: the table `parts`, constant at run
time.  `List` filters by UUIDs or else by type; with UUIDs it answers in the
order of the request and fails when one is missing.  Correct when a list is what
was asked for, in whatever order Postgres returns the rows.

**Processes** (`*/cmd/main.go`).  Load the environment, connect, serve, wait for
a signal or for a failure of the server, stop.  OrderService waits ten seconds
for its handlers and then closes its connections and its pool under them; the
gRPC servers wait for their calls without a limit of their own.  The gRPC clients
ping every ten seconds and the servers allow one ping in five minutes.  `cancel`,
which is deferred and called after a failure of the server, too, is the `stop` of
`signal.NotifyContext`: after it a signal kills.  Correct when a stop ends, reports
a failure, and leaves no transaction half done.

**In-memory repository** (`order/internal/repository/order/memory.go`, put
together with the handlers by `order/pkg/handler`).  The same operations on a
map under one mutex, for tests.  Correct when it does what the Postgres
repository is meant to do.

**HTTP code** (`shared/pkg/openapi`, generated from `shared/api`).  Router,
parameters, bodies, validators, handlers and a client; no state.  Correct when
it serves what the OpenAPI document describes and both sides of it agree.

`PROJECT.json` lists the components with what is modelled of each, and, under
`hazards`, what is hard to test in this code, at the line where it bites.

## 2. Modules

| module | models |
|---|---|
| `SharedTypes` | the values that the services exchange |
| `PaymentService` | PaymentService: its table and the calls it serves; a system of its own (`PaymentSpec`), and the part of `OrderService` and `OrderMemory` that answers payment calls |
| `OrderModel` | the data of OrderService: statuses, the statements (`where`/`set`), the answers to errors |
| `OrderService` | OrderService over Postgres and PaymentService: every handler, every statement, every fault |
| `OrderMemory` | the same handlers over the in-memory repository |
| `OrderLifecycle` | the abstract specification: the public life of an order and the ledger of payments |
| `Inventory` | InventoryService: what `ListParts` and `GetPart` answer, over a constant catalog |
| `Checkout` | `Create` over `Inventory`, from the request to the `COMMIT`, and `Get` from the rows |
| `OrderSchema`, `OrderRouter`, `OrderHTTP` | the generated HTTP code: types and their JSON; routing; one exchange from the client through the server and back |
| `Processes` | start and stop of the order service and of a gRPC server behind it |
| `PaymentServiceProofs`, `OrderServiceProofs`, `OrderAnswerProofs`, `OrderMemoryProofs`, `CheckoutProofs`, `ProcessesProofs`, `OrderHTTPProofs` | the theorems (section 4) |
| `SequenceLemmas` | lemmas about sequences and folds, for the proofs |
| `MCOrderService`, `MCOrderMemory`, `MCInventory`, `MCCheckout`, `MCOrderHTTP` | instances for TLC |

```
SharedTypes ── PaymentService ─┬─ OrderService ─ OrderLifecycle (implemented by both)
               OrderModel ─────┴─ OrderMemory ──┘
Inventory ──── Checkout             OrderSchema ── OrderRouter ── OrderHTTP
Processes
```

Definitions named `Wrong` in their comment are used by no specification: each is a
plausible mistake in the definition below it, by which a property is
shown to depend on the code.

### OrderService

| variable | in the code |
|---|---|
| `orders[o]` | the row of `o` in the table `orders`; status `ABSENT` when there is none |
| `payments`, `calls[r]` | the table `payments`; the `PayOrder` call of request `r` and its answer |
| `pc[r]` | the statement or call that the handler of `r` makes next or waits for; `lost` when the process stopped under it |
| `input[r]`, `response[r]` | the operation called with its arguments; the code, message and body answered |
| `ctxDone[r]` | `ctx.Err() != nil` for the request |
| `payResult[r]` | `transactionUUID, err` of `pay.go:36` |
| `late[r]` | a statement whose result the handler never saw and that Postgres may yet execute |

Each statement is one action: `Create`, `StartPayment`, `FinishPayment`,
`ResetPayment`, `Cancel` change the row of the order if its status is the one in
the `WHERE` clause, and otherwise go on to the read that the repository makes
then (`Read`, at the labels `StartPaymentGet`, `CancelGet`, …).  `SendPayOrder`,
`ReceiveTransaction`, `ReceiveError` and `LoseCall` are the call of
`Client.PayOrder`.  `QueryFails` is every error of a query that is not
`ErrNoRows`.  Between any two actions of a handler all others may run.

The environment: `Disconnect` (the client goes away, `net/http` cancels the
context, on which every further query and call fails), `Crash` (the process
stops and a new one starts), `ExecuteLate` (Postgres executes a statement whose
issuer is gone).  The constant `Faults` says which faults may occur:

| fault | what may happen |
|---|---|
| `insert` | the `INSERT` of a payment fails and leaves no row |
| `reply` | a payment is recorded and the order service gets an error: the acknowledgement of the `COMMIT` is lost, the connection breaks or is closed by a shutdown that ran out of time |
| `db` | a statement of OrderService is reported as failed; it had no effect, or Postgres executes it later |
| `disconnect` | HTTP clients go away |
| `crash` | OrderService stops between any two steps |

Two assumptions about what is outside `src/`: a client names an order only when
it was told of it, or a UUID that is no order's (`CanName`: UUIDs are random and
a `Create` that did not answer told nobody); and grpc-go does not repeat a call
that the server may have seen.

### OrderLifecycle

An order is placed once; settled only by a payment in the ledger that was made
for it; `PAID` and `CANCELLED` are final and a receipt never changes; the ledger
only grows, by payments for placed orders.  `OrderService` implements it
(`RefinesLifecycle`) under `status` ← what `GET` shows, `receipt` ← the two
columns, `ledger` ← `payments`; starting and resetting a payment are stutters.
`OrderMemory` implements it, too; there the ledger is what the shop's own
handlers paid, because others may call PaymentService for what they like.

### OrderMemory

An operation of `MemoryRepository` holds the mutex from its first to its last
line, so that it is one action: the status that refuses an operation is the one
that is answered, and no operation looks at the context.  There is no statement
that fails or is executed late, and a stop of the process ends the map with it.
The payment call is that of `OrderService`.  `Others` are callers of
PaymentService that are no handlers of the shop, with arguments good and bad;
they are what makes the properties of `PaymentService` worth checking here.

The module says what tests over the map can show of the service and what they
cannot: `NotFoundIsAbsent`, and `PaymentSettles` with clients that go away, hold
here and are violated over Postgres; `ProcessingIsOwned` of `OrderService` is one
half of `MarkIsExact`.

### Inventory and Checkout

`Inventory` holds `List` as an algorithm: the rows that the `WHERE` clause
selects come in every order Postgres may return them in (`Scanned`), and
`ListByUUIDs`, through a map of the rows by their UUIDs (`PartsByUUID`), or
`ListByName` makes the answer of them.  A name is a number, its place in the
alphabet; an empty, malformed or nil UUID is `BadUUID`.

`Checkout` looks at the part of OrderService that `OrderService` leaves as a
choice.  Its variables are the tables `orders` (UUIDs only) and `items`, and per
request `pc`, the request (`input`), the order put together (`draft`), the rows
its transaction has inserted (`tx`), the rows read (`found`) and the `response`.
The statements inside the transaction are one action each, so that every fault
may fall between two of them; the price is added in two's
complement, whose values are `-Limit .. Limit - 1` (2^63 in the code, 8 in the run).
Status, payment and `Cancel` are not here: they change no item.  Where `Draw`
has drawn the UUID, the `Create` of `OrderService` begins; its `INSERT` of the
order is the whole transaction of `Checkout`, which `OrdersAreWhole` justifies.

| fault of `Checkout` | what may happen |
|---|---|
| `db` | a statement of `Create` or `Get` fails; `Create` is rolled back |
| `commit` | the order is committed and answered with an error |
| `crash` | OrderService stops; Postgres rolls back |
| `DbFails` | a query of InventoryService, or the call to it, fails |

A part asked for under two names is refused by Postgres, whose primary key of
`order_items` admits no second row, and answered with 500; the map accepts it.
The code states no intention about it, so that it is a hazard and no finding.

### OrderSchema, OrderRouter, OrderHTTP

`OrderSchema` has the generated types as data: the fields of each in the order
they are written in, and the bit mask of the required ones as the code has it.
`Encode` and `Decode` are the algorithm that ogen repeats for each type.  An instant is a
number of parts of a second, of which `EncodeDateTime` drops the fractions
(`created_at` is `time.Now()`): that ogen's `json.EncodeDateTime` writes
`time.RFC3339` is an assumption about a library that is not in the repository.  A
document is the sequence of the entries of one object, keys that come twice or
are unknown included; a value is its JSON type and, if a string, what it reads as.
`OrderRouter` has `ServeHTTP` and `FindPath`, two walks of one tree, over paths
cut into pieces.  `OrderHTTP` is one exchange: a call of the generated client
(`Call`) or whatever another program sends (`OtherSends`); the router (`Serve`);
the decoders of parameters and body, each with its failure; the API layer
(`Handle`), whose service answers whatever it may; the encoder, and the client
again (`Receive`).  Exchanges share nothing, so that one is enough.

| fault of `OrderHTTP` | what may happen |
|---|---|
| `read` | the body of the request cannot be read to its end |
| `write` | the body of the reply cannot be written after its code was |
| `reply` | the reply is lost, by `WriteTimeout` for example, which ends the connection and not the handler |

Left out: tracing and metrics, and the hooks that this program does not set
(middleware, path prefix, handlers for errors of its own).

### Processes

`main` is where `run` of the order service stands (`connect`, `dial`, `arriving`
at the select, `select`, `shutdown`, `draining`, `hang up`, `close`, `wait`,
`exited`, or `killed`), `server` the goroutine of `ListenAndServe`, `errCh` and
`ctxDone` what they tell each other, `conn` and `pool` what the deferred calls close.
`pmain`, `pserver`, `pnotify`, `ppool` are the same of a gRPC server, whose `run` goes
on to `GracefulStop` in the step that cancels its context;
PaymentService and InventoryService start and stop with the same code.

`notify` and `pnotify` say who gets a signal.  From `NotifyContext` to its `cancel` it
is `run` (`Signal`, `PaymentSignal`); before and after it is the Go runtime, which
ends the process (`Kill`, `PaymentKill`).  `cancel` is called by the goroutine of a
server that fails (`CancelContext`, `PaymentServeFails`) and is the first deferred
call (`HangUp`, `Stopped`).  A process that has ended, in whatever way, forgets its
goroutines, handlers and channels (`Forget`); what is left of it are its rows, its
exit code and the calls that PaymentService goes on with.

Each request is a payment of which three steps count: the transaction that marks the
order, the call, the transaction that settles it.  Each of them may fail, with its
effect or without: a statement (`StatementFails`), the `INSERT` of the payment or the
acknowledgement of its `COMMIT` (`ChargeFails`), the connection (`Disconnect`: closed by
its age or for too many pings; the timers are not modelled, only that they go off).
A client may go away at any time (`ClientLeaves`): its call is cancelled, and the pool
gives its handler no connection any more.  `failed` and `broken` remember for which
requests this happened, so that `DrainedMeansDone` can say what a drained stop does not
promise, finding 3 among it.

That the goroutine sends its error before it cancels the context is what makes
`FailureIsReported` true, and only for a server that fails while `run` waits: one
that fails earlier finds both cases of the `select` ready.  Even then a second
signal, which kills, has an exit code of its own; `ExitsBetweenTransactions` says when
a process that has work in hand can be killed so: after a failure of its server, or
in its deferred calls, and neither while it serves nor while it drains.  A gRPC
server that fails to serve ends with exit code 0: its error is logged only.

## 3. Runs

| run | question | instance |
|---|---|---|
| `order_safety` | What holds of orders, payments and answers whatever fails, and is the public life of an order that of `OrderLifecycle`? | 3 requests, an order and one to be made, 1 method, 3 transactions, all operations, all faults |
| `order_liveness` | Does every payment end and is every request answered? | 3 requests to pay and cancel one order, `insert`, `reply`, fairness, no symmetry |
| `order_memory` | What does the in-memory repository keep, and do the answers of PaymentService agree with its table? | 2 handlers and another caller, an order and one to be made, good and bad arguments, `insert`, `reply`, `disconnect`, fairness |
| `inventory` | Is a list in the order that was asked for, however the rows come? | 5 parts, two of one name, every type, unknown, repeated and bad UUIDs, 2 callers |
| `checkout` | Do orders appear whole, are they shown as ordered, and is each answer true of the parts? | 3 callers, 12 bodies, 2 UUIDs, all faults, a sum that overflows |
| `processes` | What does each way to stop, or to be killed, leave behind, and does it end? | 2 payments in hand, every failure, fairness |
| `order_http` | Do router, decoders, API layer and client agree with the document and with each other? | 2 UUIDs, every call with each combination of optional parts, bodies of up to 3 entries, paths of up to 5 pieces, all faults |
| `order_not_found` | Is 404 answered for absent orders only, when payment calls fail? | finding 1 |
| `order_cancelled_charged` | Is a cancelled order never charged, with `reply`? | finding 2 |
| `order_stuck` | Does every payment end when clients go away? | finding 3 |
| `checkout_misplaced_part` | Is the hull of an order a hull? | finding 4 |
| `http_error_body` | Has every refusal the body that the document gives it? | finding 5 |

Each property of a passing run has, in `PROJECT.json`, a mutant: a plausible
mistake in the modelled code with which TLC finds the property violated.

Why these bounds.  Requests meet in one row, and every conflict in the code is
between the holder of the lock and one request that finds it taken; a third
request can take what the second one left (a late statement, a reset order).
Orders do not interact, so that one is enough for the conflicts; the second one
is there to be created.  As many transactions as requests that can pay are
available, so that none is refused for want of a UUID.  In `order_memory` two
handlers suffice for a conflict and the other caller for a call that no handler
made.  In `checkout` one caller reads an order while the second writes it and the
third writes another.  In `processes` one payment is in a transaction while the
other is in its call; that connections close, pools wait and calls fail together
needs no third.  In `order_http` a key that comes twice and an unknown one fit
into three entries, and a path below the longest known one into five pieces.
What is proved (section 4) does not depend on bounds.  `CHECK_DEADLOCK FALSE`
throughout: when all requests of an instance are answered, or the processes
have exited, the system may stop.

**Fairness.**  In `OrderService` and `OrderMemory`, `Handle(r)` and `Serve(r)` are
weakly fair, per request: the Go scheduler runs every goroutine, queries return
(no transaction waits for another service), and PaymentService answers or the
connection is found dead by keepalive.  There is none for the arrival of
requests, nor for any fault.  In `Processes` `run`, its goroutine, the handlers
and the statements that were begun go on, and so does `Disconnect`: connections
live 30 minutes and 5 seconds (`MaxConnectionAge` and its grace), after which
calls in flight fail.  No call has to end by itself and no signal has to come,
so that `OrderStops` and `PaymentStops` hold with a PaymentService that hangs.

**Findings** (each is a run that TLC finds violated):

1. *404 for an order that exists* (`order_not_found`): `Cancel` or `Pay`
   finds the order in `PAYMENT_PROCESSING`, its payment fails and is reset, and
   the `SELECT` reads `PENDING_PAYMENT`, which the `switch` takes for "not found".
2. *Cancelled and charged* (`order_cancelled_charged`): an error of the payment
   call that hides a recorded payment is reset, and then the order is cancelled.
   Likewise it can be paid again and is then charged twice; `OnlyChargedOnce`
   excludes that only for calls that did not end in such an error.
3. *Stuck* (`order_stuck`): the client goes away during the payment call; the reset
   runs with the context that is done.
4. *An engine for a hull* (`checkout_misplaced_part`): an item has the type of the
   field it was asked under, which is never compared with that of the part.
5. *Another error body* (`http_error_body`): what the generated decoders refuse is
   answered by ogen's default handler with `error_message`, where the document
   promises `code` and `message`; the generated client cannot read it.

## 4. Proofs

Every theorem holds for any sets of requests, orders, methods and transactions,
any parts, any paths and bodies, any faults and any workload; only `ChargedOncePerCall`, which counts, assumes
finitely many requests.

| module | theorem | proves |
|---|---|---|
| `PaymentServiceProofs` | `PaymentTypesHold`, `AnswersAreRecorded`, `ChargedOncePerCall` | the three invariants of `PaymentSpec` |
| `OrderServiceProofs` | `TypesHold`, `LockHolds`, `PaidHolds` | `TypeOK`, `ProcessingIsOwned`, `PaidIsRecorded` |
| | `Refinement`, `PaysByTheProtocol` | `Spec => RefinesLifecycle`, and `Spec => PaymentSpec`, by which the theorems about PaymentService hold in the composition |
| `OrderAnswerProofs` | `ChargedOnceHolds` | `OnlyChargedOnce` |
| | `FinalHolds`, `PayerHolds`, `AccountHolds` | `AnswersAreFinal`, `ProcessingHasPayer`, `ChargeIsAccounted` |
| `OrderMemoryProofs` | `MarkHolds`, `NotFoundHolds`, `MemoryPays`, `MemoryRefinement` | `MarkIsExact`, `NotFoundIsAbsent`, `Spec => PaymentSpec` and `Spec => RefinesLifecycle` of `OrderMemory` |
| `CheckoutProofs` | `WholeHolds`, `TruthHolds`, `CheckoutTypes`, `ShownHolds` | `OrdersAreWhole`, `AnswersAreTrue`, `Types`, `ShownAsOrdered` |
| | `ListsHold`, `ListingsHold` | `ListsAsAsked`, `ListingsAgree` of `Inventory` |
| `ProcessesProofs` | `ProcessTypesHold`, `DrainedHolds`, `ExitsHold`, `FailureHolds` | `Types`, `DrainedMeansDone`, `ExitsBetweenTransactions` (of every step), `FailureIsReported` |
| `OrderHTTPProofs` | `HTTPTypes`, `RoutesHold`, `AcceptanceHolds`, `RequestsArrive`, `AnswersArrive` | the five invariants of `OrderHTTP` |
| | `RoundTrip` | `Decode(Encode(x))` is `x` with its instants in whole seconds, for every schema |
| `SequenceLemmas` | `FoldExists` | that the recursion of a fold has a solution |

*Assumptions*: those the modules state, which TLC evaluates for each instance.
`Null`, `BadMethod` and `BadUUID` are none of the values they stand beside; a
transaction UUID is not an error (`TransactionsAssumption`, `ResultsAssumption`,
with which the result of a payment call can be told from its error); `Others` are
among the callers.  A body of `Checkout` has four fields of which hull and engine are
given, and is no UUID; lists of UUIDs and the table of parts are finite; the range of
the sums is not empty.  A second has at least one part, and the whole second of an
instant is one (`InstantsAssumption`).  In `OrderHTTP` paths and documents are sequences; calls and
orders have the types of their Go structs; what is unset or null is no value
(`OptAssumption`), and a call or an answer is not nothing (`NothingAssumption`); a
UUID is neither `/` nor `%2F` (`UUIDAssumption`), without which an escaped slash could
pass for one.

*Arguments.*

- **PaymentService.**  A row and an answer are tied by the UUID drawn for
  them, which is that of no other (`TransactionsAreUnique`, a part of the invariant
  because random UUIDs are taken to be fresh).  `RowsHaveCalls` says that every row was drawn by a call that has ended; the
  counting in `ChargedAtMostOncePerCall` is then an injection from rows to calls.
- **The lock.**  `TypeOK` needs that a handler names an order (`InputInv`) and
  that a call answered OK has a transaction (`CallInv`).  `ProcessingIsOwned`
  needs that a handler which left a statement behind sends no other
  (`LateInv`): otherwise one request could own an order twice.  A paid order has
  its payment on record because the result which `FinishPayment` stores is that
  of a recorded payment for the same order and method (`ResultInv`).
  `Invariant` is the conjunction.  The lemma `RowStep` states the life of a row in one
  step; `HandleTables` and `NextTables`, that every step of the service is one of
  these; `OwnsStep`, that nobody becomes an owner but by `StartPayment`;
  `OwnedIsUntouched`, that no statement but the owner's changes an owned row.
- **One charge.**  The lock alone does not give `OnlyChargedOnce`, because a charge
  outlives it.  `ChargeInv`: a call that was sent or has charged, and was not
  taken for failed, keeps its order marked or paid, no other request owns that
  order, and there are no two such calls for one order.
- **Answers.**  `AnswerInv` needs two facts that no line of the code states: an
  answered request never changes its row again except by a statement it left
  behind, and then its answer was an internal error (`LateIsInternal`); and a
  payment call never gets `InvalidArgument`, because its arguments were checked
  before (`CallsAreValid`), so that a call which failed may always have charged.
  With `ResultIsAnswer` and `CallIsAccounted` each charge has its handler, an answer
  that leaves its outcome open, or the receipt in its order.
- **Refinement.**  `StatementRefines` maps each statement, executed in time or
  late, to a step of `OrderLifecycle` or to a stutter; PaymentService adds to the
  ledger only payments for placed orders; everything else changes nothing public.
- **The map.**  `Held` and `Holders` are the two directions of `MarkIsExact`;
  `Drafts`, that a UUID just drawn is named by nobody else, keeps `Create` from
  overwriting a marked order.  `HandleSteps` sums up each operation as taking,
  giving or changing an order or only reading it.  The refinement needs that a
  handler whose call was answered holds a row of the ledger (`OwnCalls`), and that a
  UUID drawn for a payment is that of no call before (`Drawn`), so that a payment
  of somebody else never enters the ledger of the shop.
- **Checkout.**  `Local` says of a request, at each of its steps, what is known
  by then: `Priced`, that the answer of InventoryService is true; `Drafted`,
  that the order is the one asked for, under a UUID that no table has; `Writing`,
  that the transaction holds the first *k* items and no part twice.  The primary
  key then gives `Cardinality(Asked(in)) = Len(items)` at the `COMMIT`, and
  because no two requests draw one UUID (`DraftsDiffer`) nobody else's rows are
  those of the order.  `ListFacts` is what `List` answers: every enumeration of
  the selected rows has all of them (`Enumeration`), and the map made of it has, for
  each UUID, the row of that UUID.
- **Folds.**  `FoldLeft` is defined by a recursion over sets of indices whose solution
  is chosen, so that nothing follows from it before one is known to exist.
  `FoldExists` shows that one does, by induction over the length of the list, in the form
  the provers can use: the least of a set of naturals (`LeastNat`), and
  functions instead of operators as arguments (`Recursion`, `SparseRecursion`).
- **Shown as ordered.**  `ShownInv` adds to `Inv` what the rows keep of the draft: those
  of the transaction, those in the tables and those that `Get` has read.  `OrderToModel`
  then finds each part under its type, in whatever order the rows come; the total is a
  fold over at most four prices in another order than that of `Create`, and equal to
  it because two's complement addition commutes and associates also when it overflows.
- **Listings.**  `SetToSeqs` and `IsSorted` give a list with every row once and names in
  order; two parts of different names are then in the order of their names in both
  lists.  The table of parts must be finite for the list of it to exist.
- **The wire.**  `EncodeFacts` solves the fold of `Encode`: the document has the entry of
  each field that is set, and no other.  `RoundTrip` follows for every schema whose
  fields have different names, with `AsWritten` for what is left of an instant; it is applied to the seven types of the interface.
  `CreateOrderDecoded` and `PayOrderDecoded` compare the decoders with the schemas of the
  document for any sequence of entries, with keys that come twice.
- **The router.**  `Routing`: by where the first slash behind the prefix is
  (`SlashFacts`), both walks of the tree and the paths of the document agree; a parameter
  is taken for a UUID, escaped or not, exactly if it is one piece that is one
  (`ParamFacts`).
- **The exchange.**  `HTTPInv` says, stage by stage: what was sent is the call's
  request or another program's (`Sent`); the service was called with what
  the request says, if it got through router and decoders (`Handled`); otherwise
  the reply is a refusal that no client can read (`Refused`), and otherwise the encoded
  answer or a broken one (`Answered`).  The five properties follow from it, each with
  the lemmas above; `HTTPInv` is needed because they speak of the request, the
  call of the service and the reply together, which are set by different steps.
- **Processes.**  `Inv` says what is open at each step of `run` (`Resources`), where
  each call is by the step of its handler (`Calls`), and what is settled as
  long as pool and connection are open, and for which requests it need not be
  (`Settled`); the two stops follow because the one who closes a resource waited for
  those that use it.  `Signals` says that before the deferred calls the signals are
  given back only by a goroutine that has sent its error: until `run` has taken that
  error from the channel, it is there.  `ExitsBetweenTransactions` is a property of
steps: `EndOfOrder` and `EndOfPayment` say which ones end a process, and for each of
them the claim follows from its guard and the invariant before it.

*Only model-checked.*  Liveness (`PaymentSettles`, `EveryoneIsAnswered`,
`OrderStops`, `PaymentStops`), which rests on fairness and is out of the prover's reach.
Every invariant that a passing run checks is a theorem.

## 5. Not modelled, and what is left

- The generated gRPC code and the protocol files: message types and stubs
  without decisions.  What the gRPC library does is modelled by how the code
  relies on it.
- Telemetry and the unused hooks of the generated HTTP code; formatting of answers,
  logging.
- Tests, mocks and their utilities; compose files and build tasks; the running of the
  migrations, whose keys and constraints are modelled where they refuse a row.
- Reading the environment file, which only fails or succeeds before anything is open;
  and the timers of keepalive, of which only the outcome is modelled.
- `uuid.NewRandom` without randomness is a failed `INSERT` in `PaymentService`
  and a failed statement in `OrderService`.
- Stock: nothing in the repository uses it up, so that there is no promise about
  it to check.

Next would be one specification of `Checkout` and `OrderService` together, in which
the `Create` of the second is shown to be the transaction of the first.
