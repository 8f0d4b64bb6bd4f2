# Verification of the cart and checkout service

TLA+ models of the multi-tenant cart/checkout service under `apps/`, the TLC
instances that check them and the TLAPS proofs about them. The reference is
the code; documents are quoted only where the code contradicts them.

## 1. Inventory

| Part | State it keeps | Operations | Interacts through |
|---|---|---|---|
| Checkout service (`apps/order/services.py`) | orders, order items, payments, cart status and version, product stock | `checkout`, `_run_checkout_transaction` | Postgres rows and row locks, the two Redis keys, an `on_commit` hook to Celery |
| Idempotency manager (`apps/core/idempotency.py`) | `IdempotencyRecord` rows, Redis key `idem:{tenant}:{key}` | `check_for_replay`, `mark_in_progress`, `clear_in_progress` | called around the lock and the transaction |
| Redis lock (`apps/core/locks.py`) | Redis key `lock:checkout:{tenant}:{cart}` | `redis_lock` enter and exit | wraps the transaction |
| Cart endpoints (`apps/cart/views.py`) | none | one view per operation: find or insert the customer's ACTIVE cart, then call a service | the resolution is outside the service's transaction |
| Cart mutations (`apps/cart/services.py`) | carts, lines, totals, version | get-or-create, add/remove product, set address/method/business details, recalculate | cart row lock; `on_commit` cache invalidation |
| Coupons (`apps/coupon/services.py`) | coupons with `used_count`, cart coupons | apply, remove, revalidate | coupon and cart row locks; nested in checkout |
| Coupon rules (`apps/coupon/validators.py`) | none | validity window, minimum, countries, discount formulas | called by apply and revalidate |
| Payment (`apps/payment/services.py`, `tasks.py`) | payment status, order status | authorize, capture, void, refund; Celery tasks with retries | gateway calls outside any transaction; `on_commit` to invoices |
| Invoice (`apps/invoice/services.py`, `tasks.py`) | invoices, per-tenant sequence, PDF files | generate in two phases; Celery task with retries | order and sequence row locks |
| Cart read cache (`apps/core/cache.py`) | Redis key `cart:read:{tenant}:{user}` | get, set, invalidate after commit | cart endpoints and every mutation |
| Addresses (`apps/addresses/services.py`) | addresses, one default per customer | add | row lock and partial unique index |
| Rate limiting (`apps/core/throttling.py`) | Redis counter per tenant, customer and action | allow | INCR and EXPIRE NX in one pipeline |
| Tenant context (`apps/tenant/`) | the context variable of a worker | resolve, set, reset | middleware and tasks set it, every manager reads it |
| Gateways, catalog, logging, metrics, OpenAPI, admin | none, or rows without behaviour | pure functions and I/O | |

What is hard here: several web workers interleave between any two statements;
Postgres isolation is READ COMMITTED, so only row locks and guarded UPDATEs
order them; Redis keys expire by time, before or after their owner is done;
requests are retried under one key while the first attempt is still running;
`on_commit` hooks run after the commit and can fail or be lost; Celery hands a
task out twice, or acknowledges one whose process was killed; a worker can die
between any two steps.

What makes each part correct is stated as its properties below.

## 2. Modules

| Module | What it is |
|---|---|
| `Checkout` | the checkout service with the idempotency manager and the Redis lock |
| `AtomicCheckout`, `CheckoutRefinement` | what checkout promises its clients; the mapping and the refinement property |
| `CheckoutProofs` | TLAPS proofs about `Checkout` |
| `Coupon`, `CouponProofs` | apply, remove, revalidate, redeem, deactivate; proofs |
| `CartTotals` | the arithmetic of a cart and its coupons, the coupon rules |
| `ActiveCart`, `ActiveCartProofs` | the cart endpoints of one customer over the cart services; proofs, those about `CartTotals` included |
| `TenantRequests`, `TenantRequestsProofs` | tenant context, rate limit and address book of every request; proofs |
| `Payment`, `PaymentLedger`, `PaymentProofs` | payment service and tasks; the state machine of the rows they implement; proofs |
| `Invoice`, `InvoiceBook`, `InvoiceProofs` | invoice service and task; the gap-free book they implement; proofs |
| `Fulfilment` | `Payment` and `Invoice` composed through the order's status and the task queue; its proofs are in `PaymentProofs` |
| `CartCache`, `CartCacheProofs` | read-through cache and its invalidation; proofs |
| `SumTheorems` | what a sum over a finite set is, for the proofs that add up stock and money |
| `MCCheckout`, `MCCoupon`, `MCActiveCart`, `MCTenantRequests` | the data of their TLC instances; the other modules need none |
| `*_<run>.cfg` | one file per run |

Conventions: one action is one statement sent to Postgres, Redis, a gateway or
the broker, so TLC interleaves statements, not handlers; a transaction that
locks its only row first is one action. `pc` says which
statement comes next. A Postgres transaction is the span between its first row
lock and its commit; `rowOwner` says who locks a row, and its writes become
visible at the commit. A definition whose comment starts with "Mutation:" is a
plausible bug, never part of `Next`: it shows which mistake a property would
catch.

### Checkout

| Variables | Code |
|---|---|
| `req`, `pc`, `reply` | one POST to the checkout endpoint, where its worker is, what it will answer |
| `sentinel` | Redis `idem:{tenant}:{key}` (`IdempotencyManager`) |
| `lock` | Redis `lock:checkout:{tenant}:{cart}`, its value the holder's token (`redis_lock`) |
| `record` | `IdempotencyRecord`, the order its stored response names |
| `cartStatus`, `cartVersion`, `cartItems`, `stock`, `orders` | the rows |
| `lines`, `todo`, `target`, `seenVersion` | local variables of `_run_checkout_transaction` |
| `dispatched` | `authorize_payment` tasks in the broker |

`CheckRecord`, `CheckSentinel` and `MarkInProgress` are the three round trips of
`check_for_replay` and `mark_in_progress`; `AcquireLock` and `ReleaseLock` the SET
NX PX and the compare-and-delete script of the lock; `LockCart` to `Commit` the
statements of `_run_checkout_transaction` in order, each with its refusal, which
rolls everything back; `DispatchPayment` the `on_commit` hook; `ClearSentinel` the
final DEL. The environment loses Redis replies (with or without effect), fails
the broker, kills workers, expires keys, breaks deadlocks, and edits carts from
other endpoints. An id that is wrong (unknown cart, another user's address,
unknown payment method) is an input that names no row or another user's.

Coupon revalidation inside checkout takes the rows of the cart's coupons one at
a time (`LockCoupon`), which coupons those are is chosen when the cart is read,
and then passes or refuses in one action; its rules are in `Coupon`. The optional
ownership check of the view (403) changes nothing and is left out. One tenant is enough: every row, key and lock is prefixed
or filtered by tenant, and that a worker has the right tenant is
`TouchesOwnTenant` of `TenantRequests`.

### Coupon

`used` is `Coupon.used_count`, `applied` the `CartCoupon` rows, `redeemed` what
orders carry. Row locks are taken one statement at a time in the code's order,
which differs: apply takes coupon then cart, remove cart then coupon, checkout
cart then its coupons. The application is inserted (`InsertApplication`) before the
guarded increment (`CountUse`), whose refusal rolls it back. A Postgres deadlock aborts one of the waiting
transactions. `Offers` bounds which coupons a cart's customer tries.
The validator's rules on dates, minimum amounts and countries are one
nondeterministic refusal (`Interrupt`) here and exact in `CartTotals`; the usage
cap and the stacking policy are modelled exactly, because they touch shared rows.

### ActiveCart and CartTotals

| Variables | Code |
|---|---|
| `job`, `pc`, `reply` | a request of the customer: its body, the local variables of its view (the cart, price, address and method it has read), its next statement, its answer |
| `carts` | the `Cart` rows of the customer in the order of their insertion, each with its items, applied coupons, denormalised totals and selections |
| `orders` | key of an `IdempotencyRecord` -> the order it names, with what it copied of the cart |
| `saved`, `default` | rows of addresses and payment methods; the default address and its country |
| `now` | the clock of product prices and coupon windows |

No request names a cart. `GetCart`, `InsertCart`, `GetCartAgain` are the three
statements of Django's `get_or_create`; `Resolve` is what the view does with the
row it got, and only then does the mutator's transaction (`AddProduct` to
`SetBusinessDetails`) write to that row by its primary key. `DemoteDefault` with
`SaveAddress`, and `SavePaymentMethod`, are the transactions of their own that
precede theirs; the first fails on the unique index when a default it did not see
was committed in between.
`ReplayFastPath` is the look at the record before the cart is resolved,
`ReplayOrConflict`, `RefuseCheckout` and `PlaceOrder` the outcomes of the
checkout service, whose statements are in `Checkout`. `closed` and `recorded` in
a job are history: what was already checked out, or recorded for its key, when
the request began.

`CartTotals` has `recalculate_cart`, both discount formulas with their rounding,
the rules of the validator and the clamp at zero, in cents and hundredths of a
percent. Its data stay data: rules are a function from the keys of the coupon's
JSON to their values.

### TenantRequests

| Variables | Code |
|---|---|
| `context`, `token` | the context variable of a worker and the value it will put back |
| `job`, `pc` | a request or payment task and its next statement |
| `owner`, `defaults` | committed rows of `Address`: their tenant, and `is_default` |
| `found`, `demoted`, `inserted` | what an open `add_address` transaction has read, updated and inserted |
| `count`, `ttl` | the throttle's Redis counter and whether it has an expiry |
| `touched`, `admitted` | history: tenants whose rows a job used, requests let through in a window |

`Resolve` and `Leave` are the two halves of `TenantMiddleware`; `EnterTask` the
task's own `tenant_context`; `ContextMissing` what the manager raises without a
tenant; `Throttle` the pipeline. `OpenAddressBook` takes the snapshot of the
demoting UPDATE, `DemoteDefault` is its second half after any lock wait,
`InsertAddress` the INSERT under the partial unique index, which waits for a
pending entry and fails for a committed one. Views and tasks use whatever
`context` holds, so a leaked tenant would show as rows of another tenant. The
customer id is the same with every tenant, so only the context keeps their rows
apart.

### Payment, Invoice, Fulfilment

A queue holds copies of a task by the number of retries it has had. `Deliver`
takes a copy. What `acks_late` (`cart_system/settings/base.py:446`) covers and what
not is told apart: `Crash` is a worker that goes down as a whole, whose copy the
broker gives to another; `Redeliver` adds one while the first is still being run;
`TaskFails` is a message that is acknowledged without a result, because one
process of the prefork pool was killed (there is no `task_reject_on_worker_lost`),
because of an exception that is not retried, or because the broker refused the
retry. All three may come after the gateway has granted (`MaybeGranted`) and take
an `on_commit` hook with them (`unsent`).
`Payment`: `CheckStatus` and `Load` are the two idempotency reads, `AskGateway`
and `GatewayTimesOut` the call between them and the guarded UPDATEs,
`RecordApproval` both UPDATEs of the transaction, `EnqueueInvoice` its
`on_commit` hook. The second entry task, `process_payment`, resolves the payment
and makes the same service call, so it is another delivery. `approvals` counts
what the gateway has granted; `Registered` are the payments whose gateway is in
the registry that all workers load at start. Clerks stand for callers of
capture, void and refund. The status SUCCEEDED is set by no code and does not
occur.
`Invoice`: steps 1 to 5 of `generate_invoice_for_order`; `LockOrder`,
`LockSequence` and `Insert` are the one transaction of
`_create_invoice_row_atomic`; `Taken` is its two unique indexes; `FindAgain`
the IntegrityError branch; `files` the PDFs on disk. Every exception of the service
is retried; the task's own read of the order (`LoadOrder`) is in front of the try.
`Fulfilment` lets both share `orderStatus` and makes what `Payment` sends
arrive in `Invoice`'s queue.

### CartCache

One key, one cart. `version` counts committed mutations; a reader fetches the
cart row and its lines in two statements (ATOMIC_REQUESTS is off), then SETs the
payload; a writer's DEL follows its COMMIT. `suspect` is a history variable that
says why an outdated entry may be there.

## 3. Runs

| Run | Instance | Shows |
|---|---|---|
| `cross` | 3 requests, 2 carts, 2 scarce products, a coupon, 2 keys, TTLs may run out early | no double checkout, orders and records one to one, stock conserved, truthful answers, fenced lock; 1.5 M states |
| `atomic` | 2 requests, every id a client may get wrong, a coupon or none, 1 edit, 1 failure, early expiry | `Checkout` implements `AtomicCheckout`; a cart is closed exactly when its order exists, crash or lost reply included; the version guard of step 10 never fires |
| `liveness` | 2 requests, 2 carts, shared products and coupons, 1 failure, no early expiry | one checkout per cart, nothing left behind; every request is answered, no key or cart stays blocked |
| `race` | 2 workers, 2 carts, 3 coupons, one with a single use, one excluding it | counter, cap, stacking, deactivation; lock-order deadlocks do not stop a request |
| `shopping` | 2 requests of one customer at a time, 3 carts, 2 products, 2 coupons, 2 keys, 1 failure | one ACTIVE cart; totals follow every edit and orders add up; edits of a closed cart only by requests that overlap its checkout; retries replay; the loser of an INSERT is answered; 0.8 M states |
| `isolation` | 2 workers, 2 tenants, a limit of 1, 3 address rows, 1 failure | no row of another tenant is used; the rate holds and its window ends; a customer with a default address keeps exactly one; 0.2 M states |
| `rows` | 2 workers, 2 clerks, 2 payments, one without a gateway, 1 retry, 1 fault | `Payment` implements `PaymentLedger`; PAID means the gateway granted it; every payment is settled or its task failed for good |
| `numbers` | 3 orders, 2 workers, 1 retry, 1 fault | `Invoice` implements `InvoiceBook`; a URL means a file (part of `TypeOK`) |
| `pipeline` | 1 order, 2 workers and a fault on each side | no invoice for an order that is not PAID or stops being so; a paid order ends in a printed invoice unless its hook was lost or its task failed for good |
| `overlap` | 2 readers, 2 writers, 3 writes, 2 faults | a stale entry has three causes only, and the TTL ends it |
| `overuse`, `lastuse` | smallest instances | the disagreements of section 5 |

**Bounds and why they are enough.** `MaxFaults` counts injected failures; every
repair in the code is local to one request or task, so one failure at every
possible step, against one concurrent actor, meets each repair. `MaxEdits` = 1
lets a cart be changed before, while and after checkout reads it, which is all
the version guard compares. `MaxRetries` = 1 stands for the code's 5: what
matters is one retry and the last. Two carts, two keys and two products give
every overlap the code tells apart (same cart, same key, same products, none);
in `cross` a third request enters after the first two have interfered, which is
what a wrongly deleted lock or sentinel takes. `EarlyExpiry` TRUE lets a TTL run
out at any moment; FALSE only after its setter is done, which is how the TTLs
(15 s for the lock, 60 s for the sentinel) are meant.

In `shopping` the customer sends five requests besides reads. From no cart the
first two are prescribed (`Openings`), so that the interesting states are
reached; from a prepared cart three are free, which is a checkout, its retry and
an edit in any order. Each checkout needs a key of its own, so 2 keys give at
most 3 carts, and `MaxCarts` never binds. The clock ticks once: a price rises
and a voucher ends. The prices make a percentage that must be rounded, a
voucher worth more than a cart, and a minimum that is met by two lines and
missed by one. In `isolation` a counter stops at `MaxCount`, one above the
limit: beyond the limit the code does not tell values apart. Only one tenant's
window is used, as counters do not meet; the product of the other tenant is
asked for too.

Symmetry is used over requests and workers only, in runs without liveness.

**Fairness and why the code justifies it.** A worker that has begun a request
goes on with it (WF on its steps): web workers are not suspended. Nobody owes a
request, an edit, a fault, or a hook after a crash. Where a step waits for a row
others take again and again (`Coupon`, `Invoice`) the fairness is strong:
Postgres queues lock waiters. Postgres breaks deadlocks (`deadlock_timeout`),
Redis expires keys (PX, EX). A gateway call ends, with an answer or a timeout,
but nothing forbids that every one times out. `EventuallyFresh` needs the TTL
alone, `WindowReopens` only that Redis expires a counter that has an expiry.

**Deadlock** is checked in the checkout, coupon, `shopping` and `isolation` runs.
The payment, invoice, pipeline and cache runs switch it off: they rest when all
tasks are done.

## 4. Proofs

Every safety property, action property and refinement that a passing run checks is also
a theorem, for every value of the constants. The theorems that have no run of
their own say what TLC cannot be asked on one instance (which locks can deadlock)
or what the liveness properties rest on.

`CheckoutProofs` proves, for any number of requests, carts, keys, products and
units, any bound, and any timing of the Redis keys:

- `NoDoubleCheckout`: a cart becomes at most one order;
- `ExactlyOncePerKey`: orders and idempotency records are one to one;
- `ClosedWithItsOrder`: a cart is CHECKED_OUT exactly when it has an order;
- `TruthfulAnswers`, `NoOrphanPaymentTask`, `VersionGuardRedundant`,
  `TypeCorrect`, `FencedLock`;
- `StockIsConserved`: stock left and units sold add up to the initial stock;
- `OnlyCouponsAndStockDeadlock`, `RequestsGoOnwards`: see "Waiting" below.

From `~EarlyExpiry` it proves what Redis adds: `OneCheckoutPerCart` and
`OneRequestPerKey`. The assumptions are those of `Checkout`: `None` names no
request, inputs carry a key of `Keys`, stock and cart lines are naturals, the
bounds are naturals.

`StockIsConserved` is `IInv` plus a sum: orders are committed one at a time, so
there are finitely many (`StockInv`), and a commit moves the lines it has
reserved from `stock` to the one order it adds. That a sum over `orders` grows by
exactly that term is `SumFunctionAdd`.

The argument. No property above is inductive alone. `IInv` adds: a request in
`OwnsCart` owns its cart's row, and that cart is ACTIVE (`OwnersInv`); the
version it has refreshed is the cart's (`VersionInv`), since nobody writes a row
that is locked; stock is deducted only for the lines that were read
(`ReservedInv`); an order's request is past its commit and its record exists
(`OrdersInv`); an answer that is decided is true from then on (`AnswersInv`).
Hence a second commit for one cart is impossible because the row's owner is
unique, whatever Redis does; that is the proved form of the claim that the Redis
lock is an optimisation. The proof has one step per action; `Abort` and the
steps that only move `pc` are lemmas of their own. `KeysInv`, on top of `IInv`,
says that a request in flight is the value of its sentinel and, inside, of its
lock; it is preserved only if no TTL runs out early. `LeavesNothing` needs only
that a Redis key is its setter's until a failure (`LeftInv`), whatever the TTLs
do. `NoOrphanPaymentTask` and `OneRequestPerKey` are proved and have no run of
their own.

`CheckoutIsAtomic` proves the refinement `ImplementsAtomicCheckout`. Each step
of a request is the abstract acceptance, the abstract answer or a stutter; to
know which, one has to know what a request on its way out has decided
(`DecidedInv`): 202 for its own order, whose task was dispatched, or a refusal
that names no order.

`SumTheorems` holds lemmas about `SumFunction` of the community modules, nothing
about the code, that these proofs cite: `SumStep` (a sum is any of its terms plus the rest, whatever order
CHOOSE takes them in), `SumFunctionNat`, `SumFunctionAdd`, `SumFunctionPart`. The
induction over finite sets is made by hand, since the provers cannot instantiate
the library's: if a sum failed, a smallest set for which it fails would exist
(`LeastNumber`, from the well-foundedness of `<` on `Nat`), and taking one element
away leaves a smaller one.

`CouponProofs` proves, for any workers, carts, coupons, caps and types and each
stacking policy, `UsesAreCounted`, `CapIsKept`, `StackingIsKept`,
`RedeemedWhileActive` and `TypeCorrect`. Coupon and cart are locked in no
consistent order, so the argument is who owns which row when: past its SELECT
FOR UPDATE a worker owns the cart (`CartInv`), so what it has read of the cart's
coupons is still so when it writes (`ReadInv`), and a checkout owns the coupons
it is about to redeem, which nobody then deactivates (`LockedInv`). `CountsInv`
is the count itself. `NoLockOutlivesItsRequest` adds that every end of a
transaction (commit, rollback, deadlock victim) frees all its rows.

`ActiveCartProofs` proves about `CartTotals`: `PayableBounds` (never negative,
never above the subtotal), `RoundingExact` (within half a cent, a half goes up),
`PercentageBounds` (for at most 100 %, the column's CHECK) and `FixedBounds`.
About `ActiveCart`, for any number of requests, carts and failures:
`OneActiveCartAlways`, `OrdersAlwaysAddUp`, `LateEditsAreOverlaps`,
`RetriesGetTheStoredAnswer`, `LoserIsAnswered`. The last three are about what a
request knew when it began; `JobInv` carries it along: the cart a worker writes
to was not closed when its request came, a checkout whose key had its order
stops at its first statement, and a loser of two INSERTs finds an ACTIVE cart or
sees that another one was closed since.

Of what an order is, it proves `OneOrderPerClosedCart`, `OrdersAreFinal` (no later
step changes it), `CouponsStack` (no two coupons of one type) and
`OrderTotalBounded` (between zero and the subtotal); of the rows, `TypeCorrect`: no
amount is ever negative. `AmountsInv` carries the amounts through every edit: lines
have positive quantities and natural prices, discounts are what the formulas
give, a price is read before its line is written (`PricedInv`), and an order takes
over the lines and coupons of the cart it closes (`PlacedInv`). It uses the assumptions `QuantityAssumption` (a line's quantity is positive,
`ck_cartitem_qty_pos`; a customer puts finitely many products in a cart),
`CouponAssumption` (a value is positive, a percentage at most 100 %,
`ck_coupon_value_pos` and `ck_coupon_pct_lte_100`) and `BoundAssumption`.

`TenantRequestsProofs` proves `TenantsIsolated`, `RateIsLimited`,
`OneDefaultAddress`, `NeverTwoDefaults`, `EveryCounterExpires` and `TypeCorrect`, for any workers, tenants, limits, rows and
failures. `ContextInv`: a worker has a tenant only inside a job, and there its
job's. `WindowInv`: a window counts whatever it admits. `IndexInv`: at most one
transaction per customer is about to commit a default, and it demotes the one
there is; this is where the UPDATE's snapshot, its lock wait and the index meet.

`InvoiceProofs` proves `TypeCorrect` and the refinement `ImplementsBook`
(`BookImplemented`). A number is read under the sequence's lock and used two
statements later, so `JobInv` says what a worker holds in between: it owns the
rows, its number is the next, its order is PAID and not invoiced, its file is on
disk before its URL is stored. `BookInv` is the book itself.

`CartCacheProofs` proves `StaleOnlyByOverlap` (with `TypeCorrect`): any number of
readers, writers and failures leave an outdated entry only for the three
causes. The property is inductive as it stands, since it names every cause.
`EveryEntryExpires` adds that what they leave has a TTL.

`PaymentProofs` proves, for any orders, workers, clerks, retries and failures and
any set of registered gateways, `TypeCorrect`, `PaidMeansApproved` and
`LedgerImplemented` (`Payment` implements `PaymentLedger`). The transaction that
records an answer sends two guarded UPDATEs, and the second does not look at what
the first matched, so neither result is inductive: a stale answer could settle
the order of a payment that somebody else has closed. `SettledTogether` excludes
it: an order waits while its payment is open, and, where there is a gateway, no
longer. `JobsInv` is what an actor between its read and its UPDATE knows: its
payment has a gateway, and if it was told "approved" the gateway has granted it.
Four actions write the rows (`RowsWriters`); each has a lemma that it maps to a
ledger step or to none. `OnlyFailedTasksAreLost` is what the delivery gives: as
long as a payment is open and none of its tasks has failed for good, a copy is
queued or a worker serves it. A task fails for good with its last retry, with an
exception that is no timeout, or with its pool process (`TaskFails`).

The same module proves about the composition `Fulfilment` that the payment
service takes only steps it takes alone (`PaymentAlone`), hence keeps its ledger
(`LedgerInThePipeline`), and that no invoice is left with an order that is not
PAID (`NeverInvoicedUnpaid`): the invoice worker's check and its INSERT are far
apart, and what bridges them is that PAID is final (`PaidIsFinal`).
`OnlyLostHooksLoseInvoices` follows a paid order from its commit to its page: the
hook is still to run or was lost with its worker; or the task was sent, and is
queued, in work, printed, or failed for good (`SentInHands`).

**Waiting.** Who can wait for whom in a circle is proved for each component that
locks more than one row in a transaction:

- `OnlyCouponsAndStockDeadlock`: checkouts lock cart, address, payment method in
  one order and then the coupons and the stock rows, each in no fixed order, so
  every member of a circle is at a coupon or at a stock row. A transaction's depth
  grows with the tables it holds (`HeldInv`); the lowest and the highest member of
  a circle are equally deep. It assumes `TablesDisjoint`, that the five tables
  share no row.
- `OppositeOrdersDeadlock`: in every circle of the coupon service a remove or a
  checkout that holds its cart waits for a coupon, and either an apply that holds
  its coupon waits for a cart or two checkouts wait for coupons.
- `InvoicesDoNotDeadlock`, `AddressBooksDoNotDeadlock`: there is no circle. Invoice
  workers lock the order before the sequence; of two transactions that add a
  default address for one customer, at most one has demoted the old one.

`RequestsGoOnwards` says that no step takes a checkout back to an earlier
statement, so it can only be late by waiting. With what Postgres does to a circle
(one member becomes the victim) this is why the requests end.

Only model-checked: the liveness properties, which are beyond the prover.
For most of them the safety half is proved:

| Liveness, by TLC | Safety half, by proof |
|---|---|
| `EveryRequestAnswered` | `RequestsGoOnwards`, `OnlyCouponsAndStockDeadlock` |
| `NeverBlockedForEver` | `LeavesNothing`, for answered requests without a failure; the expiry of a left key is fairness |
| `EveryRequestEnds` | `NoLockOutlivesItsRequest`, `OppositeOrdersDeadlock` |
| `SettledOrGivenUp` | `OnlyFailedTasksAreLost` |
| `PaidIsPrinted` | `OnlyLostHooksLoseInvoices`, `InvoicesDoNotDeadlock` |
| `EventuallyFresh` | `EveryEntryExpires` |
| `WindowReopens` | `EveryCounterExpires` |

## 5. Where the code and its documents disagree

Two have a run with a counterexample; `PROJECT.json` quotes the line each
contradicts.

- `overuse`: removing a coupon from a cart that was checked out meanwhile frees
  a redeemed use.
- `lastuse`: the cart that holds the last use of a coupon cannot be checked out.

The passing properties are worded so that they say exactly how far the code
goes where its documents go further. Checkout and payment:

- `README.md:110` promises the stored response for the same key and body. A retry
  that reads the record before the first attempt commits and the sentinel after
  it is cleared is told "cart already checked out" instead; the next retry gets
  the stored response.
- `README.md:79` calls re-deliveries safe no-ops. A re-delivered authorize task
  whose first run died between the gateway's answer and its commit asks the
  gateway for a second authorisation. And it says an unpaid order enqueues no
  invoice; after deliveries with different answers the approved one does, for an
  order that is FAILED, and the invoice task's own check (`InvoicedStaysPaid`) is
  what stops it.
- `README.md:119` and `docs/architecture.md:756` say tasks are not lost on a worker
  crash, `docs/architecture.md:738` that a message is delivered again after one.
  That is so when the whole worker goes down. With `acks_late` alone and the
  prefork pool, a killed pool process makes Celery acknowledge the message: the
  payment stays REQUIRES_CONFIRMATION, or the paid order has no invoice, until
  somebody acts. `SettledOrGivenUp`, `PaidIsPrinted` and their theorems count it
  among the tasks that failed for good.
- `apps/invoice/tasks.py:21` says `autoretry_for=(Exception,)`; the decorator has
  none, so an error of the task's own read of the order ends it although retries
  are left.
- `apps/order/views.py:231` documents `cart/stale-version` as an answer; it never
  occurs (`StaleVersionImpossible`).
- `docs/diagrams/payment-flow.md:40` fails a payment whose retries are used up;
  the code leaves it open, so `SettledOrGivenUp` has the second case.
- `apps/payment/services.py:208` logs an "idempotent skip" but goes on to pay the
  order. With one registry for all workers this is harmless, as `LedgerImplemented`
  proves; workers with different registries, as during a deployment, could pay an
  order whose payment has FAILED.
- `apps/invoice/models.py:67` promises an invoice for every paid order; a process
  that dies between the payment's commit and its `on_commit` hook never sends the
  task, and the re-delivered one stops at the settled status. `PaidIsPrinted` names
  this as the one way to lose an invoice besides a failed task. Checkout's own hook is the same: a 202 means
  the task was sent (`Accept` of `AtomicCheckout`), but a replay of an order whose
  hook was lost answers 202 too and sends nothing.

Carts:

- `apps/cart/models.py:44` calls a checked-out cart effectively immutable; no
  mutator looks at the status, so a request that overlaps the checkout still
  edits the closed cart and answers 200 (`LateEditsOverlap`). The order is not
  touched.
- `apps/cart/views.py:755` documents 409 for the same key with a different
  request; the fast path of that view answers any request whose key has a
  record, before it computes a hash. Only a request that meets its twin after
  the fast path can be a conflict (`ReplayOrConflict`).
- `apps/cart/views.py:670` uses the cart's selected address and method; the ones
  used are those read when the cart was resolved, an edit in between is not seen.
- `apps/cart/services.py:94` calls the GET-INSERT race impossible to lose; when
  the winner's cart is checked out before the loser's second GET, the
  IntegrityError is the answer (`LoserFindsWinner`).
- `apps/cart/services.py:182` writes only the supplied business fields; all three
  are assigned, those left out as blanks.
- `apps/cart/models.py:99` has the service layer enforce one currency per cart;
  it copies the product's without comparing.
- `apps/cart/models.py:16` and `docs/architecture.md:171` say checkout may
  re-validate prices and recompute discounts; it uses the snapshots, so a discount
  can exceed the subtotal after lines were removed. The payable amount is clamped
  and the coupon's minimum is checked again (`OrdersAddUp`).
- `README.md:118` says stale cart entries are never served after a write; a read
  that overlaps the write stores the old cart after the DEL, which is the third
  cause of `StaleNeedsOverlap`, and stays until the TTL.

Coupons, addresses, tenants:

- `docs/architecture.md:371` calls the coupon lock order consistent; it is not
  (`OppositeOrdersDeadlock` names the two orders), and `EveryRequestEnds` holds
  because Postgres breaks the deadlocks.
- `apps/coupon/models.py:85` lists constraint keys (`cart_minimum_amount` and
  others) for which no handler is registered; a coupon with one of them is always
  refused.
- `apps/addresses/services.py:63` says a row lock keeps a concurrent request from
  inserting a second default; with no default to lock it does not, and the second
  INSERT fails on the unique index (`DefaultKept` holds thanks to the index).
- `apps/tenant/middleware.py:16` says the admin does its own scoping; no admin
  class overrides its queryset, so a page of a tenant's rows ends in
  `TenantContextMissing` (the `exempt` jobs of `TenantRequests`). For the same
  reason `apps/coupon/admin.py` cannot deactivate a coupon; `Deactivate` of
  `Coupon` is an operator's UPDATE of the row (`apps/coupon/models.py:54`).

## 6. Not modelled, and why

- Currency: copied from the product to the line and the order, compared nowhere.
- A clear of a sentinel is by key, as in the code; request hashes are compared
  by what is hashed, collisions are not.
- Gateways are external: their answer is any answer.
- Which coupons a checkout's cart carries is chosen when it is read, not followed
  from apply and remove: `Checkout` has their rows, `Coupon` their contents.
- The ownership check of `apps/order/views.py:282`, optional and read-only.
- That an address committed by add-address reaches the cart: it may not
  (`apps/cart/views.py:525`), and no document promises it.
- Catalog: its rows are the stock of `Checkout` and the prices of `ActiveCart`;
  it has no operation of its own.
- Logging, metrics, serializers, OpenAPI, admin and settings keep no state a
  property could be about.

## 7. Plan

The components that keep state are modelled. What could follow, in order:

1. Larger instances: two coupons of one type in `shopping`, two limits in
   `isolation`, a second tenant's book under the same failure.
2. The selections of a cart that change between the view and the checkout
   (`apps/cart/views.py:876`): a property needs a document that says which
   address should win.
