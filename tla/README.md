# NeoStore in TLA+

A verification development for NeoStore, an online shop: a FastAPI backend on
SQLAlchemy (async) and PostgreSQL, an `arq` worker, a Next.js storefront and an
admin dashboard. The modules here model the parts of the backend in which
several requests, failures or restarts meet; TLC checks them on small instances
and TLAPS proves the main results for every instance. Paths below are relative
to `src/backend/app` unless they say otherwise.

## 1. The system

### Inventory of components

| Component | State it keeps | Operations | What makes it correct |
|---|---|---|---|
| Orders (`domain/order`) | order rows: status, lines, unique `idempotency_key`; event rows | `checkout`, `pay`, `transition` (cancel, fulfil, complete, refund) | the status moves only along `ALLOWED_TRANSITIONS`; one order per key; a paid order was charged |
| Inventory (`domain/inventory`) | one row per variant: `quantity`, `reserved`; append-only `stock_movement` rows | `reserve`, `release`, `commit_reservation`, `adjust` | never oversold; `reserved` is what unpaid orders hold; movements explain the row |
| Payment (`domain/payment`) | the mock provider's dictionary of intents, in the memory of the API process | `create_intent`, `confirm`, (`refund`, unused) | an unpaid order can be paid; nothing is handed out for a payment that failed |
| Cart (`domain/cart`) | cart row: token, status, expiry; line rows | `create`, `add_line`, `update_line`, `remove_line`, `totals`, `mark_converted` | a cart is sold once and no longer edited; one line per variant |
| Pricing (`domain/pricing`, `domain/currency/money.py`) | none; reads prices, rates, regions | `unit_price`, `calculate` | the total of an order is the sum of its lines, shipping and tax |
| Currency rates (`domain/currency`, `integrations/exchange_rate.py`, `worker.py`) | rate rows with their source (manual, provider, seed-fallback) | `refresh_rates` by the worker and by hand, override, `convert` | a refresh replaces the provider's rates as one; a failed one changes nothing |
| Seed and start-up (`seed.py`, `main.py`, `alembic`, `src/docker-compose.yml`) | none; writes languages, regions, currencies, rates, demo catalog | migrate, seed in one transaction, serve; again at every start of the API | the seed arrives as one or not at all, only adds, and the API comes up in the end |
| Catalog (`domain/catalog`) | products, variants, prices, translations, categories with materialised paths | CRUD, `create_category`, listing by category | a card opens the product it shows; a patch that was answered stands; every variant has stock; a category is found under its ancestors; orders survive catalog edits |
| Languages, regions (`domain/i18n`, `domain/region`, `core/deps.py`) | reference rows | negotiation with fallback | a request is always answered in a hosted language and a chargeable region, the same one at every look |
| Storefront (`src/storefront`) | cart token in the browser, one idempotency key per checkout page | add to cart, checkout, pay | a shopper whose answer was lost can still finish |
| Admin dashboard (`src/admin`) | tokens | calls of the admin routes | none of its own |
| Authentication, error mapping (`core`) | none | token checks, exception to response | none of its own |
| Database plumbing (`db`) | one session and transaction per request | commit, rollback on close | nothing of a failed request remains |
| Deployment (`src/docker-compose.yml`, `src/Caddyfile`) | | starts one API process, one worker, PostgreSQL, Redis | |

### How they interact

A request is served by one coroutine of the API process with one database
session, thus one connection and one transaction (`db/session.py:36`). The
transaction commits where the route says so (`api/v1/store/checkout.py:32`,
`api/v1/admin/orders.py:57`); in every other case closing the session rolls it
back. `checkout` calls the cart service, pricing, the inventory (once per line)
and the payment provider; `pay` calls the provider and then the inventory;
`transition` calls the inventory when the target is `cancelled`. There are no
messages between the components: they share the database, and the provider's
dictionary.

### What is hard in it

PostgreSQL runs the transactions at READ COMMITTED, so what protects state is
only what the code locks:

* Orders and carts are read **without a lock**, once per request; every later
  look at them (`assert_transition`, the cart's status) sees that first read.
* Inventory rows are read `FOR UPDATE` and stay locked until the transaction
  ends. A checkout locks them in the order of the cart's lines, a payment or a
  cancellation in whatever order the lines of the order were loaded
  (`Order.lines` has no `order_by`), so two requests can wait for each other,
  even for two orders of one basket; PostgreSQL then aborts one.
* `UPDATE orders` is emitted by autoflush, before the first `FOR UPDATE` of the
  request. It takes the order's row lock, but its `WHERE` names only the primary
  key: it does not notice that another request has moved the order on.
* The provider's dictionary is **not transactional**: an intent or a
  confirmation survives a rollback, and all intents are lost on a restart.
* `release` and `commit_reservation` clamp at zero, so that a unit released twice
  leaves no trace in the row.
* A product is deleted with its stock, through cascading foreign keys, whatever
  unpaid orders hold of it; the lines of an order have no key to the catalog.
* The API container migrates and seeds **at every start**, against a catalog that
  administrators have edited since; whatever fails in the seed keeps the API down.
* The tests run on SQLite, which enforces no foreign key: creation order, drop
  order and cascades are exercised on PostgreSQL only.

The hazards that follow from this are listed in `PROJECT.json`, each at its line
with the properties that watch it.

## 2. The modules

```
OrderStatus   the status machine              Baskets   carts, lines, units, keys
      \__________________________________________/
             |                           |
        StoreLedger  <--refines--   StoreRequests        (EXTENDS both)
             |                           |
        Withdrawals                StoreInvariant        (EXTENDS StoreRequests)
          /     \                   /          \
         |  MCWithdrawals  MCStoreRequests   StoreRequests_proof
         |                                           |
  Withdrawals_proof                          TakingTurns_proof

CartLines  one cart's lines           Pricing  money arithmetic
    |          \                         |
CartLines_proof  MCCartLines         CheckoutPrices      (EXTENDS Pricing)
                                      /          \
                     CheckoutPrices_proof    MCCheckoutPrices

Rates  the stored rates and their jobs
    |          \
Rates_proof  MCRates

Schema  tables and keys   Locales  negotiation
     \____________________/
               |
            Catalog   administrators and visitors
               |
            Startup   the API container
             /     \
     Startup_proof  MCStartup
```

| Module | Contents |
|---|---|
| `OrderStatus` | `ALLOWED_TRANSITIONS` of `domain/order/state_machine.py` as a function, and `Settled`, the statuses of an order that was paid. |
| `Baskets` | Carts and the lines checkout reads from them, the checkout attempts (`Keys`: one idempotency key each, of one cart), and the units of a variant in an order. A unit is a triple `<<key, line, n>>`, so "how many units" is the cardinality of a set and needs no recursive sum. |
| `StoreLedger` | What the shop promises: checkout, payment, cancellation, further moves and corrections as **atomic** steps over the orders, the carts and the units on the shelf. No sessions, locks, failures or provider. |
| `StoreRequests` | The same operations as the code runs them: sessions, transactions, row locks, stale reads, the provider, failures, deadlock victims, restarts. The core of the project. |
| `StoreInvariant` | The inductive invariants of the proofs, as formulas TLC checks too. |
| `CartLines` | The lines of one cart, edited by overlapping requests next to a checkout of the cart: rows, their locks, what each request read. |
| `Pricing` | `round_money`, `convert`, `unit_price` and the totals of `calculate`, on whole numbers. |
| `CheckoutPrices` | The cart page and checkout price the lines of a cart one query at a time, while prices and rates change. |
| `Rates` | The stored exchange rates under refreshes, overrides and the seed of a starting API, row by row, with a provider that may fail. |
| `Withdrawals` | The ledger in a shop that also deletes products: which variants still exist, what each order bought, and who was charged. |
| `Schema` | Every foreign key of the models; the migration's `CREATE TABLE`s and `DROP TABLE`s in their order; what a deletion sweeps along. |
| `Locales` | Negotiation of language and region, and the choice of a translation, as operators. |
| `Catalog` | The tables of the catalog with their constraints, the requests of administrators (a PATCH in two steps), and what visitors find. |
| `Startup` | The life of the API container: migrate, seed step by step in one transaction, serve, die, start again. |
| `*_proof` | Theorems and their proofs (section 5). |
| `MC*` | The instances TLC runs: baskets, attempts, stock, corrections. |

### StoreRequests and the code

State:

| Variable | In the code |
|---|---|
| `orderStatus[k]` | committed `orders.status` of the order with `idempotency_key` k; `NoOrder` when there is none. An attempt without a key is one that is never repeated. |
| `cartStatus[c]` | committed `cart.status`. `abandoned` is assigned nowhere. |
| `stock[v]`, `draft[v]` | the inventory row of v: its committed version and the version its lock holder has flushed. The row carries the sums of its `stock_movement` rows by reason (`reserveLog`, ...). |
| `itemLock`, `orderLock` | the transaction that holds the row lock |
| `intents`, `charged` | `MockPaymentProvider._intents`, and the keys it has answered `succeeded` for |
| `req[s]` | what the coroutine holds in local variables: its order or attempt, the target status, the status it **read** (`snap`), the line it is at, and whether it is about to ask the provider (`confirm`), to flush the order (`update`) or to walk over the lines (`stock`). `walk` is the order it goes over the lines in: that of the cart (`ByPosition`) for a checkout, any (`Walks`) for a payment or a cancellation |

Actions. A request is split where another transaction can come between: at every
statement that can wait for a row lock, and at the provider's answer. Between two
such points nothing another request does can matter, as it works on rows it has
locked or on values it has already read.

| Code | Actions, in order |
|---|---|
| `OrderService.checkout` + commit | `BeginCheckout`, `ReserveLine` for each line, then `PlaceOrder`; or `ReserveFails` (INSUFFICIENT_STOCK), `KeyTaken` (unique index) |
| `OrderService.pay` + commit | `BeginPay`, `Confirm` or `ConfirmFails`, `LockOrder` (autoflush), `CommitLine` for each line, `CommitMove` |
| `OrderService.transition` + commit | `BeginMove`, `LockOrder`, `ReleaseLine` for each line if the target is `cancelled`, `CommitMove`. The target `paid` goes through `BeginPay` as in the code. |
| `InventoryService.adjust` + commit | `Adjust`: one lock, held for one statement |
| session closed without commit | `Rollback`, within each failing action |
| PostgreSQL | `CanLock`, `Blockers`, `Deadlocked`, `DeadlockVictim` (external) |
| restart of the API | `Restart`: open transactions roll back, `intents` is emptied |

`Confirm` charges before the status is looked at, as `pay` does
(`domain/order/service.py:204` against `models.py:61`): a payment of a cancelled
order is charged and then refused. A request that is refused on its first reads
(an unknown cart, a converted cart, an order found under the key, an illegal
target) changes nothing and has no action.

Simplifications, each of which loses no behaviour the properties speak about:

* The lines of a cart are fixed here; editing them next to a checkout is
  `CartLines`, and what they cost is `CheckoutPrices`.
* Carts do not expire and orders have no prices, addresses or events.
* A variant without an inventory row is one whose row has no units: `reserve`
  fails on both, and `ensure_item` creates exactly that row.
* `set_email` and `mark_converted` flush the cart after the order was inserted;
  only the commit follows, so they are part of `PlaceOrder`.
* The order row of a checkout is inserted by the flush after the last line, so a
  second checkout under the same key waits for the index entry and fails when the
  first commits: `KeyTaken`. If the first rolls back it proceeds, as here.
* `adjust` creates a missing row; a racing double insert of that row fails on its
  unique key and rolls back, and is not shown.

### CartLines and the code

| Variable | In the code |
|---|---|
| `status`, `lines[id]` | the cart row's status and the committed `cart_line` row with primary key id; `NoLine` when there is none |
| `lineLock[id]` | the transaction that has updated or deleted the row |
| `req[s]` | the request: `snap` is the cart as the session loaded it, `row` what it is about to write to line `id` |
| `ordered` | the lines of the order |
| `removed`, `overlapped` | history, for the properties only |

`BeginAdd`, `BeginUpdate`, `BeginRemove` and `BeginCheckout` are the first reads
(`get_by_token` with the lines); `FindNone`, `FindOne`, `FindMany` are the second
look of `add_line` (`find_line`, a statement of its own, so that another commit
can come in between); `LockLine` and `LineGone` are the flush, `CommitEdit` and
`PlaceOrder` the commit, and `Abandon` every way to end without effect. A line
that came with the cart keeps the quantity it came with, even when `find_line`
selects it again, because the session does not overwrite what it has loaded
(`Known`): this is how an addition is lost. An id is drawn once (`uuid4`), and
`MaxQuantity` bounds quantities, `LineIds` the number of lines ever inserted; when
both are used up and the cart is sold the system really stops, so the run does
not check for deadlock.

### CheckoutPrices and the code

Amounts are whole numbers of 1/10000, which is what the database stores
(`Money` is `Numeric(14, 4)`); `Quantum` is the smallest unit of the cart's
currency in that measure, so that it covers currencies with 0, 2 and 3 decimals.
A request loads the cart and its variants, with their base prices, at `Begin`;
then each line is priced by up to three queries, one step each: for the explicit
price, for the rate, and for the inverse rate (`look`). A query that finds a price
ends one round of the loop of `calculate` (`PriceLine`), or of the loop in
`checkout` that builds the order lines and asks for the price **again**
(`CopyLine`); one that finds none is followed by the next (`LookOn`). The price
stored on the cart line takes part in none of this and is no variable.
`priced` and `copied` are the running sums after each line, starting from zero.
`SetPrice`, `SetBase` and `SetRate` are the committed requests of an
administrator and the refresh of the worker. `drifted` and `stale` are history.
`NoRate` is `EXCHANGE_RATE_UNAVAILABLE`.

Simplifications: the products of the converted variants share one base currency;
the tax rate, the shipping thresholds and the lines of the cart are fixed; a
division is exact before it is rounded (the code keeps 28 digits); prices and
rates are not negative (the routes accept any `Decimal`; zero is included).

### Rates and the code

| Variable | In the code |
|---|---|
| `edition` | how often the provider has published; a refresh gets all listed rates of one edition |
| `rows[q]`, `draft[q]`, `lock[q]` | the `exchange_rate` row of the base and q: committed, as its lock holder has flushed it, and that holder |
| `req[j]` | the job: waiting for the provider (`fetch`), or before a query of the loop in `seed_exchange_rates` (`check`), before the query of `upsert_rate` (`look`) or before its flush (`write`); `seen` is the row as loaded |
| `serving` | the API has finished `python -m app.seed` and accepts requests |
| `seeded` | a seed has committed, and with it the currency rows: until then `refresh_rates` passes over every quote for everybody but the seed itself (`Known`, `SkipUnknown`) |
| `overlapped` | history |

A rate is told apart by its origin only. `Flushed` is the point at which the
object mapper matters: the UPDATE names the columns that differ from what the
session loaded, so a row can end with the rate of one job and the source of
another. `seed_exchange_rates` looks a missing row up twice (its own query, then
that of `upsert_rate`): `CheckMissing`, then `Look`. `Abandon` is every failure
of a job, among them an answer of the provider that is not JSON, which is not
caught. `BeginOfflineSeed` is `--skip-rates`, which docker-compose.yml does not
use. One refresh of the worker runs at a time: arq starts it at
fixed hours and ends it after two minutes (`worker.py:66`, `:77`).

Simplifications: one base currency; the provider answers with the same currencies
each time (one that it drops would keep the rate of an older answer, so `OneEdition`
speaks of answers that drop none; `Startup` has answers that differ); an administrator
enters one rate, which differs from every
other; currencies are never removed.

### Withdrawals and the code

| Variable | In the code |
|---|---|
| `listed` | the variants that exist, each with its inventory row (`add_variant` calls `ensure_item`) |
| `ordered[k]` | the variants named by the lines of the order of k; the lines stay when a variant goes |
| `charged` | the keys whose payment the provider has confirmed |

`Withdraw` is `DELETE /admin/products/{id}`: the cascades take the inventory rows
and the cart lines, so that a later checkout of the cart no longer sees them
(`Basket`), and leave the orders. `PayListed` and `CancelListed` need the
inventory row of every line (`Deliverable`), because `commit_reservation` and
`release` raise when it is missing. A payment is two steps, as nothing covers both:
`Charge` is the confirmation by the provider (`domain/order/service.py:204`), of an
order in whatever status, and `PayListed` the commit. Between the two the process
may die, the transaction may lose a deadlock or its stock row, or the order may be
cancelled; then the money is taken and the order is as it was, and a later payment
may still commit. `MoveOn` and `Correct` are those of `StoreLedger`. Other steps are
atomic as there; a deletion that overlaps a checkout, the loss of the provider's
intents on a restart (after which `Charge` would fail; that an order is never
charged again is possible here anyway) and the deletion of a product whose variants
have no stock row are left out.

### Schema, Locales and the code

`ModelKeys` is written from the `ForeignKey`s of the models, domain by domain, and
`Creation` and `DropOrder` from the migration, statement by statement; `SchemaAgrees`
compares the two. A key is a child table, a parent table and what becomes of the
child (`CASCADE`, `SET NULL`, `NO ACTION`). `SweptBy` and `InTheWay` are
PostgreSQL's reading of them and decide in `Catalog` what the deletion of a
product takes along, so that a key that lost its `CASCADE` shows there too.
`SweptBy` follows the cascades for four generations, and `SweepsAreWhole`, a part
of `SchemaAgrees`, says that no chain is longer.
Columns and indexes are left out; the repository's tests compare those.

`Locales` takes the rows of `locale` and `region` as sets. Tags are model values
or strings; `BaseOf` and `StartsWith` stand for splitting at `-` and for `ILIKE
'prefix%'`. Letter case and blanks in a header are not told apart.

### Catalog, Startup and the code

| Variable | In the code |
|---|---|
| `db` | the committed database: which tables exist, the reference rows, the products (status, slug in each language, SKUs), categories (parent, path, slugs), their links, and the SKUs that have an inventory row |
| `edit[s]` | a PATCH of a product in service: what it read (`seen`) and what it was sent |
| `requests` | how many requests of administrators there were, bounded by `MaxRequests` |
| `phase`, `step` | what the container does, and which step of `run_seed` is next |
| `view` | the database as the transaction of the seed sees it |
| `ended` | how the last process ended |

| Code | Actions |
|---|---|
| `create_product` with `add_variant`, `delete_product`, `create_category`, `upsert_category_translations`, each with its commit | `CreateProduct`, `DeleteProduct`, `CreateCategory`, `RetitleCategory` |
| `update_product` + commit | `BeginPatch` (the read), then `CommitPatch`, or `RefusePatch` when the flush meets a missing row or a taken key |
| `alembic upgrade head`, `alembic downgrade` | `Upgrade`, `Downgrade` (by hand, as `src/docs/RUNBOOK.md:73` has it) |
| `python -m app.seed` | `Seed` once for each function of `run_seed`, and for each category and each product of the loops in `seed_categories` and `seed_products`, with `SeedRates` for the exchange rates, then `CommitSeed`; or `SeedFails` (a constraint), `ProviderGarbled` (an answer that is not JSON) |
| the container dies or is stopped | `Crash`: the open transaction and the requests in service roll back |

A PATCH writes the texts and the status that differ from what it read, as the
object mapper does, so another request's commit in between is kept where the
PATCH does not name it (`Patched`). `Answers` are the sets of currencies that an
answer of the provider may hold a number for: `SeedRates` adds rows for those that
the store has (`WithRates`), or for the fallback table when the provider is
unavailable. An answer that leaves a tracked currency out, or garbles its number, is
a success to the code, and that currency has no rate. `Lawful` and `ReferencesKept` are the unique
and foreign keys that PostgreSQL checks.

Simplifications: a text is told apart by its slug, so a PATCH of a language always
carries one; a PATCH of a category is one step; prices, media, options and
positions are left out; an unknown status is refused before anything happens; ids
are drawn from a finite set, none twice while someone names it, and a request that
needs one waits until one is left (`IdsLeft`; the run has more than it can use).
The API and the seed do not run at the same time (one container, one command).

## 3. The runs

| Run | Question | Instance | Size |
|---|---|---|---|
| `Overlap` | What holds whatever overlaps? `NeverOversold`, `NoStrandedStock`, `SettledIsCharged`, `EveryMoveIsBooked`, `DeadlockNeedsCrossing`, and the inductive invariant `OverlapInv`, of which `StrandedInv` and `TypeOK` are parts. Does every request end? `EveryRequestAnswered`, under fairness | 2 sessions, 2 attempts on 1 cart (two pages of it) with two variants, 2 units of a and 1 of b, corrections of -1, lines paid and cancelled in any order, restarts | 69 k states, ~50 s |
| `OnePerCart` | What holds as long as no two requests of one cart overlap (`OverlapAllowed = FALSE`)? `ReservedIsHeld`, `SoldOnce`, `OneOrderPerCart`, `LedgerExplainsStock` (the equations of the inductive invariant `ExactInv`), `LawfulMoves`, refinement of the ledger | 3 sessions, 4 attempts on 3 carts that compete for 2 units of a and 1 of b, corrections of -1 | 66 k states, ~30 s |
| `CartLines` | What do overlapping edits of a cart leave? `RemovedStaysRemoved` always; `OneLinePerVariant`, `SoldIsFrozen`, `EditsTakeEffect` until requests overlap | 2 sessions, 2 variants, 3 line ids, quantities up to 2 | 67 k states, ~10 s |
| `CheckoutPrices` | Do totals add up, and do order and order lines agree? `TotalsAreRight`, `LinesAddUp` | two lines (2 and 5 pieces), one variant in the cart's currency and one converted, two prices, rates zero and 7.25, tax 7%, shipping waived above 100.00 | 1 019 k states, ~40 s |
| `Rates` | What do refreshes, overrides, failures and restarts leave? `ServedWithRates` always; `OneEdition`, `NewestStays` until jobs overlap | two currencies listed in opposite orders and one that the table leaves out, one administrator, the worker, the seed, 3 editions | 758 k states, ~30 s |
| `Withdrawn` | What is left when products are deleted while orders hold their units? `ListedBalanced`, `MoneyForGoods`, `StuckForGood` | 3 carts, 4 attempts, one product of one variant and one of two, corrections up and down | 267 k states, ~30 s |
| `Startup` | Does the container come up, and what do administrators and visitors find? `SeededAsOne`, `SeedOnlyAdds`, `ServesInTheEnd`; `SavedStands`, `EveryVariantStocked`, `SubtreeByPath`, `LinkOpensItsCard`; `SchemaAgrees`; `AnsweredInHosted` | 3 requests of administrators, 2 at a time, one seeded product and category, all seeded languages, currencies and regions, answers of the provider with every tracked currency and with too few | 20 k states, ~30 s |
| `RacePayCancel` | expected violation of `ReservedIsHeld` | one line each, 2 sessions | finding |
| `PriceMoves` | expected violation of `CartTotalStands` | that of `CheckoutPrices` | finding |
| `ManualErased`, `FallbackReplaces` | expected violations of `ManualStands`, `StoredStaysPut` | that of `Rates` | findings |
| `SeedStuck` | expected violation of `StartsInTheEnd`, under fairness | that of `Startup`, 2 requests | finding |

Why the bounds are enough. Every check in the code is about one order, one cart
or one row, and every race needs two requests; two sessions show them all, the
third in `OnePerCart` lets two requests compete while a third waits. Two variants
locked in opposite orders are the least that deadlocks: in `Overlap` requests for
the two attempts of one cart do, as payments and cancellations take the lines of an
order in any order, and in `OnePerCart` the checkouts of two baskets that name the
variants in opposite orders. (Two requests for one order do not: the second waits at
the order row, which `LockOrder` takes before any line.) The two pages of `Overlap`
place two orders for one cart, the second once the first is cancelled, which a late
payment of the first may still not have seen; two orders that hold units at the same
time are in `OnePerCart` and `RacePayCancel`, and in the proofs. Stock is chosen so
that some checkouts succeed and some fail in every mix.
Sessions are interchangeable (no action names one), so `AnySession` is a sound
symmetry where nothing but safety is checked; runs with liveness do without it.

In `CartLines` every hazard needs two requests, and three ids let a line be
removed and added again next to another; names are interchangeable, hence the
symmetry. In `CheckoutPrices` two lines are the least that has a query before and
one after a change; the prices are chosen off the cent (a half cent to be rounded
up, a tax that falls between two cents) and so that both sides of the shipping
threshold are met.

In `Rates` the opposite orders let a refresh and a seed wait for each other, two
currencies are the least that can be of two days, and three editions let a job
hold an old one while two newer are published. The table of the code lists every
tracked currency today; the third currency of the instance, which it leaves out,
stands for one that has no row after a seed, as after an answer that lacks it, so that
two jobs can race to insert it (`KeyTaken`).

In `Withdrawn` the product of two variants lets an order lose one of them and keep
the other, and four attempts let a stuck order sit next to orders that are paid,
cancelled and placed after the deletion. The run does not check for deadlock: a
shop that has deleted everything really stops. In `Startup` three requests are a
patch, something that crosses it, and one more that a restart or a visitor then
meets; the payloads and patches rename, hide, shadow and delete the seeded product.
Each step of the seed treats its rows alike, so that one product and one category
are enough to be found, missed and collided with. Of the provider's answers one has
every tracked currency and one lacks two of them and has one the shop does not keep.

`OverlapAllowed` is the one switch. The code never refuses an overlap, so TRUE is
the program; FALSE is the program used one request per cart at a time, and shows
that the overlap is the only cause of what `RacePayCancel` finds.

### Findings

Each violation run states what the repository says of itself, and TLC's
counterexample shows the code doing otherwise; `PROJECT.json` quotes the lines.

* **Pay against cancel** (`RacePayCancel`). Both read the order as
  `awaiting_payment`, both pass `assert_transition`, and each takes the order's
  units out of `reserved`; the second takes those of another unpaid order, or is
  clamped at zero while the movement is booked in full. The order ends in the
  status of the later one, so a cancelled order can become paid.
* **Manual rate** (`ManualErased`): a refresh replaces every rate the provider
  knows, also one entered by hand.
* **Fallback** (`FallbackReplaces`): when the provider is down while the API starts
  **again**, the table of last-resort rates replaces the rates that were stored.
* **Renamed seed product** (`SeedStuck`): the seed looks for its products by their
  slug in the default language only. Once an administrator renames one there, the
  next start inserts it again, meets the SKUs and the slugs of the renamed one,
  and fails; so does every start after it, and the API stays down.

* **Prices that move** (`PriceMoves`): the price kept on a cart line is read by neither
  the totals nor checkout, so a total follows every change of a price or a rate.

Four more places where the models show the code doing less than a document of the
repository says; they have no run of their own:

* A second request under an idempotency key that starts before the first commits is
  answered with an error of the unique index (`KeyTaken`). The design document
  (`src/docs/superpowers/specs/2026-09-15-neostore-design.md:192`) says that the same
  key returns the same order; it does once the first has committed, and nothing is
  left behind before (`NoStrandedStock`).
* `domain/order/models.py:96` keeps the `variant_id` of an order line "for analytics
  only". Payment and cancellation use it to find stock: an order whose variant was
  deleted can be charged, but neither paid nor cancelled (`StuckForGood`).
* A category at depth three names its parent only in its path, so a query by path
  misses it under its root. `domain/catalog/models.py:198` and line 131 of the design
  document mean paths for subtree queries; `SubtreeByPath` stops at two levels.
* Two additions of one variant that overlap insert a line each, and every further
  addition of it to that cart fails (`FindMany`). `src/backend/tests/test_cart.py:52`
  has them merge, one after the other; `OneLinePerVariant` stops where they overlap.

Other behaviour of the code that a reader of the model meets, and that no document
of the repository rules out: two checkout pages of one cart with two keys that
overlap place two orders; a payment whose commit is lost leaves an order that is
charged and unpaid, and may then be cancelled (`Charge`); after a restart the mock
provider knows no intent of the unpaid orders, which can then only be cancelled; an
edit of a cart can overwrite another that overlaps it, or reach a cart that a
checkout is selling; a price that changes during a checkout leaves an order whose
lines do not add up to its subtotal; two overlapping refreshes can leave rates of
two days, because a column that equals what was loaded is not written; a currency
that the provider leaves out has no rate, and no fallback; no job ends an order that
is never paid (the design document plans one,
`src/docs/superpowers/specs/2026-09-15-neostore-design.md:166`); a seeded product that
an administrator deleted is inserted again at the next start; a card in a language
without its own text links by the slug of the default language, and can open another
product that has that slug in the visitor's.

### Fairness

`Fairness` gives strong fairness to `Proceed(s)` and weak fairness to
`DeadlockVictim(s)`. The event loop runs every coroutine that is ready, and
PostgreSQL's lock queue is first come first served, so a session that is granted
the row again and again takes it in the end: strong, as another session may hold
the row in between. A deadlock stays until the detector acts, so weak fairness is
enough for it. Nothing obliges a client to send a request, an administrator to
act or the process to restart.

`Startup` gives weak fairness to the steps of the container (`restart:
unless-stopped` brings it up, and the script goes on by itself) and strong fairness
to the step that asks the provider: the provider may answer garbage any number of
times, but not for good. TLC shows that without that strong fairness
`ServesInTheEnd` fails. A start can always be interrupted, so `ServesInTheEnd` and
`StartsInTheEnd` speak of behaviours in which at last nobody kills the process
(`Undisturbed`); a seed that fails by itself is no such interruption.

## 4. Properties

| Property | Says |
|---|---|
| `NeverOversold` | `reserved <= quantity` in the committed and the flushed row, always |
| `NoStrandedStock` | what is reserved is at most what unpaid orders hold, always |
| `SettledIsCharged` | an order that is or was paid is one whose payment the provider confirmed, always |
| `ReservedIsHeld`, `SoldOnce` | the same to the unit, without overlap on a cart |
| `LedgerExplainsStock` | quantity and reserved are what the movements add up to, without overlap |
| `EveryMoveIsBooked` | every order has its reservation booked once, what is paid or cancelled is booked as such, and no unit moves without a movement, always |
| `DeadlockNeedsCrossing` | a deadlock is over the order of lines and nothing else, always |
| `OverlapInv` | the inductive invariant behind these (section 5), which TLC checks too |
| `OneOrderPerCart`, `LawfulMoves` | one order per cart; the status machine, without overlap |
| `ImplementsLedger` | the requests refine `StoreLedger`, without overlap |
| `EveryRequestAnswered` | no request waits forever |
| `RemovedStaysRemoved` | a removed line is never written back, always |
| `OneLinePerVariant`, `SoldIsFrozen`, `EditsTakeEffect` | additions merge, a sold cart is the cart that was ordered, every edit counts, until two requests of the cart overlap |
| `TotalsAreRight` | rounded amounts add up (`TotalsAddUp`), and tax is rounded once, to the nearest unit (`TaxIsNearest`) |
| `LinesAddUp` | the order's lines add up to its subtotal, unless a price or rate changed during the checkout |
| `ServedWithRates` | the API serves with a rate for every currency that the provider and the table both list, always |
| `OneEdition`, `NewestStays` | the provider's rates are of one answer, and never replaced by older ones, until two jobs overlap |
| `ListedBalanced` | with deletions: reserved is what the unpaid orders hold of each variant still listed, and it is on the shelf |
| `MoneyForGoods` | what was handed out was charged; what was charged and not handed out is on the shelf, for all such orders at once, of every variant still listed |
| `StuckForGood` | an unpaid order that has lost a variant waits for good and keeps what it holds of others |
| `SeededAsOne`, `SeedOnlyAdds` | the seed leaves all of its reference rows or none - of the rates those that no answer of the provider lacks (`Assured`), and no others than the table has; a start changes and removes nothing of the catalog |
| `ServesInTheEnd` | the API comes up, whatever the provider answered, unless the catalog blocks the seed |
| `SavedStands` | a patch answered with success reads as sent unless another changed the product, leaves what it does not name, and brings nothing deleted back |
| `EveryVariantStocked` | inventory rows and variants come and go together |
| `SubtreeByPath` | paths name the subtree of a root, up to two levels |
| `LinkOpensItsCard` | the link on a card opens that product, unless its slug is shadowed |
| `SchemaAgrees` | models and migration have the same keys, with the same fate on deletion, and the migration can be undone |
| `AnsweredInHosted` | every language and region asked for is answered in one of the shop, the same at both looks, and a hosted language as asked |

The conditions "until two requests overlap", "unless a price changed", "up to two
levels" and "unless its slug is shadowed" are not promises of the code: such a
property does **not** catch the hazard it excludes, it says that the hazard is the
**only** way the property is lost. Where a document promises the unconditional form,
a violation run shows it lost (`ReservedIsHeld` with overlap, `CartTotalStands`). For
`OneOrderPerCart`, `OneLinePerVariant`, `SoldIsFrozen`, `EditsTakeEffect`, `LinesAddUp`,
`OneEdition`, `NewestStays`, `SubtreeByPath` and `LinkOpensItsCard` no run does, and
`PROJECT.json` says so at their hazards.

Each has a mutant in `PROJECT.json`: the model with one plausible slip (a stock
check that forgets `reserved`, a rollback that keeps its locks, a payment failure
that is ignored, ...), which TLC must refute. The `Mutant...` definitions stand
before the definition they distort and are used nowhere.

## 5. Proofs

| Theorem | Statement |
|---|---|
| `StoreRequests_proof!TypeCorrect`, `NoOversell`, `SettledOrdersCharged` | `Spec => []TypeOK`, `[]NeverOversold`, `[]SettledIsCharged` |
| `StoreRequests_proof!StrandedInvHolds`, `NoneStranded` | `Spec => []StrandedInv`, `[]NoStrandedStock` |
| `StoreRequests_proof!OverlapInvHolds`, `LedgerMissesNothing` | `Spec => []OverlapInv`, `[]EveryMoveIsBooked` |
| `StoreRequests_proof!DeadlocksCross` | `Spec => []DeadlockNeedsCrossing`, assuming that the variants are finitely many |
| `TakingTurns_proof!SoldOncePerCart`, `MovesAreLawful` | `Spec => []OneOrderPerCart`, `LawfulMoves`, assuming `OverlapAllowed = FALSE` |
| `TakingTurns_proof!ExactRowsHold`, `ReservedForUnpaid`, `PaidUnitsLeaveOnce`, `StockIsExplained` | `Spec => []ExactInv`, `[]ReservedIsHeld`, `[]SoldOnce`, `[]LedgerExplainsStock`, under the same assumption |
| `TakingTurns_proof!RequestsImplementLedger` | `Spec => ImplementsLedger`: the requests implement `StoreLedger`, under the same assumption |
| `Withdrawals_proof!LedgerBalanced` | `LedgerSpec => []ShelfBalanced` |
| `Withdrawals_proof!WithdrawalsTypes`, `ListedStockBalanced`, `MoneyMeetsGoods`, `StuckStays` | `Spec => []TypeOK`, `[]ListedBalanced`, `[]MoneyForGoods`, `StuckForGood` |
| `Withdrawals_proof!UndeletedImplementsLedger` | `Spec /\ [][listed' = listed]_vars => LedgerSpec`, assuming that every variant belongs to a product (`product_variant.product_id` is not null) |
| `CartLines_proof!TypeCorrect`, `NoResurrection`, `LinesMerge`, `SoldCartFrozen`, `EditsCount` | `Spec => []TypeOK`, `[]RemovedStaysRemoved`, `[]OneLinePerVariant`, `[]SoldIsFrozen`, `EditsTakeEffect` |
| `CheckoutPrices_proof!PricesTypeCorrect`, `RoundedTotalsAddUp`, `TaxRoundedOnce`, `TotalsRight`, `OrderLinesAddUp`, `OrderCostsItsQuote` | `Spec => []TypeOK`, `[]TotalsAddUp`, `[]TaxIsNearest`, `[]TotalsAreRight`, `[]LinesAddUp`, `[]QuoteHonoured` (defined with the proof: an order costs what the cart page showed if nothing changed since, the half of the promise that `PriceMoves` leaves standing) |
| `Rates_proof!RatesTypeCorrect`, `NeverWithoutRates`, `RatesOfOneAnswer`, `RatesGetNewer` | `Spec => []TypeOK`, `[]ServedWithRates`, `[]OneEdition`, `NewestStays` |
| `Startup_proof!TypeCorrect`, `VariantsStayStocked`, `PathsNameSubtree`, `CardsOpenTheirProduct`, `MigrationIsTheModels` | `Spec => []TypeOK`, `[]EveryVariantStocked`, `[]SubtreeByPath`, `[]LinkOpensItsCard`, `[]SchemaAgrees` |
| `Startup_proof!SeedIsAtomic`, `SeedKeepsTheCatalog`, `PatchesStand`, `AlwaysAnswered` | `Spec => []SeededAsOne`, `SeedOnlyAdds`, `SavedStands`, `[]AnsweredInHosted` |

They hold for any carts, lines, keys, sessions, stock and corrections, under
`BasketAssumption` (lines are sequences of positive quantities of known variants,
keys belong to carts, keys are finite), `RequestAssumption` (the dummy session is
no session; stock is natural), `LedgerAssumption`, `CartAssumption` (line ids are
finite), `PricingAssumption` (precision and scales are positive, tax and shipping
natural), `ProductAssumption` (products have known variants), `PricesAssumption`
(prices and rates are natural, the cart has a line), `RatesAssumption` (the lists
name tracked currencies, the worker and the seed are no administrators),
`CatalogAssumption` (payloads and patches carry a status that exists, the bound on
requests is natural) and `SeedAssumption` (the seed has a category; its products
have a status). `DeadlocksCross` alone assumes that the variants are finitely many.
Both values of `OverlapAllowed` are covered, except by the theorems
of `TakingTurns_proof`, all of which fail when requests of one cart overlap.

The argument. `NeverOversold` is nearly inductive: a reservation is made against
the latest version of the row under its lock; it needs only that a row nobody
holds has one version (`LockStep`). `SettledIsCharged` needs `ChargeInv`: a
request that has passed the provider has its key in `charged`, and so has one
whose stale read showed a settled order.

`NoStrandedStock` is the deep one, because overlapping requests do release and
commit units twice and the clamp hides it. What saves the bound is that every
slip errs towards *less* reserved stock. `StrandedInv` says why:

* `SnapshotInv`: a stale read is stale in one direction, since an order that has
  left `awaiting_payment` never returns to it.
* `LockInv`: two-phase locking; a session holds every row it wrote, and a row
  nobody holds has one version.
* `DraftInv`: a row under a checkout exceeds what unpaid orders hold by at most
  the lines walked; a row under a payment or cancellation is below it by at least
  the lines walked, unless another request has already taken the order away, and
  then it is not above it.

The steps that matter are `WriteStep` (a line is moved), `PlaceStep` (the lines
walked become the lines held) and `MoveStep` (the lines walked cease to be held).
Counting is done in `Baskets_proof`: the units of one more line, and of one more
order, as cardinalities of finite sets.

`EveryMoveIsBooked` is what remains of the exact ledger when requests overlap: a
race books too much, never too little. It needs three more invariants, and they
make up `OverlapInv`:

* `HeldByWalk`: who holds an inventory row has walked over a line of its variant,
  and who holds an order row is walking over the lines of that order. Locks are
  taken in no other way and left behind by nobody (`HeldStep`).
* `BookedInv`: the draft of a row is what was committed, moved by at least the
  lines its holder has walked, and its logs by exactly those. The clamp enters
  here, as the `>=`.
* `SettledBooked`: there is a set of orders whose units are booked as committed and
  which contains every settled order and every order that a request in service has
  seen settled. It is needed because the commit of a further move, to `fulfilled`
  say, restores a settled status to an order that a late cancellation has just
  overwritten, and books nothing itself.

A commit then publishes the bookings of a whole basket (`PublishedBooked`,
`BookedSums`), for whichever order of the lines was walked: what matters of the
walk is that it is a bijection (`Walked`, `WalkedNext`).

`DeadlockNeedsCrossing` needs `HeldByWalk` only. In a deadlock every request waits
for a row that another one holds (`BlockerHolds`); for an order row it cannot be,
as the holder would itself be walking over its lines and so wait for a variant
(`WaitsForItem`). If nobody waited for a variant ranked below one it holds, each
would wait for a variant ranked below the one its blocker waits for
(`WaitsHigher`), and among finitely many ranks one is the greatest (`GreatestOf`,
from the well-foundedness of the natural numbers). Hence the assumption that the
variants are finitely many, which a rank in `1 .. Cardinality(Variants)` presumes.

`OneOrderPerCart` and `LawfulMoves` rest on `TurnInv`: when the requests of a cart
take turns, no two of them are in service, so what one has read of its order is
what is (`CalmStep`, `BeginTurn`, `PlaceTurn`, `MoveTurn`); a checkout in service
has a cart that is not sold, and a cart that has an order is converted. A commit
then moves the order from the status that was checked against
`ALLOWED_TRANSITIONS`, and the second checkout of a cart finds it converted.

The other theorems of `TakingTurns_proof` rest on `ExactInv`, which adds what the
rows are: `MovedInv` says that a row under lock is the committed one, moved by
exactly the lines its holder has walked. So a payment or a cancellation finds at
least its own units in `reserved` (they are those of its order, which nobody else
can have taken: `OwnOrder`), and nothing is ever clamped (`MovedWrite`). A commit
then publishes each row moved by all that the basket needs of it (`Published`,
`CommitEffect`), which is what the order brings to, or takes from, the unpaid and
the settled units (`UnitsMove`); the three equations are kept as one
(`CommitExact`, `AdjustExact`). `TurnInv` and `MovedInv` are indispensable: the
equations alone speak of committed rows and say nothing of a request halfway.
The refinement follows step by step: `PlaceOrder` implements the ledger's sale,
`CommitMove` its payment, cancellation or further move, by `Published` and the
truth of what was read (`PlaceImplements`, `MoveImplements`, `AdjustImplements`),
and every other step is a stutter (`LedgerStep`).

`CartLines` rests on two invariants. `WritersApart`: whoever is about to commit a
write holds the row and the row exists, and an id about to be inserted is in use
nowhere; this alone gives `RemovedStaysRemoved`. `Alone`: as long as nothing has
overlapped one request at most is in service, and what it read is what is.
`EditsTakeEffect` needs a third, `Counted`: a request about to write has in hand
the units of its variant it read, plus or set to what was asked. With one line per
variant the units in the cart are the quantity on that line (`UnitsOfVariant`, a
cardinality), before the commit and after it (`EditCounts`).

`CheckoutPrices` has an arithmetic half and a behavioural half. Rounding an
amount that is already whole units of the currency does nothing
(`RoundMoneyExact`), hence sums of rounded parts are whole and the last rounding
of the total is idle. For the behaviour, `Steady` says that a request during
which nothing changed has gone through exactly the sums of the current prices
(`Running`), and `Quoted` that the totals shown come from such sums and that the
request now in service is on the way to the same ones. That two readings agree is
thus an induction over the steps of the second reading, one line at a time, and
not one over the length of the cart, which this prover could not do. `Quoted`
quantifies over all sequences of numbers, so TLC does not check it.

`Rates` rests on `Base`: types, one version of a row that nobody holds, and
`Loaded`, that a row once loaded is still there when it is written, so that the
column-wise UPDATE leaves a whole row. `Covered` then says that each currency of
both lists is still to be walked by the seed, which passes over none (`Known`), is
stored, or is held by it;
`Solo`, that a job which has been alone writes what it means to (`Flushed` has no
effect when the row loaded is the row found) and holds every listed currency that
it has already walked, so that its commit replaces the provider's rates as one.
`Recent` adds that such a job has rates at least as new as all that are stored,
since it asked the provider when nothing else was under way; hence `NewestStays`.

`Withdrawals` rests on `WithdrawalsInv`: types, `ListedBalanced`, that settled orders
were charged and charged ones exist. `MoneyForGoods` follows from it: orders that
were charged and not handed out are among the unpaid ones (`Owed`), whose units
`ListedBalanced` finds on the shelf, all at once. The units of an order are counted
with the lemmas of `Baskets_proof`, an order joining the holders of the variants it
has bought (`HolderJoins`) and leaving them (`HolderLeaves`); that a stuck order
stays stuck follows because nothing lists a variant again. As long as nothing is
deleted, every order holds all that its basket names (`WholeBaskets`), so that each
step is one of `StoreLedger` and a charge is none (`UndeletedStep`): both
refinements meet in one atomic ledger.

`Startup` rests on `IInv`. `DbInv` holds of the committed database and of the
database as the seed sees it: the unique and foreign keys hold, the inventory rows
are those of the variants, and the path of a category is that of its parent with
itself appended (what an administrator may send and what the seed sends are treated
alike, as `Created` and `CategoryAdded`). `EditsInv` says that a PATCH has read
what is, unless another request has changed the product since. `PhaseInv` is the
atomicity of the seed: the reference rows are all there or none is, and before step
n of the transaction exactly those of the earlier steps have been added to what was
committed (`SeededUpTo`), the catalog only extended (`Extends`); of the rates, which no
fixed set of rows describes, it says that the assured ones are there after their
step and that only those of the table ever are (`RatesThere`). It is needed
because `SeedOnlyAdds` and `SeededAsOne` speak of the commit, which publishes what
many steps have written. Of the cascades the proof needs one fact only: that the
deletion of a product takes the inventory rows of its variants along
(`VariantSwept`), which is read off `MigratedKeys`. `SchemaAgrees` adds a
comparison of two written lists to the part of `DbInv` that says that a database is
migrated in full or not at all. The lists are taken apart table by table (the keys
of each are those of the models), the drops are in order because each child stands
before its parents in `DropOrder`, and no cascade is longer than `SweptBy` follows,
because cascading keys chain at most three deep (`ChainsAreShort`).

Only model-checked:

* `EveryRequestAnswered` and `ServesInTheEnd`: liveness, which this prover does not
  do. `DeadlockNeedsCrossing` is the safety half of the first.

## 6. What is left

In this order.

1. `StoreRequests` next to deletions of products: the overlap of a deletion with a
   checkout, which `Withdrawals` leaves out.
2. Proof of what the violation runs leave standing: which of the properties that
   need `~overlapped` hold of a cart or a currency whose own requests do not
   overlap, whatever others do.

### Not modelled

* **Storefront** (`src/storefront`): pages that keep a cart token and one key per
  mount. What they can do to the shop (repeat a request, lose its answer, open a
  second page) is a client of `StoreRequests`, whose sessions serve any request at
  any time; the pages' own state and rendering are TypeScript of the browser.
* **Admin dashboard** (`src/admin`): a client of the admin routes with no state but
  its tokens.
* **Authentication and error mapping** (`core/security.py`, `core/errors.py`):
  stateless; a refused request changes nothing, as in every model here.
* Product options, media, positions, paging, addresses, order numbers and events:
  data that no decision of the code depends on.
* Proxy, images, probes and Redis: configuration.
