--------------------------- MODULE StoreRequests ---------------------------
(***************************************************************************)
(* The HTTP requests that place orders, pay them, move them on and correct *)
(* stock, as they run concurrently in one API process.  Every request is   *)
(* one database transaction at READ COMMITTED: it reads its order and its  *)
(* cart once, without a lock, and locks (FOR UPDATE, or by the UPDATE that *)
(* autoflush emits) only the rows it writes, one at a time, until it       *)
(* commits or rolls back.                                                  *)
(*                                                                         *)
(* Of a row under lock there are two versions: the committed one (stock)   *)
(* and the one its holder has written (draft).  Order and cart rows are    *)
(* written by the last statements of a transaction, so their new version   *)
(* appears with the commit.                                                *)
(***************************************************************************)
EXTENDS Baskets, Integers, Functions, OrderStatus

CONSTANTS
    Sessions,       \* requests in service at a time, one connection each
    NoSession,      \* the holder of a row that nobody has locked
    InitialStock,   \* units on hand when the store opens
    Deltas,         \* the corrections an administrator may enter
    MaxStock,       \* bound on the units on hand, reached by corrections
    OverlapAllowed  \* may a request begin while another one of the same
                    \* cart is in service?  The code never refuses it.

ASSUME RequestAssumption ==
    /\ NoSession \notin Sessions
    /\ InitialStock \in [Variants -> Nat]
    /\ Deltas \subseteq Int
    /\ MaxStock \in Nat
    /\ OverlapAllowed \in BOOLEAN

VARIABLES
    orderStatus,  \* committed status of the order of each key, or NoOrder
    cartStatus,   \* committed status of each cart
    stock,        \* committed inventory row of each variant
    draft,        \* latest version of the row, committed or not
    itemLock,     \* holder of the row lock of each inventory row
    orderLock,    \* holder of the row lock of each order row
    intents,      \* keys whose payment intent the provider remembers
    charged,      \* keys whose payment the provider has confirmed
    req           \* the request each session serves

vars == <<orderStatus, cartStatus, stock, draft, itemLock, orderLock,
          intents, charged, req>>

-----------------------------------------------------------------------------
(* Inventory rows: domain/inventory.  The logs sum up the stock_movement   *)
(* rows of the variant, by reason.                                         *)

InventoryItem ==
    [quantity : Nat, reserved : Nat,
     reserveLog : Nat, releaseLog : Nat, commitLog : Nat, manualLog : Int]

NewItem(quantity) ==
    [quantity |-> quantity, reserved |-> 0,
     reserveLog |-> 0, releaseLog |-> 0, commitLog |-> 0, manualLog |-> 0]

\* (A mistaken form of each definition named Mutant... stands before it.)
MutantAvailable(item) == item.quantity

Available(item) == item.quantity - item.reserved

AtLeastZero(n) == IF n < 0 THEN 0 ELSE n

Reserve(item, n) ==
    [item EXCEPT !.reserved = @ + n, !.reserveLog = @ + n]

MutantReleaseNothing(item, n) == [item EXCEPT !.releaseLog = @ + n]

Release(item, n) ==
    [item EXCEPT !.reserved = AtLeastZero(@ - n), !.releaseLog = @ + n]

MutantCommitUnrecorded(item, n) ==
    [item EXCEPT !.reserved = AtLeastZero(@ - n),
                 !.quantity = AtLeastZero(@ - n)]

CommitReservation(item, n) ==
    [item EXCEPT !.reserved = AtLeastZero(@ - n),
                 !.quantity = AtLeastZero(@ - n),
                 !.commitLog = @ + n]

Adjusted(item, delta) ==
    [item EXCEPT !.quantity = AtLeastZero(@ + delta),
                 !.manualLog = @ + delta]

-----------------------------------------------------------------------------
(* Requests.  target is the status the request takes its order to, snap    *)
(* the status it read, walk the order it goes over the lines in and line   *)
(* how many of them it has come to.                                        *)

Idle == [phase |-> "idle"]

LineNumbers(k) == 1 .. Len(Lines(k))

\* A checkout goes over the cart's lines, loaded in the order of their position.
ByPosition(k) == [i \in LineNumbers(k) |-> i]

Walks(k) == Bijection(LineNumbers(k), LineNumbers(k))

\* A payment or a cancellation goes over the order's lines, loaded without an
\* ORDER BY: in any order.  The other moves of an order leave them alone.
WalksTo(k, target) ==
    IF target \in {"paid", "cancelled"} THEN Walks(k) ELSE {ByPosition(k)}

Request ==
    {r \in [phase : {"confirm", "update", "stock"}, key : Keys,
            target : OrderStatuses, snap : OrderStatuses \union {NoOrder},
            walk : UNION {Walks(k) : k \in Keys}, line : Nat \ {0}] :
        r.walk \in Walks(r.key)}

NewRequest(phase, k, target) ==
    [phase |-> phase, key |-> k, target |-> target,
     snap |-> orderStatus[k], walk |-> ByPosition(k), line |-> 1]

InService(s) == req[s] # Idle

MayBegin(s, k) ==
    /\ ~InService(s)
    /\ OverlapAllowed \/ \A t \in Sessions :
                             InService(t) => CartOf[req[t].key] # CartOf[k]

MutantLinesButLast(s) ==
    IF req[s].target \in {"awaiting_payment", "paid", "cancelled"}
    THEN Len(Lines(req[s].key)) - 1 ELSE 0

\* Only checkout, payment and cancellation walk over the lines.
LinesToDo(s) ==
    IF req[s].target \in {"awaiting_payment", "paid", "cancelled"}
    THEN Len(Lines(req[s].key)) ELSE 0

AtLine(s) == InService(s) /\ req[s].phase = "stock" /\ req[s].line <= LinesToDo(s)

AtEnd(s) == InService(s) /\ req[s].phase = "stock" /\ req[s].line > LinesToDo(s)

CurrentLine(s) == Lines(req[s].key)[req[s].walk[req[s].line]]

Init ==
    /\ orderStatus = [k \in Keys |-> NoOrder]
    /\ cartStatus = [c \in Carts |-> "active"]
    /\ stock = [v \in Variants |-> NewItem(InitialStock[v])]
    /\ draft = stock
    /\ itemLock = [v \in Variants |-> NoSession]
    /\ orderLock = [k \in Keys |-> NoSession]
    /\ intents = {}
    /\ charged = {}
    /\ req = [s \in Sessions |-> Idle]

-----------------------------------------------------------------------------
(* The end of a transaction.                                               *)

ReleaseLocks(s) ==
    /\ itemLock' = [v \in Variants |->
                       IF itemLock[v] = s THEN NoSession ELSE itemLock[v]]
    /\ orderLock' = [k \in Keys |->
                        IF orderLock[k] = s THEN NoSession ELSE orderLock[k]]
    /\ req' = [req EXCEPT ![s] = Idle]

\* The session is closed without a commit: nothing it wrote remains.
Rollback(s) ==
    /\ ReleaseLocks(s)
    /\ draft' = [v \in Variants |->
                    IF itemLock[v] = s THEN stock[v] ELSE draft[v]]
    /\ UNCHANGED <<orderStatus, cartStatus, stock, intents, charged>>

PublishStock(s) ==
    stock' = [v \in Variants |->
                 IF itemLock[v] = s THEN draft[v] ELSE stock[v]]

-----------------------------------------------------------------------------
(* The first reads of a request.  A request refused on what it read here   *)
(* changes nothing and is not shown.                                       *)

\* POST /store/checkout: no order under this key yet, and the cart is live.
BeginCheckout(s, k) ==
    /\ MayBegin(s, k)
    /\ orderStatus[k] = NoOrder
    /\ cartStatus[CartOf[k]] = "active"
    /\ req' = [req EXCEPT ![s] = NewRequest("stock", k, "awaiting_payment")]
    /\ UNCHANGED <<orderStatus, cartStatus, stock, draft, itemLock,
                   orderLock, intents, charged>>

\* POST /store/orders/{number}/pay, or an administrator's move to paid.  The
\* status that was read is looked at only after the provider has answered.
BeginPay(s, k) ==
    /\ MayBegin(s, k)
    /\ orderStatus[k] # NoOrder
    /\ req' = [req EXCEPT ![s] = NewRequest("confirm", k, "paid")]
    /\ UNCHANGED <<orderStatus, cartStatus, stock, draft, itemLock,
                   orderLock, intents, charged>>

MutantMoveAnywhere(s, k, target) ==
    /\ MayBegin(s, k)
    /\ orderStatus[k] # NoOrder
    /\ target # "paid"
    /\ req' = [req EXCEPT ![s] = NewRequest("update", k, target)]
    /\ UNCHANGED <<orderStatus, cartStatus, stock, draft, itemLock,
                   orderLock, intents, charged>>

\* PATCH /admin/orders/{ref}/status to any status but paid.
BeginMove(s, k, target) ==
    /\ MayBegin(s, k)
    /\ orderStatus[k] # NoOrder
    /\ target # "paid"
    /\ CanMove(orderStatus[k], target)
    /\ req' = [req EXCEPT ![s] = NewRequest("update", k, target)]
    /\ UNCHANGED <<orderStatus, cartStatus, stock, draft, itemLock,
                   orderLock, intents, charged>>

-----------------------------------------------------------------------------
(* The provider: a dictionary in the memory of the API process.            *)

MutantConfirmAnyStatus(s) ==
    /\ InService(s) /\ req[s].phase = "confirm"
    /\ req[s].key \in intents
    /\ charged' = charged \union {req[s].key}
    /\ req' = [req EXCEPT ![s].phase = "update"]
    /\ UNCHANGED <<orderStatus, cartStatus, stock, draft, itemLock,
                   orderLock, intents>>

\* The provider takes the money, whatever the order's status is; mark_paid
\* then refuses an order that was not awaiting payment when it was read.
Confirm(s) ==
    /\ InService(s) /\ req[s].phase = "confirm"
    /\ req[s].key \in intents
    /\ charged' = charged \union {req[s].key}
    /\ req' = [req EXCEPT ![s] =
                  IF CanMove(req[s].snap, "paid")
                  THEN [req[s] EXCEPT !.phase = "update"] ELSE Idle]
    /\ UNCHANGED <<orderStatus, cartStatus, stock, draft, itemLock,
                   orderLock, intents>>

MutantFailureIgnored(s) ==
    /\ InService(s) /\ req[s].phase = "confirm"
    /\ req[s].key \notin intents
    /\ req' = [req EXCEPT ![s] =
                  IF CanMove(req[s].snap, "paid")
                  THEN [req[s] EXCEPT !.phase = "update"] ELSE Idle]
    /\ UNCHANGED <<orderStatus, cartStatus, stock, draft, itemLock,
                   orderLock, intents, charged>>

\* unknown_intent: payment fails.
ConfirmFails(s) ==
    /\ InService(s) /\ req[s].phase = "confirm"
    /\ req[s].key \notin intents
    /\ Rollback(s)

-----------------------------------------------------------------------------
(* Writes under lock.                                                      *)

\* Autoflush emits UPDATE orders ... WHERE id = ... before the first FOR
\* UPDATE of the request (or flush() does, if it has none).  It waits for
\* another writer of the row and does not look at the status that one left.
\* The order of the lines, known since they were read, matters from here on.
LockOrder(s) ==
    /\ InService(s) /\ req[s].phase = "update"
    /\ orderLock[req[s].key] = NoSession
    /\ orderLock' = [orderLock EXCEPT ![req[s].key] = s]
    /\ \E walk \in WalksTo(req[s].key, req[s].target) :
          req' = [req EXCEPT ![s] =
                     [req[s] EXCEPT !.phase = "stock", !.walk = walk]]
    /\ UNCHANGED <<orderStatus, cartStatus, stock, draft, itemLock, intents,
                   charged>>

\* SELECT ... FOR UPDATE succeeds for the holder and for a free row.
CanLock(s, v) == itemLock[v] \in {s, NoSession}

WriteItem(s, item) ==
    LET v == CurrentLine(s).variant
    IN  /\ itemLock' = [itemLock EXCEPT ![v] = s]
        /\ draft' = [draft EXCEPT ![v] = item]
        /\ req' = [req EXCEPT ![s].line = @ + 1]
        /\ UNCHANGED <<orderStatus, cartStatus, stock, orderLock, intents,
                       charged>>

ReserveLine(s) ==
    /\ AtLine(s) /\ req[s].target = "awaiting_payment"
    /\ LET l == CurrentLine(s)
       IN  /\ CanLock(s, l.variant)
           /\ Available(draft[l.variant]) >= l.quantity
           /\ WriteItem(s, Reserve(draft[l.variant], l.quantity))

MutantFailureCommits(s) ==
    /\ AtLine(s) /\ req[s].target = "awaiting_payment"
    /\ LET l == CurrentLine(s)
       IN  /\ CanLock(s, l.variant)
           /\ Available(draft[l.variant]) < l.quantity
    /\ PublishStock(s)
    /\ ReleaseLocks(s)
    /\ UNCHANGED <<orderStatus, cartStatus, draft, intents, charged>>

MutantFailureKeepsLocks(s) ==
    /\ AtLine(s) /\ req[s].target = "awaiting_payment"
    /\ LET l == CurrentLine(s)
       IN  /\ CanLock(s, l.variant)
           /\ Available(draft[l.variant]) < l.quantity
    /\ req' = [req EXCEPT ![s] = Idle]
    /\ UNCHANGED <<orderStatus, cartStatus, stock, draft, itemLock,
                   orderLock, intents, charged>>

\* INSUFFICIENT_STOCK: the whole checkout is rolled back.
ReserveFails(s) ==
    /\ AtLine(s) /\ req[s].target = "awaiting_payment"
    /\ LET l == CurrentLine(s)
       IN  /\ CanLock(s, l.variant)
           /\ Available(draft[l.variant]) < l.quantity
    /\ Rollback(s)

CommitLine(s) ==
    /\ AtLine(s) /\ req[s].target = "paid"
    /\ LET l == CurrentLine(s)
       IN  /\ CanLock(s, l.variant)
           /\ WriteItem(s, CommitReservation(draft[l.variant], l.quantity))

ReleaseLine(s) ==
    /\ AtLine(s) /\ req[s].target = "cancelled"
    /\ LET l == CurrentLine(s)
       IN  /\ CanLock(s, l.variant)
           /\ WriteItem(s, Release(draft[l.variant], l.quantity))

-----------------------------------------------------------------------------
(* Commits.                                                                *)

MutantCartStaysActive(s) ==
    LET k == req[s].key
    IN  /\ AtEnd(s) /\ req[s].target = "awaiting_payment"
        /\ orderStatus[k] = NoOrder
        /\ orderStatus' = [orderStatus EXCEPT ![k] = "awaiting_payment"]
        /\ intents' = intents \union {k}
        /\ PublishStock(s)
        /\ ReleaseLocks(s)
        /\ UNCHANGED <<cartStatus, draft, charged>>

\* The order row is inserted with its intent and leaves draft, the cart is
\* converted and the transaction commits.
PlaceOrder(s) ==
    LET k == req[s].key
    IN  /\ AtEnd(s) /\ req[s].target = "awaiting_payment"
        /\ orderStatus[k] = NoOrder
        /\ orderStatus' = [orderStatus EXCEPT ![k] = "awaiting_payment"]
        /\ cartStatus' = [cartStatus EXCEPT ![CartOf[k]] = "converted"]
        /\ intents' = intents \union {k}
        /\ PublishStock(s)
        /\ ReleaseLocks(s)
        /\ UNCHANGED <<draft, charged>>

\* The INSERT violates the unique index on idempotency_key: an order was
\* placed under this key after the request had looked for one.
KeyTaken(s) ==
    /\ AtEnd(s) /\ req[s].target = "awaiting_payment"
    /\ orderStatus[req[s].key] # NoOrder
    /\ Rollback(s)

\* Payment, cancellation and the other moves of an order commit.
CommitMove(s) ==
    /\ AtEnd(s) /\ req[s].target # "awaiting_payment"
    /\ orderStatus' = [orderStatus EXCEPT ![req[s].key] = req[s].target]
    /\ PublishStock(s)
    /\ ReleaseLocks(s)
    /\ UNCHANGED <<cartStatus, draft, intents, charged>>

\* POST /admin/inventory/{variant}/adjust.  It locks one row and commits, so
\* it is one step; an item that does not exist is the item with no units.
Adjust(v, delta) ==
    /\ itemLock[v] = NoSession
    /\ stock[v].reserved <= stock[v].quantity + delta
    /\ stock[v].quantity + delta <= MaxStock
    /\ stock' = [stock EXCEPT ![v] = Adjusted(@, delta)]
    /\ draft' = [draft EXCEPT ![v] = Adjusted(stock[v], delta)]
    /\ UNCHANGED <<orderStatus, cartStatus, itemLock, orderLock, intents,
                   charged, req>>

-----------------------------------------------------------------------------
(* Failures.                                                               *)

\* The session that holds the row s waits for, if it waits.
Blockers(s) ==
    {t \in Sessions \ {s} :
        \/ /\ InService(s) /\ req[s].phase = "update"
           /\ orderLock[req[s].key] = t
        \/ AtLine(s) /\ itemLock[CurrentLine(s).variant] = t}

\* s is on a cycle of sessions that wait for each other.
Deadlocked(s) ==
    \E cycle \in SUBSET Sessions :
        /\ s \in cycle
        /\ \A t \in cycle : Blockers(t) # {}
        /\ UNION {Blockers(t) : t \in cycle} = cycle

\* PostgreSQL's deadlock detector aborts one of them.
DeadlockVictim(s) == Deadlocked(s) /\ Rollback(s)

\* The API process is restarted: every open transaction is rolled back and
\* the mock provider forgets its intents.
Restart ==
    /\ req' = [s \in Sessions |-> Idle]
    /\ draft' = stock
    /\ itemLock' = [v \in Variants |-> NoSession]
    /\ orderLock' = [k \in Keys |-> NoSession]
    /\ intents' = {}
    /\ UNCHANGED <<orderStatus, cartStatus, stock, charged>>

-----------------------------------------------------------------------------

Begin(s) ==
    \E k \in Keys :
        \/ BeginCheckout(s, k)
        \/ BeginPay(s, k)
        \/ \E target \in OrderStatuses : BeginMove(s, k, target)

Proceed(s) ==
    \/ Confirm(s) \/ ConfirmFails(s)
    \/ LockOrder(s)
    \/ ReserveLine(s) \/ ReserveFails(s) \/ CommitLine(s) \/ ReleaseLine(s)
    \/ PlaceOrder(s) \/ KeyTaken(s) \/ CommitMove(s)

Next ==
    \/ \E s \in Sessions : Begin(s) \/ Proceed(s) \/ DeadlockVictim(s)
    \/ \E v \in Variants, delta \in Deltas : Adjust(v, delta)
    \/ Restart

Spec == Init /\ [][Next]_vars

\* A request in service is not left hanging: the event loop runs it, the lock
\* queue of PostgreSQL grants it the row it waits for, and the deadlock
\* detector breaks every cycle.  Nobody has to send a request.
Fairness ==
    \A s \in Sessions : SF_vars(Proceed(s)) /\ WF_vars(DeadlockVictim(s))

FairSpec == Spec /\ Fairness

-----------------------------------------------------------------------------
(* Properties.                                                             *)

Holder == Sessions \union {NoSession}

\* Types of the variables.
TypeOK ==
    /\ orderStatus \in [Keys -> OrderStatuses \union {NoOrder}]
    /\ cartStatus \in [Carts -> {"active", "converted"}]
    /\ stock \in [Variants -> InventoryItem]
    /\ draft \in [Variants -> InventoryItem]
    /\ itemLock \in [Variants -> Holder]
    /\ orderLock \in [Keys -> Holder]
    /\ intents \subseteq Keys
    /\ charged \subseteq Keys
    /\ req \in [Sessions -> Request \union {Idle}]

\* Reserve, release and commit "without ever overselling": however requests
\* overlap, fail and roll back, no variant has more units promised than it
\* has, neither in the committed row nor in the row a request is writing.
NeverOversold ==
    \A v \in Variants : /\ stock[v].reserved <= stock[v].quantity
                        /\ draft[v].reserved <= draft[v].quantity

AwaitingPayment == {k \in Keys : orderStatus[k] = "awaiting_payment"}

SettledOrders == {k \in Keys : orderStatus[k] \in Settled}

\* The units of v in the orders that await payment, and in those paid.
HeldUnits(v) == UnitsOf(AwaitingPayment, v)

SoldUnits(v) == UnitsOf(SettledOrders, v)

\* No unit is ever stranded: whatever overlaps, stock is reserved only for
\* orders that still await payment, so that paying or cancelling those orders
\* makes every unit of the shop sold or available again.
NoStrandedStock ==
    \A v \in Variants : stock[v].reserved <= Cardinality(HeldUnits(v))

\* ``reserved`` is stock held by unpaid orders, no less and no more: every
\* order that awaits payment has all its units, and can be paid.
ReservedIsHeld ==
    \A v \in Variants : stock[v].reserved = Cardinality(HeldUnits(v))

\* Every paid unit leaves the shelf once, and only paid units do.
SoldOnce ==
    \A v \in Variants : stock[v].commitLog = Cardinality(SoldUnits(v))

\* The movement ledger explains the numbers in the inventory row: every
\* change to stock is explainable.
LedgerExplainsStock ==
    \A v \in Variants :
        LET item == stock[v]
        IN  /\ item.quantity =
                   InitialStock[v] + item.manualLog - item.commitLog
            /\ item.reserved =
                   item.reserveLog - item.releaseLog - item.commitLog

Placed == {k \in Keys : orderStatus[k] # NoOrder}

Cancelled == {k \in Keys : orderStatus[k] = "cancelled"}

\* The ledger misses nothing, whatever overlaps: every order has its reservation
\* booked once, all that is paid or cancelled is booked as such, and no unit
\* leaves the shelf or the reservations without a movement that tells of it.
\* (A race books too much: LedgerExplainsStock is for requests taking turns.)
EveryMoveIsBooked ==
    \A v \in Variants :
        LET item == stock[v]
        IN  /\ item.reserveLog = Cardinality(UnitsOf(Placed, v))
            /\ item.commitLog >= Cardinality(SoldUnits(v))
            /\ item.releaseLog >= Cardinality(UnitsOf(Cancelled, v))
            /\ item.quantity >=
                   InitialStock[v] + item.manualLog - item.commitLog
            /\ item.reserved >=
                   item.reserveLog - item.releaseLog - item.commitLog

\* Goods are promised against money only: an order that is paid, or was, is
\* one whose payment the provider confirmed, through restarts and races.
SettledIsCharged == SettledOrders \subseteq charged

\* A cart is sold once: it never yields two orders.
OneOrderPerCart ==
    \A j, k \in Keys :
        /\ j # k /\ CartOf[j] = CartOf[k]
        /\ orderStatus[j] # NoOrder
        => orderStatus[k] = NoOrder

\* The status machine: the committed status of an order changes only along
\* ALLOWED_TRANSITIONS, and an order appears as awaiting payment.
LawfulMoves ==
    [][\A k \in Keys :
          orderStatus'[k] # orderStatus[k] =>
              \/ CanMove(orderStatus[k], orderStatus'[k])
              \/ /\ orderStatus[k] = NoOrder
                 /\ orderStatus'[k] = "awaiting_payment"]_vars

\* Every request is answered: no wait for a row lasts forever.
EveryRequestAnswered ==
    \A s \in Sessions : InService(s) ~> ~InService(s)

\* s waits for a row ranked below one that it holds.
WaitsBelow(s, rank) ==
    /\ AtLine(s)
    /\ \E i \in 1 .. (req[s].line - 1) :
          rank[Lines(req[s].key)[req[s].walk[i]].variant] >
              rank[CurrentLine(s).variant]

\* Requests deadlock over the order of their lines and over nothing else: not
\* over order rows, not over rows that a failed request left locked.  Were the
\* lines walked in one order of the variants, any one, there would be none.
DeadlockNeedsCrossing ==
    (\E s \in Sessions : Deadlocked(s)) =>
        \A rank \in Injection(Variants, 1 .. Cardinality(Variants)) :
            \E s \in Sessions : Deadlocked(s) /\ WaitsBelow(s, rank)

\* The orders, carts and units on the shelf behave as in StoreLedger.
Ledger == INSTANCE StoreLedger WITH
    shelf <- [v \in Variants |-> [quantity |-> stock[v].quantity,
                                  reserved |-> stock[v].reserved]]

ImplementsLedger == Ledger!LedgerSpec

=============================================================================
