------------------------- MODULE TakingTurns_proof --------------------------
(***************************************************************************)
(* Theorems about StoreRequests when the requests of a cart take turns     *)
(* (OverlapAllowed = FALSE), for every value of the other constants: a     *)
(* cart is sold once, orders move along the status machine, stock is       *)
(* reserved, sold and explained to the unit, and the requests implement    *)
(* StoreLedger.  Then what a request has read stays true until it commits, *)
(* and a row under lock is the committed row moved by the lines walked.    *)
(***************************************************************************)
EXTENDS StoreRequests_proof

-----------------------------------------------------------------------------
(* Requests of one cart that take turns.                                   *)

\* A step that commits nothing to orders and carts and lets no request begin.
LEMMA CalmStep ==
    ASSUME TurnInv, orderStatus' = orderStatus, cartStatus' = cartStatus,
           \A s \in Sessions : InService(s)' =>
              /\ InService(s)
              /\ req'[s].key = req[s].key
              /\ req'[s].snap = req[s].snap
              /\ req'[s].target = req[s].target
    PROVE  TurnInv'
BY DEF TurnInv, OneOrderPerCart

\* A request begins: it has its cart for itself.
LEMMA BeginTurn ==
    ASSUME TypeOK, SnapshotInv, TurnInv, OverlapAllowed = FALSE,
           NEW s \in Sessions, Begin(s)
    PROVE  TurnInv'
<1>1. PICK k \in Keys, target \in OrderStatuses :
          /\ MayBegin(s, k)
          /\ \E phase : req' = [req EXCEPT ![s] = NewRequest(phase, k, target)]
          /\ target = "awaiting_payment" => cartStatus[CartOf[k]] = "active"
  <2>1. ASSUME NEW k \in Keys, NEW target \in OrderStatuses,
               BeginMove(s, k, target)
        PROVE  target # "awaiting_payment"
    BY <2>1 DEF BeginMove, CanMove, ALLOWED_TRANSITIONS, SnapshotInv
  <2> QED
    BY <2>1 DEF Begin, BeginCheckout, BeginPay, BeginMove, OrderStatuses
<1>2. /\ req'[s].key = k /\ req'[s].snap = orderStatus[k]
      /\ req'[s].target = target
      /\ \A t \in Sessions \ {s} : req'[t] = req[t]
  BY <1>1 DEF TypeOK, NewRequest
<1>3. \A t \in Sessions \ {s} : InService(t) => CartOf[req[t].key] # CartOf[k]
  BY <1>1 DEF MayBegin
<1>4. orderStatus' = orderStatus /\ cartStatus' = cartStatus
  BY DEF Begin, BeginCheckout, BeginPay, BeginMove
<1> QED
  BY <1>1, <1>2, <1>3, <1>4 DEF TurnInv, InService, OneOrderPerCart

\* A checkout commits: its cart had no order and yields no other.
LEMMA PlaceTurn ==
    ASSUME TypeOK, TurnInv, [Next]_vars, NEW s \in Sessions, PlaceOrder(s)
    PROVE  TurnInv'
<1> DEFINE k == req[s].key
<1>1. InService(s) /\ k \in Keys /\ req[s].target = "awaiting_payment"
  BY RequestFields DEF PlaceOrder, AtEnd
<1>2. /\ orderStatus' = [orderStatus EXCEPT ![k] = "awaiting_payment"]
      /\ cartStatus' = [cartStatus EXCEPT ![CartOf[k]] = "converted"]
      /\ cartStatus[CartOf[k]] = "active"
  BY <1>1 DEF PlaceOrder, TurnInv
<1>3. CartOf[k] \in Carts /\ \A j \in Keys : CartOf[j] \in Carts
  BY <1>1, BasketAssumption
<1>4. \A j \in Keys : CartOf[j] = CartOf[k] => orderStatus[j] = NoOrder
  BY <1>2 DEF TurnInv
<1>5. ASSUME NEW t \in Sessions, InService(t)'
      PROVE  /\ t # s /\ InService(t) /\ req'[t] = req[t]
             /\ req[t].key \in Keys /\ CartOf[req[t].key] # CartOf[k]
  <2>1. t # s /\ req'[t] = req[t]
    BY <1>5 DEF PlaceOrder, ReleaseLocks, TypeOK, InService
  <2>2. InService(t)
    BY <1>5, <2>1 DEF InService
  <2> QED
    BY <1>1, <2>1, <2>2, RequestFields DEF TurnInv
<1>6. \A j \in Keys : orderStatus'[j] # NoOrder =>
          cartStatus'[CartOf[j]] = "converted"
  BY <1>2, <1>3, <1>1 DEF TypeOK, TurnInv
<1>7. OneOrderPerCart'
  BY <1>1, <1>2, <1>4 DEF TypeOK, TurnInv, OneOrderPerCart
<1>8. \A t \in Sessions : InService(t)' =>
          /\ orderStatus'[req[t].key] = orderStatus[req[t].key]
          /\ cartStatus'[CartOf[req[t].key]] = cartStatus[CartOf[req[t].key]]
  BY <1>1, <1>2, <1>3, <1>5 DEF TypeOK
<1> QED
  BY <1>5, <1>6, <1>7, <1>8 DEF TurnInv

\* An order moves on: nobody else is at its cart.
LEMMA MoveTurn ==
    ASSUME TypeOK, SnapshotInv, TurnInv, NEW s \in Sessions, CommitMove(s)
    PROVE  TurnInv'
<1> DEFINE k == req[s].key
<1>1. /\ InService(s) /\ k \in Keys /\ orderStatus[k] # NoOrder
      /\ req[s].target \in OrderStatuses
  BY RequestFields DEF CommitMove, AtEnd, SnapshotInv, KnowsOrder
<1>2. /\ orderStatus' = [orderStatus EXCEPT ![k] = req[s].target]
      /\ cartStatus' = cartStatus
  BY DEF CommitMove
<1>3. \A j \in Keys : orderStatus'[j] # NoOrder => orderStatus[j] # NoOrder
  BY <1>1, <1>2 DEF TypeOK
<1>4. ASSUME NEW t \in Sessions, InService(t)'
      PROVE  /\ InService(t) /\ req'[t] = req[t]
             /\ orderStatus'[req[t].key] = orderStatus[req[t].key]
  <2>1. t # s /\ req'[t] = req[t]
    BY <1>4 DEF CommitMove, ReleaseLocks, TypeOK, InService
  <2>2. InService(t)
    BY <1>4, <2>1 DEF InService
  <2>3. req[t].key \in Keys /\ req[t].key # k
    BY <1>1, <2>1, <2>2, RequestFields DEF TurnInv
  <2> QED
    BY <1>2, <2>1, <2>2, <2>3 DEF TypeOK
<1> QED
  BY <1>2, <1>3, <1>4 DEF TurnInv, OneOrderPerCart

LEMMA TurnStep ==
    ASSUME TypeOK, SnapshotInv, TurnInv, OverlapAllowed = FALSE, [Next]_vars
    PROVE  TurnInv'
<1>1. CASE \E s \in Sessions : Begin(s)
  BY <1>1, BeginTurn
<1>2. CASE \E s \in Sessions : PlaceOrder(s)
  BY <1>2, PlaceTurn
<1>3. CASE \E s \in Sessions : CommitMove(s)
  BY <1>3, MoveTurn
<1>4. CASE \A s \in Sessions : ~Begin(s) /\ ~PlaceOrder(s) /\ ~CommitMove(s)
  <2>1. orderStatus' = orderStatus
    BY <1>4, StatusWriters
  <2>2. cartStatus' = cartStatus
    BY <1>4 DEF Next, Proceed, vars, Confirm, ConfirmFails, LockOrder,
                ReserveLine, ReserveFails, CommitLine, ReleaseLine, WriteItem,
                KeyTaken, DeadlockVictim, Rollback, Adjust, Restart
  <2> QED
    BY <1>4, <2>1, <2>2, OngoingRequest, CalmStep
<1> QED
  BY <1>1, <1>2, <1>3, <1>4

LEMMA TurnInvHolds ==
    ASSUME OverlapAllowed = FALSE
    PROVE  Spec => []TurnInv
<1>1. Init => TurnInv
  BY BasketAssumption DEF Init, TurnInv, InService, OneOrderPerCart
<1>2. TypeOK /\ SnapshotInv /\ TurnInv /\ [Next]_vars => TurnInv'
  BY TurnStep
<1>3. StrandedInv => SnapshotInv
  BY DEF StrandedInv
<1> QED
  BY <1>1, <1>2, <1>3, TypeCorrect, StrandedInvHolds, PTL DEF Spec

\* A cart is sold once, as long as its requests take turns: however many
\* checkout pages are opened on it, one of them places an order.
THEOREM SoldOncePerCart ==
    ASSUME OverlapAllowed = FALSE
    PROVE  Spec => []OneOrderPerCart
<1>1. TurnInv => OneOrderPerCart
  BY DEF TurnInv
<1> QED
  BY <1>1, TurnInvHolds, PTL

\* Orders move along ALLOWED_TRANSITIONS only, as long as the requests of a
\* cart take turns.
THEOREM MovesAreLawful ==
    ASSUME OverlapAllowed = FALSE
    PROVE  Spec => LawfulMoves
<1>1. ASSUME TypeOK, SnapshotInv, TurnInv, [Next]_vars, NEW k \in Keys,
             orderStatus'[k] # orderStatus[k]
      PROVE  \/ CanMove(orderStatus[k], orderStatus'[k])
             \/ /\ orderStatus[k] = NoOrder
                /\ orderStatus'[k] = "awaiting_payment"
  <2>1. ASSUME NEW s \in Sessions, PlaceOrder(s)
        PROVE  orderStatus[k] = NoOrder /\ orderStatus'[k] = "awaiting_payment"
    BY <1>1, <2>1 DEF PlaceOrder, TypeOK
  <2>2. ASSUME NEW s \in Sessions, CommitMove(s)
        PROVE  CanMove(orderStatus[k], orderStatus'[k])
    <3>1. /\ InService(s) /\ req[s].phase = "stock"
          /\ req[s].target # "awaiting_payment"
          /\ orderStatus' = [orderStatus EXCEPT ![req[s].key] = req[s].target]
      BY <2>2 DEF CommitMove, AtEnd
    <3>2. req[s].key = k /\ orderStatus'[k] = req[s].target
      BY <1>1, <3>1 DEF TypeOK
    <3>3. /\ CanMove(req[s].snap, req[s].target)
          /\ req[s].snap = orderStatus[req[s].key]
      BY <1>1, <3>1 DEF SnapshotInv, KnowsOrder, TurnInv
    <3> QED
      BY <3>2, <3>3
  <2> QED
    BY <1>1, <2>1, <2>2, StatusWriters
<1>2. TypeOK /\ SnapshotInv /\ TurnInv /\ [Next]_vars =>
          [\A k \in Keys :
              orderStatus'[k] # orderStatus[k] =>
                  \/ CanMove(orderStatus[k], orderStatus'[k])
                  \/ /\ orderStatus[k] = NoOrder
                     /\ orderStatus'[k] = "awaiting_payment"]_vars
  BY <1>1
<1>3. StrandedInv => SnapshotInv
  BY DEF StrandedInv
<1> QED
  BY <1>2, <1>3, TypeCorrect, StrandedInvHolds, TurnInvHolds, PTL
     DEF Spec, LawfulMoves

-----------------------------------------------------------------------------
(* Rows and units, to the unit, as long as requests take turns.            *)

\* Reserving, committing and releasing a line move a row further, when there
\* is enough to take it from.
LEMMA MovedFurther ==
    ASSUME NEW item \in InventoryItem, NEW n \in Nat, NEW q \in Nat
    PROVE  /\ Reserve(Moved(item, "awaiting_payment", n), q) =
                  Moved(item, "awaiting_payment", n + q)
           /\ n + q <= item.reserved /\ item.reserved <= item.quantity =>
                 CommitReservation(Moved(item, "paid", n), q) =
                     Moved(item, "paid", n + q)
           /\ n + q <= item.reserved =>
                 Release(Moved(item, "cancelled", n), q) =
                     Moved(item, "cancelled", n + q)
<1>1. Reserve(Moved(item, "awaiting_payment", n), q) =
          Moved(item, "awaiting_payment", n + q)
  <2>1. /\ item.reserved + n + q = item.reserved + (n + q)
        /\ item.reserveLog + n + q = item.reserveLog + (n + q)
    BY DEF InventoryItem
  <2>2. Reserve(Moved(item, "awaiting_payment", n), q) =
            [item EXCEPT !.reserved = item.reserved + n + q,
                         !.reserveLog = item.reserveLog + n + q]
    BY DEF Moved, InventoryItem, Reserve
  <2> QED
    BY <2>1, <2>2 DEF Moved
<1>2. ASSUME n + q <= item.reserved, item.reserved <= item.quantity
      PROVE  CommitReservation(Moved(item, "paid", n), q) =
                 Moved(item, "paid", n + q)
  <2>1. /\ AtLeastZero(item.reserved - n - q) = item.reserved - (n + q)
        /\ AtLeastZero(item.quantity - n - q) = item.quantity - (n + q)
        /\ item.commitLog + n + q = item.commitLog + (n + q)
    BY <1>2 DEF InventoryItem, AtLeastZero
  <2>2. CommitReservation(Moved(item, "paid", n), q) =
            [item EXCEPT !.reserved = AtLeastZero(item.reserved - n - q),
                         !.quantity = AtLeastZero(item.quantity - n - q),
                         !.commitLog = item.commitLog + n + q]
    BY DEF Moved, InventoryItem, CommitReservation
  <2> QED
    BY <2>1, <2>2 DEF Moved
<1>3. ASSUME n + q <= item.reserved
      PROVE  Release(Moved(item, "cancelled", n), q) =
                 Moved(item, "cancelled", n + q)
  <2>1. /\ AtLeastZero(item.reserved - n - q) = item.reserved - (n + q)
        /\ item.releaseLog + n + q = item.releaseLog + (n + q)
    BY <1>3 DEF InventoryItem, AtLeastZero
  <2>2. Release(Moved(item, "cancelled", n), q) =
            [item EXCEPT !.reserved = AtLeastZero(item.reserved - n - q),
                         !.releaseLog = item.releaseLog + n + q]
    BY DEF Moved, InventoryItem, Release
  <2> QED
    BY <2>1, <2>2 DEF Moved
<1> QED
  BY <1>1, <1>2, <1>3

\* What a request that moves stock knows of its order.
LEMMA OwnOrder ==
    ASSUME StrandedInv, TurnInv, NEW s \in Sessions, InService(s),
           req[s].phase = "stock"
    PROVE  LET status == orderStatus[req[s].key]
           IN  /\ req[s].key \in Keys
               /\ req[s].target = "awaiting_payment" => status = NoOrder
               /\ req[s].target \in {"paid", "cancelled"} =>
                     status = "awaiting_payment"
               /\ ~MovesStock(s) =>
                     /\ status \in Settled /\ req[s].target \in Settled
                     /\ CanMove(status, req[s].target)
<1>1. /\ req[s].key \in Keys /\ req[s].snap = orderStatus[req[s].key]
      /\ KnowsOrder(s) /\ req[s].snap # "draft"
  BY RequestFields DEF StrandedInv, SnapshotInv, TurnInv
<1>2. req[s].target # "awaiting_payment" => CanMove(req[s].snap, req[s].target)
  BY <1>1 DEF KnowsOrder
<1> QED
  BY <1>1, <1>2
     DEF KnowsOrder, MovesStock, CanMove, ALLOWED_TRANSITIONS, Settled

\* The row that a request may lock is the committed one, moved by the lines
\* walked over, whether it is locked already or free.
LEMMA LockableMoved ==
    ASSUME StrandedInv, MovedInv, NEW s \in Sessions, AtLine(s),
           CanLock(s, CurrentLine(s).variant)
    PROVE  LET v == CurrentLine(s).variant
           IN  draft[v] = Moved(stock[v], req[s].target,
                                Cardinality(Walked(s, v)))
<1> DEFINE w == CurrentLine(s).variant
<1>1. w \in Variants /\ InService(s) /\ stock[w] \in InventoryItem
  BY CurrentLineType DEF StrandedInv, TypeOK, AtLine
<1>2. CASE itemLock[w] = s
  BY <1>1, <1>2 DEF MovedInv
<1>3. CASE itemLock[w] = NoSession
  BY <1>1, <1>3, FreeRow, MovedByNone
<1> QED
  BY <1>2, <1>3 DEF CanLock

\* Each line walked over moves the row of its variant by its quantity.
LEMMA MovedWrite ==
    ASSUME StrandedInv, MovedInv, NEW s \in Sessions, AtLine(s),
           NEW item, WriteItem(s, item),
           item = Moved(stock[CurrentLine(s).variant], req[s].target,
                        Cardinality(Walked(s, CurrentLine(s).variant)) +
                            CurrentLine(s).quantity)
    PROVE  MovedInv'
<1> DEFINE w == CurrentLine(s).variant
           q == CurrentLine(s).quantity
<1>1. req'[s] = [req[s] EXCEPT !.line = @ + 1]
  BY DEF StrandedInv, TypeOK, WriteItem
<1>2. w \in Variants /\ q \in Nat /\ req'[s].target = req[s].target
  BY <1>1, CurrentLineType, DoneNext DEF StrandedInv
<1>3. /\ itemLock'[w] = s /\ draft'[w] = item /\ stock' = stock
      /\ \A v \in Variants \ {w} :
            itemLock'[v] = itemLock[v] /\ draft'[v] = draft[v]
      /\ \A t \in Sessions \ {s} : req'[t] = req[t]
  BY <1>2 DEF StrandedInv, TypeOK, WriteItem
<1>4. ASSUME NEW v \in Variants
      PROVE  /\ Cardinality(Walked(s, v)) \in Nat
             /\ Cardinality(Walked(s, v)') =
                    Cardinality(Walked(s, v)) + (IF w = v THEN q ELSE 0)
  BY <1>1, WalkedNext
<1>5. ASSUME NEW v \in Variants, NEW t \in Sessions, itemLock'[v] = t
      PROVE  draft'[v] = Moved(stock'[v], req'[t].target,
                               Cardinality(Walked(t, v)'))
  <2>1. CASE v = w
    <3>1. t = s /\ draft'[v] = item /\ stock'[v] = stock[w]
      BY <1>3, <1>5, <2>1
    <3>2. Cardinality(Walked(s, v)') = Cardinality(Walked(s, w)) + q
      BY <1>4, <2>1
    <3> QED
      BY <1>2, <3>1, <3>2
  <2>2. CASE v # w /\ t = s
    <3>1. Cardinality(Walked(s, v)') = Cardinality(Walked(s, v))
      BY <1>4, <2>2
    <3> QED
      BY <1>2, <1>3, <1>5, <2>2, <3>1 DEF MovedInv
  <2>3. CASE v # w /\ t # s
    <3>1. req'[t] = req[t] /\ itemLock[v] = t /\ draft'[v] = draft[v]
      BY <1>3, <1>5, <2>3
    <3>2. Walked(t, v)' = Walked(t, v)
      BY <3>1 DEF Walked, Done
    <3> QED
      BY <1>3, <3>1, <3>2 DEF MovedInv
  <2> QED
    BY <2>1, <2>2, <2>3
<1> QED
  BY <1>5 DEF MovedInv

\* A step that leaves the rows under lock, their holders and their committed
\* versions alone.
LEMMA MovedKept ==
    ASSUME MovedInv,
           \A v \in Variants, s \in Sessions : itemLock'[v] = s =>
              /\ itemLock[v] = s
              /\ draft'[v] = draft[v] /\ stock'[v] = stock[v]
              /\ req'[s] = req[s]
    PROVE  MovedInv'
<1> SUFFICES ASSUME NEW v \in Variants, NEW s \in Sessions, itemLock'[v] = s
             PROVE  draft'[v] = Moved(stock'[v], req'[s].target,
                                      Cardinality(Walked(s, v)'))
  BY DEF MovedInv
<1>1. Walked(s, v)' = Walked(s, v)
  BY DEF Walked, Done
<1> QED
  BY <1>1 DEF MovedInv

\* Reserve, commit and release write the row moved by one more line: as the
\* order is unpaid, all its units are among those reserved, and no clamp bites.
LEMMA MovedLine ==
    ASSUME StrandedInv, NeverOversold, ExactInv, NEW s \in Sessions,
           ReserveLine(s) \/ CommitLine(s) \/ ReleaseLine(s)
    PROVE  MovedInv'
<1> DEFINE k == req[s].key
           w == CurrentLine(s).variant
           q == CurrentLine(s).quantity
           i == req[s].walk[req[s].line]
           n == Cardinality(Walked(s, w))
           row == stock[w]
           target == req[s].target
<1>1. /\ AtLine(s) /\ CanLock(s, w) /\ InService(s) /\ req[s].phase = "stock"
  BY DEF ReserveLine, CommitLine, ReleaseLine, AtLine
<1>2. /\ w \in Variants /\ q \in Nat /\ n \in Nat /\ row \in InventoryItem
      /\ k \in Keys /\ i \in 1 .. Len(Lines(k)) /\ i \notin Done(s)
      /\ Done(s) \in SUBSET (1 .. Len(Lines(k)))
  BY <1>1, CurrentLineType, RequestFields, NotYetDone, WalkedType
     DEF StrandedInv, TypeOK
<1>3. draft[w] = Moved(row, target, n)
  BY <1>1, LockableMoved DEF ExactInv
<1>4. ASSUME target \in {"paid", "cancelled"}
      PROVE  n + q <= row.reserved /\ row.reserved <= row.quantity
  <2>1. k \in AwaitingPayment
    BY <1>1, <1>4, OwnOrder DEF ExactInv, AwaitingPayment
  <2>2. Cardinality(UnitsIn(k, w, Done(s) \union {i})) = n + q
    BY <1>2, UnitsNextLine DEF Walked, CurrentLine
  <2>3. Cardinality(UnitsIn(k, w, Done(s) \union {i})) <=
            Cardinality(HeldUnits(w))
    <3>1. Done(s) \union {i} \in SUBSET (1 .. Len(Lines(k)))
      BY <1>2
    <3> QED
      BY <2>1, <3>1, HeldType, UnitsOfCovers DEF HeldUnits
  <2> QED
    BY <1>2, <2>2, <2>3 DEF ExactInv, ReservedIsHeld, NeverOversold
<1>5. CASE ReserveLine(s)
  <2>1. target = "awaiting_payment" /\ WriteItem(s, Reserve(draft[w], q))
    BY <1>5 DEF ReserveLine
  <2>2. Reserve(Moved(row, target, n), q) = Moved(row, target, n + q)
    BY <1>2, <2>1, MovedFurther
  <2> QED
    BY <1>1, <1>3, <2>1, <2>2, MovedWrite DEF ExactInv
<1>6. CASE CommitLine(s)
  <2>1. target = "paid" /\ WriteItem(s, CommitReservation(draft[w], q))
    BY <1>6 DEF CommitLine
  <2>2. CommitReservation(Moved(row, target, n), q) = Moved(row, target, n + q)
    BY <1>2, <1>4, <2>1, MovedFurther
  <2> QED
    BY <1>1, <1>3, <2>1, <2>2, MovedWrite DEF ExactInv
<1>7. CASE ReleaseLine(s)
  <2>1. target = "cancelled" /\ WriteItem(s, Release(draft[w], q))
    BY <1>7 DEF ReleaseLine
  <2>2. Release(Moved(row, target, n), q) = Moved(row, target, n + q)
    BY <1>2, <1>4, <2>1, MovedFurther
  <2> QED
    BY <1>1, <1>3, <2>1, <2>2, MovedWrite DEF ExactInv
<1> QED
  BY <1>5, <1>6, <1>7

\* The rows of a request that ends are free afterwards, and the rows of the
\* others are as they were.
LEMMA MovedEnd ==
    ASSUME StrandedInv, MovedInv, NEW s \in Sessions, ReleaseLocks(s),
           \A v \in Variants : itemLock[v] # s =>
              draft'[v] = draft[v] /\ stock'[v] = stock[v]
    PROVE  MovedInv'
<1>1. \A v \in Variants, t \in Sessions : itemLock'[v] = t =>
          t # s /\ itemLock[v] = t /\ req'[t] = req[t]
  BY OthersKeepRows
<1> QED
  BY <1>1, MovedKept

LEMMA MovedStep ==
    ASSUME StrandedInv, NeverOversold, ExactInv, [Next]_vars
    PROVE  MovedInv'
<1>1. ASSUME NEW s \in Sessions, Begin(s) \/ Confirm(s) \/ LockOrder(s)
      PROVE  MovedInv'
  <2>1. /\ UNCHANGED <<stock, draft, itemLock>>
        /\ \A t \in Sessions \ {s} : req'[t] = req[t]
        /\ ~(InService(s) /\ req[s].phase = "stock")
    BY <1>1
       DEF StrandedInv, TypeOK, Begin, BeginCheckout, BeginPay, BeginMove,
           MayBegin, Confirm, LockOrder
  <2>2. \A v \in Variants : itemLock[v] # s
    BY <2>1 DEF StrandedInv, LockInv
  <2> QED
    BY <2>1, <2>2, MovedKept DEF ExactInv
<1>2. ASSUME NEW s \in Sessions,
             ReserveLine(s) \/ CommitLine(s) \/ ReleaseLine(s)
      PROVE  MovedInv'
  BY <1>2, MovedLine
<1>3. ASSUME NEW s \in Sessions,
             \/ ConfirmFails(s) \/ ReserveFails(s) \/ KeyTaken(s)
             \/ DeadlockVictim(s)
      PROVE  MovedInv'
  <2>1. Rollback(s)
    BY <1>3 DEF ConfirmFails, ReserveFails, KeyTaken, DeadlockVictim
  <2>2. \A v \in Variants : itemLock[v] # s =>
            draft'[v] = draft[v] /\ stock'[v] = stock[v]
    BY <2>1 DEF Rollback
  <2> QED
    BY <2>1, <2>2, MovedEnd DEF Rollback, ExactInv
<1>4. ASSUME NEW s \in Sessions, PlaceOrder(s) \/ CommitMove(s)
      PROVE  MovedInv'
  <2>1. ReleaseLocks(s) /\ PublishStock(s) /\ draft' = draft
    BY <1>4 DEF PlaceOrder, CommitMove
  <2>2. \A v \in Variants : itemLock[v] # s =>
            draft'[v] = draft[v] /\ stock'[v] = stock[v]
    BY <2>1 DEF PublishStock
  <2> QED
    BY <2>1, <2>2, MovedEnd DEF ExactInv
<1>5. ASSUME NEW v \in Variants, NEW delta \in Deltas, Adjust(v, delta)
      PROVE  MovedInv'
  <2>1. /\ UNCHANGED <<itemLock, req>> /\ itemLock[v] = NoSession
        /\ \A w \in Variants \ {v} :
              draft'[w] = draft[w] /\ stock'[w] = stock[w]
    BY <1>5 DEF StrandedInv, TypeOK, Adjust
  <2> QED
    BY <2>1, RequestAssumption, MovedKept DEF ExactInv
<1>6. CASE Restart
  <2>1. \A v \in Variants, s \in Sessions : itemLock'[v] # s
    BY <1>6, RequestAssumption DEF Restart
  <2> QED
    BY <2>1 DEF MovedInv
<1>7. CASE UNCHANGED vars
  BY <1>7, MovedKept DEF vars, ExactInv
<1> QED
  BY <1>1, <1>2, <1>3, <1>4, <1>5, <1>6, <1>7 DEF Next, Proceed

\* What a commit publishes: every row of the shop, moved by the units that the
\* order needs of it.  Rows that the order does not need were not touched.
LEMMA Published ==
    ASSUME StrandedInv, MovedInv, NEW s \in Sessions, AtEnd(s),
           MovesStock(s), PublishStock(s), NEW v \in Variants
    PROVE  /\ Need(req[s].key, v) \in Nat
           /\ stock[v] \in InventoryItem
           /\ stock'[v] = Moved(stock[v], req[s].target, Need(req[s].key, v))
<1> DEFINE k == req[s].key
<1>1. InService(s) /\ k \in Keys /\ KeepsLocks(s) /\ stock[v] \in InventoryItem
  BY RequestFields DEF StrandedInv, LockInv, AtEnd, TypeOK
<1>2. Done(s) = 1 .. Len(Lines(k))
  BY <1>1, DoneAll DEF StrandedInv, KeepsLocks
<1>3. Cardinality(Walked(s, v)) = Need(k, v)
  BY <1>2 DEF Walked, Need, Units
<1>4. Need(k, v) \in Nat
  BY <1>1, <1>3, WalkedType DEF StrandedInv
<1>5. CASE itemLock[v] = s
  BY <1>1, <1>3, <1>4, <1>5 DEF MovedInv, PublishStock
<1>6. CASE itemLock[v] # s
  <2>1. \A i \in 1 .. Len(Lines(k)) : Lines(k)[i].variant # v
    BY <1>1, <1>2, <1>6 DEF KeepsLocks
  <2>2. Need(k, v) = 0
    BY <1>1, <2>1, NoLineNoUnits, FS_EmptySet DEF Need
  <2>3. stock'[v] = stock[v]
    BY <1>6 DEF PublishStock
  <2> QED
    BY <1>1, <2>2, <2>3, MovedByNone
<1> QED
  BY <1>5, <1>6

\* The units held and sold, when the order of one key changes its status.
LEMMA UnitsMove ==
    ASSUME StrandedInv, NEW k \in Keys, NEW status,
           orderStatus' = [orderStatus EXCEPT ![k] = status], NEW v
    PROVE  /\ HeldUnits(v) = UnitsOf(AwaitingPayment, v)
           /\ Cardinality(HeldUnits(v)) \in Nat
           /\ Cardinality(SoldUnits(v)) \in Nat
           /\ orderStatus[k] = NoOrder /\ status = "awaiting_payment" =>
                 /\ Cardinality(HeldUnits(v)') =
                        Cardinality(HeldUnits(v)) + Need(k, v)
                 /\ Cardinality(SoldUnits(v)') = Cardinality(SoldUnits(v))
           /\ orderStatus[k] = "awaiting_payment" /\ status = "paid" =>
                 /\ Cardinality(HeldUnits(v)') =
                        Cardinality(HeldUnits(v)) - Need(k, v)
                 /\ Cardinality(SoldUnits(v)') =
                        Cardinality(SoldUnits(v)) + Need(k, v)
           /\ orderStatus[k] = "awaiting_payment" /\ status = "cancelled" =>
                 /\ Cardinality(HeldUnits(v)') =
                        Cardinality(HeldUnits(v)) - Need(k, v)
                 /\ Cardinality(SoldUnits(v)') = Cardinality(SoldUnits(v))
           /\ orderStatus[k] \in Settled /\ status \in Settled =>
                 /\ Cardinality(HeldUnits(v)') = Cardinality(HeldUnits(v))
                 /\ Cardinality(SoldUnits(v)') = Cardinality(SoldUnits(v))
<1> DEFINE A == AwaitingPayment
           S == SettledOrders
<1>1. A \in SUBSET Keys /\ S \in SUBSET Keys /\ A' \in SUBSET Keys
  BY DEF AwaitingPayment, SettledOrders
<1>2. /\ Cardinality(UnitsOf(A, v)) \in Nat
      /\ Cardinality(UnitsOf(S, v)) \in Nat
      /\ Cardinality(UnitsOf(A', v)) \in Nat
      /\ Need(k, v) \in Nat
  <2>1. {} \in SUBSET Keys /\ k \in Keys \ {}
    OBVIOUS
  <2> QED
    BY <1>1, <2>1, UnitsOfFinite, UnitsOfMore
<1>3. HeldUnits(v)' = UnitsOf(A', v) /\ SoldUnits(v)' = UnitsOf(S', v)
  BY DEF HeldUnits, SoldUnits
<1>4. ASSUME orderStatus[k] = NoOrder, status = "awaiting_payment"
      PROVE  A' = A \union {k} /\ k \notin A /\ S' = S
  BY <1>4
     DEF StrandedInv, TypeOK, AwaitingPayment, SettledOrders, Settled, NoOrder
<1>5. ASSUME orderStatus[k] = "awaiting_payment", status = "paid"
      PROVE  A = A' \union {k} /\ k \notin A' /\ S' = S \union {k} /\ k \notin S
  BY <1>5 DEF StrandedInv, TypeOK, AwaitingPayment, SettledOrders, Settled
<1>6. ASSUME orderStatus[k] = "awaiting_payment", status = "cancelled"
      PROVE  A = A' \union {k} /\ k \notin A' /\ S' = S
  BY <1>6 DEF StrandedInv, TypeOK, AwaitingPayment, SettledOrders, Settled
<1>7. ASSUME orderStatus[k] \in Settled, status \in Settled
      PROVE  A' = A /\ S' = S
  BY <1>7 DEF StrandedInv, TypeOK, AwaitingPayment, SettledOrders, Settled
<1>8. k \notin A => Cardinality(UnitsOf(A \union {k}, v)) =
                        Cardinality(UnitsOf(A, v)) + Need(k, v)
  BY <1>1, UnitsOfMore
<1>9. k \notin S => Cardinality(UnitsOf(S \union {k}, v)) =
                        Cardinality(UnitsOf(S, v)) + Need(k, v)
  BY <1>1, UnitsOfMore
<1>10. k \notin A' => Cardinality(UnitsOf(A' \union {k}, v)) =
                          Cardinality(UnitsOf(A', v)) + Need(k, v)
  BY <1>1, UnitsOfMore
<1>11. HeldUnits(v) = UnitsOf(A, v) /\ SoldUnits(v) = UnitsOf(S, v)
  BY DEF HeldUnits, SoldUnits
<1>12. ASSUME orderStatus[k] = NoOrder, status = "awaiting_payment"
       PROVE  /\ Cardinality(HeldUnits(v)') =
                      Cardinality(HeldUnits(v)) + Need(k, v)
              /\ Cardinality(SoldUnits(v)') = Cardinality(SoldUnits(v))
  BY <1>3, <1>4, <1>8, <1>11, <1>12
<1>13. ASSUME orderStatus[k] = "awaiting_payment",
              status \in {"paid", "cancelled"}
       PROVE  Cardinality(HeldUnits(v)') =
                  Cardinality(HeldUnits(v)) - Need(k, v)
  <2>1. A = A' \union {k} /\ k \notin A'
    BY <1>5, <1>6, <1>13
  <2>2. Cardinality(UnitsOf(A, v)) =
            Cardinality(UnitsOf(A', v)) + Need(k, v)
    BY <1>10, <2>1
  <2>3. Cardinality(UnitsOf(A', v)) =
            Cardinality(UnitsOf(A, v)) - Need(k, v)
    BY <1>2, <2>2
  <2> QED
    BY <1>3, <1>11, <2>3
<1>14. ASSUME orderStatus[k] = "awaiting_payment", status = "paid"
       PROVE  Cardinality(SoldUnits(v)') =
                  Cardinality(SoldUnits(v)) + Need(k, v)
  BY <1>3, <1>5, <1>9, <1>11, <1>14
<1>15. ASSUME orderStatus[k] = "awaiting_payment", status = "cancelled"
       PROVE  Cardinality(SoldUnits(v)') = Cardinality(SoldUnits(v))
  BY <1>3, <1>6, <1>11, <1>15
<1>16. ASSUME orderStatus[k] \in Settled, status \in Settled
       PROVE  /\ Cardinality(HeldUnits(v)') = Cardinality(HeldUnits(v))
              /\ Cardinality(SoldUnits(v)') = Cardinality(SoldUnits(v))
  BY <1>3, <1>7, <1>11, <1>16
<1>17. /\ HeldUnits(v) = UnitsOf(AwaitingPayment, v)
       /\ Cardinality(HeldUnits(v)) \in Nat
       /\ Cardinality(SoldUnits(v)) \in Nat
  BY <1>2, <1>11
<1> QED
  BY <1>12, <1>13, <1>14, <1>15, <1>16, <1>17

\* What a commit does to orders and stock: the order moves to its target, and
\* every row by the units the order needs of it, or none does.
LEMMA CommitEffect ==
    ASSUME StrandedInv, TurnInv, MovedInv, NEW s \in Sessions,
           PlaceOrder(s) \/ CommitMove(s)
    PROVE  LET k == req[s].key
               target == req[s].target
           IN  /\ InService(s) /\ req[s].phase = "stock" /\ k \in Keys
               /\ orderStatus' = [orderStatus EXCEPT ![k] = target]
               /\ ~MovesStock(s) => stock' = stock
               /\ MovesStock(s) => \A v \in Variants :
                     /\ Need(k, v) \in Nat
                     /\ stock[v] \in InventoryItem
                     /\ stock'[v] = Moved(stock[v], target, Need(k, v))
<1>1. AtEnd(s) /\ PublishStock(s) /\ InService(s) /\ req[s].phase = "stock"
  BY DEF PlaceOrder, CommitMove, AtEnd
<1>2. orderStatus' = [orderStatus EXCEPT ![req[s].key] = req[s].target]
  BY DEF PlaceOrder, CommitMove
<1>3. req[s].key \in Keys
  BY <1>1, RequestFields DEF StrandedInv
<1>4. ~MovesStock(s) => stock' = stock
  BY <1>1, PublishesNothing
<1>5. MovesStock(s) => \A v \in Variants :
          /\ Need(req[s].key, v) \in Nat
          /\ stock[v] \in InventoryItem
          /\ stock'[v] = Moved(stock[v], req[s].target, Need(req[s].key, v))
  BY <1>1, Published
<1> QED
  BY <1>1, <1>2, <1>3, <1>4, <1>5

\* The numbers that the exact properties compare, for one variant.
RowExact(v) ==
    /\ stock[v].reserved = Cardinality(HeldUnits(v))
    /\ stock[v].commitLog = Cardinality(SoldUnits(v))
    /\ stock[v].quantity =
           InitialStock[v] + stock[v].manualLog - stock[v].commitLog
    /\ stock[v].reserved =
           stock[v].reserveLog - stock[v].releaseLog - stock[v].commitLog

LEMMA ExactRows ==
    (\A v \in Variants : RowExact(v)) <=>
        ReservedIsHeld /\ SoldOnce /\ LedgerExplainsStock
BY DEF RowExact, ReservedIsHeld, SoldOnce, LedgerExplainsStock

\* Orders and stock commit together.
LEMMA CommitExact ==
    ASSUME StrandedInv, TurnInv, MovedInv, NEW s \in Sessions,
           PlaceOrder(s) \/ CommitMove(s),
           NEW v \in Variants, RowExact(v)
    PROVE  RowExact(v)'
<1> DEFINE k == req[s].key
           item == stock[v]
           n == Need(k, v)
<1>1. /\ InService(s) /\ req[s].phase = "stock" /\ k \in Keys
      /\ orderStatus' = [orderStatus EXCEPT ![k] = req[s].target]
  BY CommitEffect
<1>2. /\ InitialStock[v] \in Nat
      /\ Cardinality(HeldUnits(v)) \in Nat
      /\ Cardinality(SoldUnits(v)) \in Nat
  BY <1>1, RequestAssumption, UnitsMove
<1>3. CASE ~MovesStock(s)
  <2>1. orderStatus[k] \in Settled /\ req[s].target \in Settled
    BY <1>1, <1>3, OwnOrder
  <2>2. /\ Cardinality(HeldUnits(v)') = Cardinality(HeldUnits(v))
        /\ Cardinality(SoldUnits(v)') = Cardinality(SoldUnits(v))
    BY <1>1, <2>1, UnitsMove
  <2>3. stock' = stock
    BY <1>3, CommitEffect
  <2> QED
    BY <2>2, <2>3 DEF RowExact
<1>4. ASSUME MovesStock(s)
      PROVE  /\ n \in Nat /\ item \in InventoryItem
             /\ stock'[v] = Moved(item, req[s].target, n)
  BY <1>4, CommitEffect
<1>5. item \in InventoryItem =>
          /\ item.quantity \in Nat /\ item.reserved \in Nat
          /\ item.reserveLog \in Nat /\ item.releaseLog \in Nat
          /\ item.commitLog \in Nat /\ item.manualLog \in Int
  BY DEF InventoryItem
<1>6. /\ item.reserved = Cardinality(HeldUnits(v))
      /\ item.commitLog = Cardinality(SoldUnits(v))
      /\ item.quantity = InitialStock[v] + item.manualLog - item.commitLog
      /\ item.reserved = item.reserveLog - item.releaseLog - item.commitLog
  BY DEF RowExact
<1>7. CASE req[s].target = "awaiting_payment"
  <2>1. orderStatus[k] = NoOrder
    BY <1>1, <1>7, OwnOrder
  <2>2. /\ Cardinality(HeldUnits(v)') = Cardinality(HeldUnits(v)) + n
        /\ Cardinality(SoldUnits(v)') = Cardinality(SoldUnits(v))
    BY <1>1, <1>7, <2>1, UnitsMove
  <2>3. n \in Nat /\ item \in InventoryItem
        /\ stock'[v] = Moved(item, "awaiting_payment", n)
    BY <1>4, <1>7 DEF MovesStock
  <2>4. /\ stock'[v].quantity = item.quantity
        /\ stock'[v].reserved = item.reserved + n
        /\ stock'[v].reserveLog = item.reserveLog + n
        /\ stock'[v].releaseLog = item.releaseLog
        /\ stock'[v].commitLog = item.commitLog
        /\ stock'[v].manualLog = item.manualLog
    BY <2>3, MovedFields
  <2>5. /\ stock'[v].reserved = Cardinality(HeldUnits(v)')
        /\ stock'[v].commitLog = Cardinality(SoldUnits(v)')
    BY <1>2, <1>5, <1>6, <2>2, <2>3, <2>4
  <2>6. /\ stock'[v].quantity =
               InitialStock[v] + stock'[v].manualLog - stock'[v].commitLog
        /\ stock'[v].reserved = stock'[v].reserveLog -
               stock'[v].releaseLog - stock'[v].commitLog
    BY <1>2, <1>5, <1>6, <2>3, <2>4
  <2> QED
    BY <2>5, <2>6 DEF RowExact
<1>8. CASE req[s].target = "paid"
  <2>1. orderStatus[k] = "awaiting_payment"
    BY <1>1, <1>8, OwnOrder
  <2>2. /\ Cardinality(HeldUnits(v)') = Cardinality(HeldUnits(v)) - n
        /\ Cardinality(SoldUnits(v)') = Cardinality(SoldUnits(v)) + n
    BY <1>1, <1>8, <2>1, UnitsMove
  <2>3. n \in Nat /\ item \in InventoryItem
        /\ stock'[v] = Moved(item, "paid", n)
    BY <1>4, <1>8 DEF MovesStock
  <2>4. /\ stock'[v].quantity = item.quantity - n
        /\ stock'[v].reserved = item.reserved - n
        /\ stock'[v].reserveLog = item.reserveLog
        /\ stock'[v].releaseLog = item.releaseLog
        /\ stock'[v].commitLog = item.commitLog + n
        /\ stock'[v].manualLog = item.manualLog
    BY <2>3, MovedFields
  <2>5. /\ stock'[v].reserved = Cardinality(HeldUnits(v)')
        /\ stock'[v].commitLog = Cardinality(SoldUnits(v)')
    BY <1>2, <1>5, <1>6, <2>2, <2>3, <2>4
  <2>6. /\ stock'[v].quantity =
               InitialStock[v] + stock'[v].manualLog - stock'[v].commitLog
        /\ stock'[v].reserved = stock'[v].reserveLog -
               stock'[v].releaseLog - stock'[v].commitLog
    BY <1>2, <1>5, <1>6, <2>3, <2>4
  <2> QED
    BY <2>5, <2>6 DEF RowExact
<1>9. CASE req[s].target = "cancelled"
  <2>1. orderStatus[k] = "awaiting_payment"
    BY <1>1, <1>9, OwnOrder
  <2>2. /\ Cardinality(HeldUnits(v)') = Cardinality(HeldUnits(v)) - n
        /\ Cardinality(SoldUnits(v)') = Cardinality(SoldUnits(v))
    BY <1>1, <1>9, <2>1, UnitsMove
  <2>3. n \in Nat /\ item \in InventoryItem
        /\ stock'[v] = Moved(item, "cancelled", n)
    BY <1>4, <1>9 DEF MovesStock
  <2>4. /\ stock'[v].quantity = item.quantity
        /\ stock'[v].reserved = item.reserved - n
        /\ stock'[v].reserveLog = item.reserveLog
        /\ stock'[v].releaseLog = item.releaseLog + n
        /\ stock'[v].commitLog = item.commitLog
        /\ stock'[v].manualLog = item.manualLog
    BY <2>3, MovedFields
  <2>5. /\ stock'[v].reserved = Cardinality(HeldUnits(v)')
        /\ stock'[v].commitLog = Cardinality(SoldUnits(v)')
    BY <1>2, <1>5, <1>6, <2>2, <2>3, <2>4
  <2>6. /\ stock'[v].quantity =
               InitialStock[v] + stock'[v].manualLog - stock'[v].commitLog
        /\ stock'[v].reserved = stock'[v].reserveLog -
               stock'[v].releaseLog - stock'[v].commitLog
    BY <1>2, <1>5, <1>6, <2>3, <2>4
  <2> QED
    BY <2>5, <2>6 DEF RowExact
<1> QED
  BY <1>3, <1>7, <1>8, <1>9 DEF MovesStock

\* A correction is entered in the log.
LEMMA AdjustExact ==
    ASSUME TypeOK, NEW w \in Variants, NEW delta \in Deltas, Adjust(w, delta),
           NEW v \in Variants, RowExact(v)
    PROVE  RowExact(v)'
<1>1. HeldUnits(v)' = HeldUnits(v) /\ SoldUnits(v)' = SoldUnits(v)
  BY DEF Adjust, HeldUnits, SoldUnits, AwaitingPayment, SettledOrders
<1>2. CASE v # w
  BY <1>1, <1>2 DEF Adjust, TypeOK, RowExact
<1>3. CASE v = w
  <2> DEFINE item == stock[v]
  <2>1. /\ delta \in Int /\ InitialStock[v] \in Nat
        /\ item \in InventoryItem
        /\ item.reserved <= item.quantity + delta
        /\ stock'[v] = Adjusted(item, delta)
    BY <1>3, RequestAssumption DEF Adjust, TypeOK
  <2>2. /\ stock'[v].quantity = item.quantity + delta
        /\ stock'[v].reserved = item.reserved
        /\ stock'[v].reserveLog = item.reserveLog
        /\ stock'[v].releaseLog = item.releaseLog
        /\ stock'[v].commitLog = item.commitLog
        /\ stock'[v].manualLog = item.manualLog + delta
    BY <2>1, AdjustedItem DEF Adjusted, InventoryItem
  <2>3. /\ item.quantity \in Nat /\ item.commitLog \in Nat
        /\ item.manualLog \in Int
    BY <2>1 DEF InventoryItem
  <2>4. /\ item.reserved = Cardinality(HeldUnits(v))
        /\ item.commitLog = Cardinality(SoldUnits(v))
        /\ item.quantity = InitialStock[v] + item.manualLog - item.commitLog
        /\ item.reserved = item.reserveLog - item.releaseLog - item.commitLog
    BY DEF RowExact
  <2>5. /\ stock'[v].reserved = Cardinality(HeldUnits(v)')
        /\ stock'[v].commitLog = Cardinality(SoldUnits(v)')
    BY <1>1, <2>2, <2>4
  <2>6. /\ stock'[v].quantity =
               InitialStock[v] + stock'[v].manualLog - stock'[v].commitLog
        /\ stock'[v].reserved = stock'[v].reserveLog -
               stock'[v].releaseLog - stock'[v].commitLog
    BY <2>1, <2>2, <2>3, <2>4
  <2> QED
    BY <2>5, <2>6 DEF RowExact
<1> QED
  BY <1>2, <1>3

LEMMA ExactStep ==
    ASSUME StrandedInv, NeverOversold, ExactInv, OverlapAllowed = FALSE,
           [Next]_vars
    PROVE  ExactInv'
<1>1. TurnInv' /\ MovedInv'
  BY TurnStep, MovedStep DEF StrandedInv, ExactInv
<1>2. \A v \in Variants : RowExact(v)
  BY ExactRows DEF ExactInv
<1>3. ASSUME NEW v \in Variants
      PROVE  RowExact(v)'
  <2>1. CASE UNCHANGED <<orderStatus, stock>>
    BY <1>2, <2>1 DEF RowExact, HeldUnits, SoldUnits, AwaitingPayment,
                      SettledOrders
  <2>2. CASE \E s \in Sessions : PlaceOrder(s) \/ CommitMove(s)
    BY <1>2, <2>2, CommitExact DEF ExactInv
  <2>3. CASE \E w \in Variants, delta \in Deltas : Adjust(w, delta)
    BY <1>2, <2>3, AdjustExact DEF StrandedInv
  <2> QED
    BY <2>1, <2>2, <2>3, StockWriters
<1>4. (ReservedIsHeld /\ SoldOnce /\ LedgerExplainsStock)'
  <2>1. (\A v \in Variants : RowExact(v))'
    BY <1>3
  <2> QED
    BY <2>1, ExactRows, PTL
<1> QED
  BY <1>1, <1>4 DEF ExactInv

LEMMA ExactInit == Init => ExactInv
<1> SUFFICES ASSUME Init PROVE ExactInv
  OBVIOUS
<1>1. TurnInv
  BY BasketAssumption DEF Init, TurnInv, InService, OneOrderPerCart
<1>2. MovedInv
  BY RequestAssumption DEF Init, MovedInv
<1>3. ASSUME NEW v \in Variants
      PROVE  RowExact(v)
  <2>1. AwaitingPayment = {} /\ SettledOrders = {}
    BY DEF Init, AwaitingPayment, SettledOrders, NoOrder, Settled
  <2>2. HeldUnits(v) = {} /\ SoldUnits(v) = {}
    BY <2>1 DEF HeldUnits, SoldUnits, UnitsOf
  <2>3. stock[v] = NewItem(InitialStock[v]) /\ InitialStock[v] \in Nat
    BY RequestAssumption DEF Init
  <2> QED
    BY <2>2, <2>3, FS_EmptySet DEF RowExact, NewItem
<1> QED
  BY <1>1, <1>2, <1>3, ExactRows DEF ExactInv

\* As long as the requests of a cart take turns, what each has read of its order
\* stays true until it commits, and the rows it has under lock are the committed
\* ones moved by the lines it has walked over: no amount is clamped at zero.
THEOREM ExactRowsHold ==
    ASSUME OverlapAllowed = FALSE
    PROVE  Spec => []ExactInv
<1>1. StrandedInv /\ NeverOversold /\ ExactInv /\ [Next]_vars => ExactInv'
  BY ExactStep
<1> QED
  BY <1>1, ExactInit, StrandedInvHolds, NoOversell, PTL DEF Spec

\* As long as the requests of a cart take turns, reserved is the stock of the
\* unpaid orders, no less and no more: every one of them can be paid.
THEOREM ReservedForUnpaid ==
    ASSUME OverlapAllowed = FALSE
    PROVE  Spec => []ReservedIsHeld
<1>1. ExactInv => ReservedIsHeld
  BY DEF ExactInv
<1> QED
  BY <1>1, ExactRowsHold, PTL

\* As long as the requests of a cart take turns, every paid unit leaves the
\* shelf exactly once, across rollbacks, retries and restarts.
THEOREM PaidUnitsLeaveOnce ==
    ASSUME OverlapAllowed = FALSE
    PROVE  Spec => []SoldOnce
<1>1. ExactInv => SoldOnce
  BY DEF ExactInv
<1> QED
  BY <1>1, ExactRowsHold, PTL

\* As long as the requests of a cart take turns, the movement ledger adds up
\* to the inventory row: no change to stock is unexplained.
THEOREM StockIsExplained ==
    ASSUME OverlapAllowed = FALSE
    PROVE  Spec => []LedgerExplainsStock
<1>1. ExactInv => LedgerExplainsStock
  BY DEF ExactInv
<1> QED
  BY <1>1, ExactRowsHold, PTL

-----------------------------------------------------------------------------
(* The requests implement the ledger of StoreLedger.                       *)

LEMMA LedgerTerms ==
    /\ \A k, v : Ledger!Need(k, v) = Need(k, v)
    /\ \A current, target :
          Ledger!CanMove(current, target) <=> CanMove(current, target)
    /\ Ledger!NoOrder = NoOrder /\ Ledger!Settled = Settled
    /\ Ledger!OrderStatuses = OrderStatuses
<1>1. \A k, v : Ledger!Need(k, v) = Need(k, v)
  BY DEF Ledger!Need, Need, Ledger!Units, Units, Ledger!UnitsIn, UnitsIn,
         Ledger!UnitsOfLine, UnitsOfLine, Ledger!Lines, Lines,
         Ledger!Cardinality, Cardinality, Ledger!IsFiniteSet, IsFiniteSet
<1>2. \A current, target :
          Ledger!CanMove(current, target) <=> CanMove(current, target)
  BY DEF Ledger!CanMove, CanMove, Ledger!ALLOWED_TRANSITIONS,
         ALLOWED_TRANSITIONS
<1>3. Ledger!NoOrder = NoOrder /\ Ledger!Settled = Settled
      /\ Ledger!OrderStatuses = OrderStatuses
  BY DEF Ledger!NoOrder, NoOrder, Ledger!Settled, Settled,
         Ledger!OrderStatuses, OrderStatuses
<1> QED
  BY <1>1, <1>2, <1>3

\* What the ledger shows of the inventory.
Shelf == [v \in Variants |-> [quantity |-> stock[v].quantity,
                              reserved |-> stock[v].reserved]]

\* A checkout commits: it places the order of the ledger.  The rows it
\* publishes are not oversold, so all the lines were in stock.
LEMMA PlaceImplements ==
    ASSUME StrandedInv, NeverOversold', ExactInv, NEW s \in Sessions,
           PlaceOrder(s), NEW k \in Keys, req[s].key = k
    PROVE  Ledger!Place(k)
<1>1. /\ InService(s) /\ req[s].target = "awaiting_payment" /\ MovesStock(s)
      /\ orderStatus[k] = NoOrder
      /\ orderStatus' = [orderStatus EXCEPT ![k] = "awaiting_payment"]
      /\ cartStatus' = [cartStatus EXCEPT ![CartOf[k]] = "converted"]
  BY DEF PlaceOrder, AtEnd, MovesStock
<1>2. cartStatus[CartOf[k]] = "active"
  BY <1>1 DEF ExactInv, TurnInv
<1>3. ASSUME NEW v \in Variants
      PROVE  /\ Need(k, v) \in Nat /\ stock[v] \in InventoryItem
             /\ stock'[v].quantity = stock[v].quantity
             /\ stock'[v].reserved = stock[v].reserved + Need(k, v)
  <2>1. /\ Need(k, v) \in Nat /\ stock[v] \in InventoryItem
        /\ stock'[v] = Moved(stock[v], "awaiting_payment", Need(k, v))
    BY <1>1, CommitEffect DEF ExactInv
  <2> QED
    BY <2>1, MovedFields
<1>4. \A v \in Variants :
          stock[v].reserved + Need(k, v) <= stock[v].quantity
  BY <1>3 DEF NeverOversold
<1>5. Shelf' = [v \in Variants |->
                   [Shelf[v] EXCEPT !.reserved = @ + Need(k, v)]]
  BY <1>3 DEF Shelf
<1> QED
  BY <1>1, <1>2, <1>4, <1>5, LedgerTerms DEF Ledger!Place, Shelf

\* Payment, cancellation and bookkeeping commit: the ledger pays, cancels or
\* moves the order on.
LEMMA MoveImplements ==
    ASSUME StrandedInv, ExactInv, NEW s \in Sessions, CommitMove(s),
           NEW k \in Keys, req[s].key = k,
           NEW target \in OrderStatuses, req[s].target = target
    PROVE  Ledger!Pay(k) \/ Ledger!Cancel(k) \/ Ledger!MoveOn(k, target)
<1>1. /\ InService(s) /\ req[s].phase = "stock"
      /\ req[s].target # "awaiting_payment"
      /\ orderStatus' = [orderStatus EXCEPT ![k] = req[s].target]
      /\ cartStatus' = cartStatus
  BY DEF CommitMove, AtEnd
<1>2. CASE req[s].target = "paid"
  <2>1. orderStatus[k] = "awaiting_payment"
    BY <1>1, <1>2, OwnOrder DEF ExactInv
  <2>2. ASSUME NEW v \in Variants
        PROVE  /\ stock'[v].quantity = stock[v].quantity - Need(k, v)
               /\ stock'[v].reserved = stock[v].reserved - Need(k, v)
    <3>1. /\ Need(k, v) \in Nat /\ stock[v] \in InventoryItem
          /\ stock'[v] = Moved(stock[v], "paid", Need(k, v))
      BY <1>2, CommitEffect DEF ExactInv, MovesStock
    <3> QED
      BY <3>1, MovedFields
  <2>3. Shelf' = [v \in Variants |->
                     [quantity |-> Shelf[v].quantity - Need(k, v),
                      reserved |-> Shelf[v].reserved - Need(k, v)]]
    BY <2>2 DEF Shelf
  <2> QED
    BY <1>1, <1>2, <2>1, <2>3, LedgerTerms DEF Ledger!Pay, Shelf
<1>3. CASE req[s].target = "cancelled"
  <2>1. orderStatus[k] = "awaiting_payment"
    BY <1>1, <1>3, OwnOrder DEF ExactInv
  <2>2. ASSUME NEW v \in Variants
        PROVE  /\ stock'[v].quantity = stock[v].quantity
               /\ stock'[v].reserved = stock[v].reserved - Need(k, v)
    <3>1. /\ Need(k, v) \in Nat /\ stock[v] \in InventoryItem
          /\ stock'[v] = Moved(stock[v], "cancelled", Need(k, v))
      BY <1>3, CommitEffect DEF ExactInv, MovesStock
    <3> QED
      BY <3>1, MovedFields
  <2>3. Shelf' = [v \in Variants |->
                     [Shelf[v] EXCEPT !.reserved = @ - Need(k, v)]]
    BY <2>2 DEF Shelf
  <2> QED
    BY <1>1, <1>3, <2>1, <2>3, LedgerTerms DEF Ledger!Cancel, Shelf
<1>4. CASE ~MovesStock(s)
  <2>1. /\ orderStatus[k] \in Settled
        /\ CanMove(orderStatus[k], req[s].target)
    BY <1>1, <1>4, OwnOrder DEF ExactInv
  <2>2. stock' = stock
    BY <1>4, CommitEffect DEF ExactInv
  <2> QED
    BY <1>1, <2>1, <2>2, LedgerTerms DEF Ledger!MoveOn
<1> QED
  BY <1>1, <1>2, <1>3, <1>4 DEF MovesStock

\* A correction is a correction.
LEMMA AdjustImplements ==
    ASSUME TypeOK, NEW v \in Variants, NEW delta \in Deltas, Adjust(v, delta)
    PROVE  Ledger!Correct(v, delta)
<1>1. /\ stock[v] \in InventoryItem /\ delta \in Int
      /\ stock[v].reserved <= stock[v].quantity + delta
      /\ stock[v].quantity + delta <= MaxStock
      /\ stock' = [stock EXCEPT ![v] = Adjusted(@, delta)]
      /\ UNCHANGED <<orderStatus, cartStatus>>
  BY RequestAssumption DEF Adjust, TypeOK
<1>2. /\ stock'[v].quantity = stock[v].quantity + delta
      /\ stock'[v].reserved = stock[v].reserved
      /\ \A w \in Variants \ {v} : stock'[w] = stock[w]
  <2>1. /\ stock'[v] = Adjusted(stock[v], delta)
        /\ \A w \in Variants \ {v} : stock'[w] = stock[w]
    BY <1>1 DEF TypeOK
  <2> QED
    BY <1>1, <2>1, AdjustedItem
<1>3. Shelf' = [Shelf EXCEPT ![v].quantity = @ + delta]
  BY <1>2 DEF Shelf
<1> QED
  BY <1>1, <1>3 DEF Ledger!Correct, Shelf

LEMMA LedgerStep ==
    ASSUME StrandedInv, NeverOversold, NeverOversold', ExactInv, [Next]_vars
    PROVE  [Ledger!LedgerNext]_(Ledger!ledgerVars)
<1>1. CASE \E s \in Sessions : PlaceOrder(s)
  <2>1. PICK s \in Sessions : PlaceOrder(s)
    BY <1>1
  <2>2. PICK k \in Keys : req[s].key = k
    BY <2>1, RequestFields DEF StrandedInv, PlaceOrder, AtEnd
  <2>3. Ledger!Place(k)
    BY <2>1, <2>2, PlaceImplements
  <2> QED
    BY <2>3 DEF Ledger!LedgerNext
<1>2. CASE \E s \in Sessions : CommitMove(s)
  <2>1. PICK s \in Sessions : CommitMove(s)
    BY <1>2
  <2>2. PICK k \in Keys, target \in OrderStatuses :
            req[s].key = k /\ req[s].target = target
    BY <2>1, RequestFields DEF StrandedInv, CommitMove, AtEnd
  <2>3. Ledger!Pay(k) \/ Ledger!Cancel(k) \/ Ledger!MoveOn(k, target)
    BY <2>1, <2>2, MoveImplements
  <2> QED
    BY <2>3, LedgerTerms DEF Ledger!LedgerNext
<1>3. CASE \E v \in Variants, delta \in Deltas : Adjust(v, delta)
  BY <1>3, AdjustImplements DEF StrandedInv, Ledger!LedgerNext
<1>4. CASE /\ UNCHANGED <<orderStatus, stock>>
           /\ \A s \in Sessions : ~PlaceOrder(s)
  <2>1. cartStatus' = cartStatus
    BY <1>4 DEF Next, Begin, Proceed, vars, BeginCheckout, BeginPay, BeginMove,
                Confirm, ConfirmFails, LockOrder, ReserveLine, ReserveFails,
                CommitLine, ReleaseLine, WriteItem, KeyTaken, CommitMove,
                DeadlockVictim, Rollback, Adjust, Restart
  <2> QED
    BY <1>4, <2>1 DEF Ledger!ledgerVars
<1> QED
  BY <1>1, <1>2, <1>3, <1>4, StockWriters

\* The requests implement the abstract store: as long as the requests of a
\* cart take turns, what can be seen of orders, carts and stock between
\* commits is what StoreLedger promises, whatever was rolled back meanwhile.
THEOREM RequestsImplementLedger ==
    ASSUME OverlapAllowed = FALSE
    PROVE  Spec => ImplementsLedger
<1>1. Init => Ledger!LedgerInit
  BY LedgerTerms DEF Init, Ledger!LedgerInit, NewItem
<1>2. StrandedInv /\ NeverOversold /\ NeverOversold' /\ ExactInv /\ [Next]_vars
          => [Ledger!LedgerNext]_(Ledger!ledgerVars)
  BY LedgerStep
<1> QED
  BY <1>1, <1>2, StrandedInvHolds, NoOversell, ExactRowsHold, PTL
     DEF Spec, ImplementsLedger, Ledger!LedgerSpec

=============================================================================
