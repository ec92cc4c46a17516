------------------------ MODULE StoreRequests_proof ------------------------
(***************************************************************************)
(* Theorems about StoreRequests for every value of its constants, whatever *)
(* requests overlap: the types, that stock is never oversold, that none is *)
(* stranded, that settled orders were charged, that the movements of stock *)
(* are booked, and what it takes for requests to deadlock.                 *)
(***************************************************************************)
EXTENDS StoreInvariant, Baskets_proof, WellFoundedInduction

-----------------------------------------------------------------------------
(* Inventory rows and the lines that move them.                            *)

\* What reserve does to an inventory row.
LEMMA ReserveItem ==
    ASSUME NEW item \in InventoryItem, NEW n \in Nat
    PROVE  /\ Reserve(item, n) \in InventoryItem
           /\ Reserve(item, n).reserved = item.reserved + n
           /\ Reserve(item, n).quantity = item.quantity
<1>1. ASSUME NEW r \in Nat, NEW m \in Nat
      PROVE  [item EXCEPT !.reserved = r, !.reserveLog = m] \in InventoryItem
  BY DEF InventoryItem
<1>2. item.reserved + n \in Nat /\ item.reserveLog + n \in Nat
  BY DEF InventoryItem, AtLeastZero
<1>3. Reserve(item, n) \in InventoryItem
  BY <1>1, <1>2 DEF Reserve
<1>4. /\ Reserve(item, n).reserved = item.reserved + n
      /\ Reserve(item, n).quantity = item.quantity
  BY DEF Reserve, InventoryItem
<1> QED
  BY <1>3, <1>4

\* What release does to an inventory row.
LEMMA ReleaseItem ==
    ASSUME NEW item \in InventoryItem, NEW n \in Nat
    PROVE  /\ Release(item, n) \in InventoryItem
           /\ Release(item, n).reserved = AtLeastZero(item.reserved - n)
           /\ Release(item, n).quantity = item.quantity
<1>1. ASSUME NEW r \in Nat, NEW m \in Nat
      PROVE  [item EXCEPT !.reserved = r, !.releaseLog = m] \in InventoryItem
  BY DEF InventoryItem
<1>2. AtLeastZero(item.reserved - n) \in Nat /\ item.releaseLog + n \in Nat
  BY DEF InventoryItem, AtLeastZero
<1>3. Release(item, n) \in InventoryItem
  BY <1>1, <1>2 DEF Release
<1>4. /\ Release(item, n).reserved = AtLeastZero(item.reserved - n)
      /\ Release(item, n).quantity = item.quantity
  BY DEF Release, InventoryItem
<1> QED
  BY <1>3, <1>4

\* What commit_reservation does to an inventory row.
LEMMA CommitItem ==
    ASSUME NEW item \in InventoryItem, NEW n \in Nat
    PROVE  /\ CommitReservation(item, n) \in InventoryItem
           /\ CommitReservation(item, n).reserved =
                  AtLeastZero(item.reserved - n)
           /\ CommitReservation(item, n).quantity =
                  AtLeastZero(item.quantity - n)
<1>1. ASSUME NEW r \in Nat, NEW q \in Nat, NEW m \in Nat
      PROVE  [item EXCEPT !.reserved = r, !.quantity = q, !.commitLog = m] \in InventoryItem
  BY DEF InventoryItem
<1>2. /\ AtLeastZero(item.reserved - n) \in Nat
      /\ AtLeastZero(item.quantity - n) \in Nat
      /\ item.commitLog + n \in Nat
  BY DEF InventoryItem, AtLeastZero
<1>3. CommitReservation(item, n) \in InventoryItem
  BY <1>1, <1>2 DEF CommitReservation
<1>4. /\ CommitReservation(item, n).reserved = AtLeastZero(item.reserved - n)
      /\ CommitReservation(item, n).quantity = AtLeastZero(item.quantity - n)
  BY DEF CommitReservation, InventoryItem
<1> QED
  BY <1>3, <1>4

\* What adjust does to an inventory row: its max(0, ...) never bites, since
\* the guard keeps the new quantity at or above what is reserved.
LEMMA AdjustedItem ==
    ASSUME NEW item \in InventoryItem, NEW delta \in Int,
           item.reserved <= item.quantity + delta
    PROVE  /\ Adjusted(item, delta) \in InventoryItem
           /\ Adjusted(item, delta).reserved = item.reserved
           /\ Adjusted(item, delta).quantity = item.quantity + delta
<1>1. ASSUME NEW q \in Nat, NEW m \in Int
      PROVE  [item EXCEPT !.quantity = q, !.manualLog = m] \in InventoryItem
  BY DEF InventoryItem
<1>2. /\ AtLeastZero(item.quantity + delta) = item.quantity + delta
      /\ item.quantity + delta \in Nat
      /\ item.manualLog + delta \in Int
  BY DEF InventoryItem, AtLeastZero
<1>3. Adjusted(item, delta) \in InventoryItem
  BY <1>1, <1>2 DEF Adjusted
<1>4. /\ Adjusted(item, delta).reserved = item.reserved
      /\ Adjusted(item, delta).quantity = AtLeastZero(item.quantity + delta)
  BY DEF Adjusted, InventoryItem
<1> QED
  BY <1>2, <1>3, <1>4

\* Fields of a request in service.
LEMMA RequestFields ==
    ASSUME TypeOK, NEW s \in Sessions, InService(s)
    PROVE  /\ req[s] \in Request
           /\ req[s].phase \in {"confirm", "update", "stock"}
           /\ req[s].key \in Keys
           /\ req[s].target \in OrderStatuses
           /\ req[s].snap \in OrderStatuses \union {NoOrder}
           /\ req[s].walk \in Walks(req[s].key)
           /\ req[s].line \in Nat \ {0}
BY DEF TypeOK, InService, Request

\* A walk comes to every line, and to each of them once.
LEMMA WalkFacts ==
    ASSUME NEW k \in Keys, NEW walk \in Walks(k)
    PROVE  /\ walk \in [LineNumbers(k) -> LineNumbers(k)]
           /\ \A i, j \in LineNumbers(k) : walk[i] = walk[j] => i = j
           /\ \A n \in LineNumbers(k) : \E i \in LineNumbers(k) : walk[i] = n
BY DEF Walks, Bijection, Injection, Surjection, IsInjective

LEMMA WalksTypes ==
    ASSUME NEW k \in Keys, NEW target
    PROVE  /\ ByPosition(k) \in Walks(k)
           /\ WalksTo(k, target) \subseteq Walks(k)
<1>1. ByPosition(k) \in Walks(k)
  <2>1. /\ ByPosition(k) \in [LineNumbers(k) -> LineNumbers(k)]
        /\ \A i, j \in LineNumbers(k) :
              ByPosition(k)[i] = ByPosition(k)[j] => i = j
        /\ \A n \in LineNumbers(k) :
              \E i \in LineNumbers(k) : ByPosition(k)[i] = n
    BY DEF ByPosition
  <2> HIDE DEF ByPosition
  <2> QED
    BY <2>1, Fun_IsBij DEF Walks
<1> QED
  BY <1>1 DEF WalksTo

\* The line a request is at.
LEMMA CurrentLineType ==
    ASSUME TypeOK, NEW s \in Sessions, AtLine(s)
    PROVE  /\ req[s] \in Request
           /\ req[s].line \in 1 .. Len(Lines(req[s].key))
           /\ req[s].walk[req[s].line] \in 1 .. Len(Lines(req[s].key))
           /\ CurrentLine(s).variant \in Variants
           /\ CurrentLine(s).quantity \in Nat \ {0}
<1>1. req[s] \in Request /\ req[s].walk \in Walks(req[s].key)
  BY RequestFields DEF AtLine
<1>2. req[s].key \in Keys /\ req[s].line \in Nat \ {0}
  BY RequestFields DEF AtLine
<1>3. /\ Len(Lines(req[s].key)) \in Nat
      /\ \A i \in 1 .. Len(Lines(req[s].key)) :
            /\ Lines(req[s].key)[i].variant \in Variants
            /\ Lines(req[s].key)[i].quantity \in Nat \ {0}
  BY <1>2, LinesType
<1>4. req[s].line \in 1 .. Len(Lines(req[s].key))
  BY <1>2, <1>3 DEF AtLine, LinesToDo
<1>5. req[s].walk[req[s].line] \in 1 .. Len(Lines(req[s].key))
  BY <1>1, <1>2, <1>4, WalkFacts DEF LineNumbers
<1> QED
  BY <1>1, <1>3, <1>4, <1>5 DEF CurrentLine

-----------------------------------------------------------------------------
(* Types.                                                                  *)

\* Closing a session keeps the types of the locks and of the requests.
LEMMA ReleaseLocksType ==
    ASSUME TypeOK, NEW s \in Sessions, ReleaseLocks(s)
    PROVE  /\ itemLock' \in [Variants -> Holder]
           /\ orderLock' \in [Keys -> Holder]
           /\ req' \in [Sessions -> Request \union {Idle}]
BY DEF TypeOK, ReleaseLocks, Holder

LEMMA RollbackType ==
    ASSUME TypeOK, NEW s \in Sessions, Rollback(s)
    PROVE  TypeOK'
<1>1. draft' \in [Variants -> InventoryItem]
  BY DEF TypeOK, Rollback
<1> QED
  BY <1>1, ReleaseLocksType DEF TypeOK, Rollback

LEMMA WriteItemType ==
    ASSUME TypeOK, NEW s \in Sessions, AtLine(s),
           NEW item \in InventoryItem, WriteItem(s, item)
    PROVE  TypeOK'
<1>1. req[s] \in Request /\ CurrentLine(s).variant \in Variants
  BY CurrentLineType
<1>2. req' \in [Sessions -> Request \union {Idle}]
  BY <1>1 DEF TypeOK, WriteItem, Request
<1>3. itemLock' \in [Variants -> Holder]
  BY DEF TypeOK, WriteItem, Holder
<1>4. draft' \in [Variants -> InventoryItem]
  BY DEF TypeOK, WriteItem
<1> QED
  BY <1>2, <1>3, <1>4 DEF TypeOK, WriteItem

\* A new request is a Request.
LEMMA NewRequestType ==
    ASSUME TypeOK, NEW k \in Keys, NEW target \in OrderStatuses,
           NEW phase \in {"confirm", "update", "stock"}
    PROVE  NewRequest(phase, k, target) \in Request
BY WalksTypes DEF TypeOK, NewRequest, Request

LEMMA TypeStep ==
    ASSUME TypeOK, [Next]_vars
    PROVE  TypeOK'
<1>1. ASSUME NEW s \in Sessions, NEW k \in Keys, BeginCheckout(s, k)
      PROVE  TypeOK'
  <2>1. NewRequest("stock", k, "awaiting_payment") \in Request
    BY NewRequestType DEF OrderStatuses
  <2> QED
    BY <1>1, <2>1 DEF TypeOK, BeginCheckout
<1>2. ASSUME NEW s \in Sessions, NEW k \in Keys, BeginPay(s, k)
      PROVE  TypeOK'
  <2>1. NewRequest("confirm", k, "paid") \in Request
    BY NewRequestType DEF OrderStatuses
  <2> QED
    BY <1>2, <2>1 DEF TypeOK, BeginPay
<1>3. ASSUME NEW s \in Sessions, NEW k \in Keys,
             NEW target \in OrderStatuses, BeginMove(s, k, target)
      PROVE  TypeOK'
  <2>1. NewRequest("update", k, target) \in Request
    BY NewRequestType
  <2> QED
    BY <1>3, <2>1 DEF TypeOK, BeginMove
<1>4. ASSUME NEW s \in Sessions, Confirm(s)
      PROVE  TypeOK'
  <2>1. req[s] \in Request
    BY <1>4 DEF TypeOK, Confirm, InService
  <2>2. [req[s] EXCEPT !.phase = "update"] \in Request
    BY <2>1 DEF Request
  <2>3. req' \in [Sessions -> Request \union {Idle}]
    BY <1>4, <2>2 DEF TypeOK, Confirm
  <2>4. charged' \subseteq Keys
    BY <1>4 DEF TypeOK, Confirm
  <2> QED
    BY <1>4, <2>3, <2>4 DEF TypeOK, Confirm
<1>5. ASSUME NEW s \in Sessions, LockOrder(s)
      PROVE  TypeOK'
  <2>1. req[s] \in Request
    BY <1>5 DEF TypeOK, LockOrder, InService
  <2>2. ASSUME NEW walk \in WalksTo(req[s].key, req[s].target)
        PROVE  [req[s] EXCEPT !.phase = "stock", !.walk = walk] \in Request
    <3>1. req[s].key \in Keys /\ walk \in Walks(req[s].key)
      BY <2>1, WalksTypes DEF Request
    <3> QED
      BY <2>1, <3>1 DEF Request
  <2>3. req' \in [Sessions -> Request \union {Idle}]
    BY <1>5, <2>2 DEF TypeOK, LockOrder
  <2>4. orderLock' \in [Keys -> Holder]
    BY <1>5 DEF TypeOK, LockOrder, Holder
  <2> QED
    BY <1>5, <2>3, <2>4 DEF TypeOK, LockOrder
<1>6. ASSUME NEW s \in Sessions,
             ReserveLine(s) \/ CommitLine(s) \/ ReleaseLine(s)
      PROVE  TypeOK'
  <2>1. AtLine(s)
    BY <1>6 DEF ReserveLine, CommitLine, ReleaseLine
  <2> DEFINE l == CurrentLine(s)
             item == draft[l.variant]
  <2>2. item \in InventoryItem /\ l.quantity \in Nat
    BY <2>1, CurrentLineType DEF TypeOK
  <2>3. CASE ReserveLine(s)
    <3>1. Reserve(item, l.quantity) \in InventoryItem
      BY <2>2, ReserveItem
    <3> QED
      BY <2>1, <2>3, <3>1, WriteItemType DEF ReserveLine
  <2>4. CASE CommitLine(s)
    <3>1. CommitReservation(item, l.quantity) \in InventoryItem
      BY <2>2, CommitItem
    <3> QED
      BY <2>1, <2>4, <3>1, WriteItemType DEF CommitLine
  <2>5. CASE ReleaseLine(s)
    <3>1. Release(item, l.quantity) \in InventoryItem
      BY <2>2, ReleaseItem
    <3> QED
      BY <2>1, <2>5, <3>1, WriteItemType DEF ReleaseLine
  <2> QED
    BY <1>6, <2>3, <2>4, <2>5
<1>7. ASSUME NEW s \in Sessions, PlaceOrder(s)
      PROVE  TypeOK'
  <2>1. req[s] \in Request
    BY <1>7 DEF TypeOK, PlaceOrder, AtEnd, InService
  <2>2. stock' \in [Variants -> InventoryItem]
    BY <1>7 DEF TypeOK, PlaceOrder, PublishStock
  <2>3. orderStatus' \in [Keys -> OrderStatuses \union {NoOrder}]
    BY <1>7 DEF TypeOK, PlaceOrder, OrderStatuses
  <2>4. cartStatus' \in [Carts -> {"active", "converted"}]
    BY <1>7 DEF TypeOK, PlaceOrder
  <2>5. intents' \subseteq Keys
    BY <1>7, <2>1 DEF TypeOK, PlaceOrder, Request
  <2> QED
    BY <1>7, <2>2, <2>3, <2>4, <2>5, ReleaseLocksType DEF TypeOK, PlaceOrder
<1>8. ASSUME NEW s \in Sessions, CommitMove(s)
      PROVE  TypeOK'
  <2>1. req[s] \in Request
    BY <1>8 DEF TypeOK, CommitMove, AtEnd, InService
  <2>2. stock' \in [Variants -> InventoryItem]
    BY <1>8 DEF TypeOK, CommitMove, PublishStock
  <2>3. orderStatus' \in [Keys -> OrderStatuses \union {NoOrder}]
    BY <1>8, <2>1 DEF TypeOK, CommitMove, Request
  <2> QED
    BY <1>8, <2>2, <2>3, ReleaseLocksType DEF TypeOK, CommitMove
<1>9. ASSUME NEW s \in Sessions,
             \/ ConfirmFails(s) \/ ReserveFails(s) \/ KeyTaken(s)
             \/ DeadlockVictim(s)
      PROVE  TypeOK'
  BY <1>9, RollbackType DEF ConfirmFails, ReserveFails, KeyTaken, DeadlockVictim
<1>10. ASSUME NEW v \in Variants, NEW delta \in Deltas, Adjust(v, delta)
       PROVE  TypeOK'
  <2>1. stock[v] \in InventoryItem /\ delta \in Int
    BY RequestAssumption DEF TypeOK
  <2>2. Adjusted(stock[v], delta) \in InventoryItem
    BY <1>10, <2>1, AdjustedItem DEF Adjust
  <2> QED
    BY <1>10, <2>2 DEF TypeOK, Adjust
<1>11. CASE Restart
  BY <1>11 DEF TypeOK, Restart, Holder
<1>12. CASE UNCHANGED vars
  BY <1>12 DEF TypeOK, vars
<1> QED
  BY <1>1, <1>2, <1>3, <1>4, <1>5, <1>6, <1>7, <1>8, <1>9, <1>10, <1>11,
     <1>12 DEF Next, Begin, Proceed

LEMMA TypeInit == Init => TypeOK
<1> SUFFICES ASSUME Init PROVE TypeOK
  OBVIOUS
<1>1. \A n \in Nat : NewItem(n) \in InventoryItem
  BY DEF NewItem, InventoryItem
<1>2. stock \in [Variants -> InventoryItem]
  BY <1>1, RequestAssumption DEF Init
<1> QED
  BY <1>2 DEF Init, TypeOK, Holder

\* Every variable keeps its type.
THEOREM TypeCorrect == Spec => []TypeOK
<1>1. Init => TypeOK
  BY TypeInit
<1>2. TypeOK /\ [Next]_vars => TypeOK'
  BY TypeStep
<1> QED
  BY <1>1, <1>2, PTL DEF Spec

-----------------------------------------------------------------------------
(* Stock is never oversold.                                                *)

\* One row: not more promised than there is.
Covered(item) == item.reserved <= item.quantity

LEMMA RollbackCovered ==
    ASSUME TypeOK, NeverOversold, NEW s \in Sessions, Rollback(s)
    PROVE  NeverOversold'
BY DEF TypeOK, NeverOversold, Rollback

LEMMA PublishCovered ==
    ASSUME TypeOK, NeverOversold, NEW s \in Sessions, PublishStock(s),
           draft' = draft
    PROVE  NeverOversold'
BY DEF TypeOK, NeverOversold, PublishStock

LEMMA WriteItemCovered ==
    ASSUME TypeOK, NeverOversold, NEW s \in Sessions, AtLine(s),
           NEW item \in InventoryItem, Covered(item), WriteItem(s, item)
    PROVE  NeverOversold'
<1>1. CurrentLine(s).variant \in Variants
  BY CurrentLineType
<1> QED
  BY <1>1 DEF TypeOK, NeverOversold, WriteItem, Covered

LEMMA OversoldStep ==
    ASSUME TypeOK, NeverOversold, [Next]_vars
    PROVE  NeverOversold'
<1>1. ASSUME NEW s \in Sessions,
             ReserveLine(s) \/ CommitLine(s) \/ ReleaseLine(s)
      PROVE  NeverOversold'
  <2>1. AtLine(s)
    BY <1>1 DEF ReserveLine, CommitLine, ReleaseLine
  <2> DEFINE l == CurrentLine(s)
             item == draft[l.variant]
  <2>2. /\ item \in InventoryItem /\ l.quantity \in Nat
        /\ item.reserved \in Nat /\ item.quantity \in Nat
        /\ item.reserved <= item.quantity
    BY <2>1, CurrentLineType DEF TypeOK, NeverOversold, InventoryItem
  <2>3. CASE ReserveLine(s)
    <3>1. item.quantity - item.reserved >= l.quantity
      BY <2>3 DEF ReserveLine, Available
    <3>2. /\ Reserve(item, l.quantity) \in InventoryItem
          /\ Covered(Reserve(item, l.quantity))
      <4> HIDE DEF item, l
      <4>1. /\ Reserve(item, l.quantity) \in InventoryItem
            /\ Reserve(item, l.quantity).reserved = item.reserved + l.quantity
            /\ Reserve(item, l.quantity).quantity = item.quantity
        BY <2>2, ReserveItem
      <4> QED
        BY <2>2, <3>1, <4>1 DEF Covered
    <3>w. WriteItem(s, Reserve(item, l.quantity))
      BY <2>3 DEF ReserveLine
    <3> QED
      BY <2>1, <3>2, <3>w, WriteItemCovered
  <2>4. CASE CommitLine(s)
    <3>1. /\ CommitReservation(item, l.quantity) \in InventoryItem
          /\ Covered(CommitReservation(item, l.quantity))
      <4> HIDE DEF item, l
      <4>1. LET new == CommitReservation(item, l.quantity)
            IN  /\ new \in InventoryItem
                /\ new.reserved = AtLeastZero(item.reserved - l.quantity)
                /\ new.quantity = AtLeastZero(item.quantity - l.quantity)
        BY <2>2, CommitItem
      <4> QED
        BY <2>2, <4>1 DEF Covered, AtLeastZero
    <3>w. WriteItem(s, CommitReservation(item, l.quantity))
      BY <2>4 DEF CommitLine
    <3> QED
      BY <2>1, <3>1, <3>w, WriteItemCovered
  <2>5. CASE ReleaseLine(s)
    <3>1. /\ Release(item, l.quantity) \in InventoryItem
          /\ Covered(Release(item, l.quantity))
      <4> HIDE DEF item, l
      <4>1. LET new == Release(item, l.quantity)
            IN  /\ new \in InventoryItem
                /\ new.reserved = AtLeastZero(item.reserved - l.quantity)
                /\ new.quantity = item.quantity
        BY <2>2, ReleaseItem
      <4> QED
        BY <2>2, <4>1 DEF Covered, AtLeastZero
    <3>w. WriteItem(s, Release(item, l.quantity))
      BY <2>5 DEF ReleaseLine
    <3> QED
      BY <2>1, <3>1, <3>w, WriteItemCovered
  <2> QED
    BY <1>1, <2>3, <2>4, <2>5
<1>2. ASSUME NEW s \in Sessions, PlaceOrder(s) \/ CommitMove(s)
      PROVE  NeverOversold'
  BY <1>2, PublishCovered DEF PlaceOrder, CommitMove
<1>3. ASSUME NEW s \in Sessions,
             \/ ConfirmFails(s) \/ ReserveFails(s) \/ KeyTaken(s)
             \/ DeadlockVictim(s)
      PROVE  NeverOversold'
  BY <1>3, RollbackCovered
     DEF ConfirmFails, ReserveFails, KeyTaken, DeadlockVictim
<1>4. ASSUME NEW v \in Variants, NEW delta \in Deltas, Adjust(v, delta)
      PROVE  NeverOversold'
  <2>1. /\ stock[v] \in InventoryItem /\ delta \in Int
        /\ stock[v].reserved <= stock[v].quantity + delta
    BY <1>4, RequestAssumption DEF TypeOK, Adjust
  <2>2. Covered(Adjusted(stock[v], delta))
    BY <2>1, AdjustedItem DEF Covered
  <2> QED
    BY <1>4, <2>2 DEF TypeOK, NeverOversold, Adjust, Covered
<1>5. CASE Restart
  BY <1>5 DEF TypeOK, NeverOversold, Restart
<1>6. ASSUME UNCHANGED <<stock, draft>>
      PROVE  NeverOversold'
  BY <1>6 DEF NeverOversold
<1>7. ASSUME NEW s \in Sessions, Begin(s) \/ Confirm(s) \/ LockOrder(s)
      PROVE  UNCHANGED <<stock, draft>>
  BY <1>7 DEF Begin, BeginCheckout, BeginPay, BeginMove, Confirm, LockOrder
<1> QED
  BY <1>1, <1>2, <1>3, <1>4, <1>5, <1>6, <1>7 DEF Next, Proceed, vars

\* Reserve, release and commit never oversell, whatever overlaps.
THEOREM NoOversell == Spec => []NeverOversold
<1>1. Init => NeverOversold
  BY RequestAssumption DEF Init, NeverOversold, NewItem
<1>2. TypeOK /\ NeverOversold /\ [Next]_vars => NeverOversold'
  BY OversoldStep
<1> QED
  BY <1>1, <1>2, TypeCorrect, PTL DEF Spec

-----------------------------------------------------------------------------
(* What a request knows.                                                   *)

\* Committed statuses change with PlaceOrder and CommitMove only.
LEMMA StatusWriters ==
    ASSUME [Next]_vars
    PROVE  \/ orderStatus' = orderStatus
           \/ \E s \in Sessions : PlaceOrder(s) \/ CommitMove(s)
BY DEF Next, Begin, Proceed, vars, BeginCheckout, BeginPay, BeginMove,
       Confirm, ConfirmFails, LockOrder, ReserveLine, ReserveFails,
       CommitLine, ReleaseLine, WriteItem, KeyTaken, DeadlockVictim,
       Rollback, Adjust, Restart

\* Committed rows change with those and with corrections only.
LEMMA StockWriters ==
    ASSUME [Next]_vars
    PROVE  \/ UNCHANGED <<orderStatus, stock>>
           \/ \E s \in Sessions : PlaceOrder(s) \/ CommitMove(s)
           \/ \E v \in Variants, delta \in Deltas : Adjust(v, delta)
BY DEF Next, Begin, Proceed, vars, BeginCheckout, BeginPay, BeginMove,
       Confirm, ConfirmFails, LockOrder, ReserveLine, ReserveFails,
       CommitLine, ReleaseLine, WriteItem, KeyTaken, DeadlockVictim,
       Rollback, Restart

\* An order that exists stays, does not go back to awaiting_payment once it
\* has left it, and is never seen as a draft.
LEMMA StatusStep ==
    ASSUME TypeOK, SnapshotInv, [Next]_vars, NEW k \in Keys
    PROVE  /\ orderStatus[k] # NoOrder => orderStatus'[k] # NoOrder
           /\ orderStatus[k] \notin {NoOrder, "awaiting_payment"} =>
                 orderStatus'[k] # "awaiting_payment"
           /\ orderStatus'[k] # "draft"
<1>1. ASSUME NEW s \in Sessions, CommitMove(s)
      PROVE  /\ orderStatus'[k] # NoOrder \/ orderStatus'[k] = orderStatus[k]
             /\ orderStatus'[k] # "awaiting_payment"
                    \/ orderStatus'[k] = orderStatus[k]
             /\ orderStatus'[k] # "draft"
  <2>1. InService(s) /\ req[s].phase = "stock"
        /\ req[s].target # "awaiting_payment"
    BY <1>1 DEF CommitMove, AtEnd
  <2>2. req[s].key \in Keys /\ req[s].target \in OrderStatuses
    BY <2>1, RequestFields
  <2>3. CanMove(req[s].snap, req[s].target)
    BY <2>1 DEF SnapshotInv, KnowsOrder
  <2>4. req[s].target \notin {NoOrder, "draft", "awaiting_payment"}
    BY <2>1, <2>2, <2>3 DEF CanMove, ALLOWED_TRANSITIONS, OrderStatuses, NoOrder
  <2>5. orderStatus' = [orderStatus EXCEPT ![req[s].key] = req[s].target]
    BY <1>1 DEF CommitMove
  <2> QED
    BY <2>2, <2>4, <2>5 DEF TypeOK, SnapshotInv
<1>2. ASSUME NEW s \in Sessions, PlaceOrder(s)
      PROVE  \/ orderStatus'[k] = orderStatus[k]
             \/ /\ orderStatus[k] = NoOrder
                /\ orderStatus'[k] = "awaiting_payment"
  BY <1>2 DEF PlaceOrder, TypeOK
<1>3. CASE orderStatus' = orderStatus
  BY <1>3 DEF SnapshotInv
<1> QED
  BY <1>1, <1>2, <1>3, StatusWriters DEF SnapshotInv, NoOrder

\* A request that has locked its order starts on the lines.
OrderLocked(s) ==
    \E walk \in WalksTo(req[s].key, req[s].target) :
        req'[s] = [req[s] EXCEPT !.phase = "stock", !.walk = walk]

LEMMA OrderLockedFields ==
    ASSUME TypeOK, NEW s \in Sessions, InService(s), OrderLocked(s)
    PROVE  /\ req'[s].key = req[s].key /\ req'[s].snap = req[s].snap
           /\ req'[s].target = req[s].target /\ req'[s].line = req[s].line
           /\ req'[s].phase = "stock"
<1>1. req[s] \in Request
  BY RequestFields
<1>2. PICK walk \in WalksTo(req[s].key, req[s].target) :
          req'[s] = [req[s] EXCEPT !.phase = "stock", !.walk = walk]
  BY DEF OrderLocked
<1> QED
  BY <1>1, <1>2 DEF Request

\* What a step does to the request of one session.
LEMMA RequestStep ==
    ASSUME TypeOK, [Next]_vars, NEW s \in Sessions
    PROVE  \/ req'[s] = req[s]
           \/ req'[s] = Idle
           \/ Begin(s)
           \/ /\ Confirm(s)
              /\ CanMove(req[s].snap, "paid")
              /\ req'[s] = [req[s] EXCEPT !.phase = "update"]
           \/ LockOrder(s) /\ OrderLocked(s)
           \/ AtLine(s) /\ req'[s] = [req[s] EXCEPT !.line = @ + 1]
<1>1. ASSUME NEW t \in Sessions, Begin(t)
      PROVE  t = s \/ req'[s] = req[s]
  BY <1>1 DEF TypeOK, Begin, BeginCheckout, BeginPay, BeginMove
<1>2. ASSUME NEW t \in Sessions, Confirm(t)
      PROVE  \/ req'[s] = req[s]
             \/ req'[s] = Idle
             \/ /\ t = s
                /\ CanMove(req[s].snap, "paid")
                /\ req'[s] = [req[s] EXCEPT !.phase = "update"]
  BY <1>2 DEF TypeOK, Confirm
<1>3. ASSUME NEW t \in Sessions, LockOrder(t)
      PROVE  \/ req'[s] = req[s]
             \/ t = s /\ OrderLocked(s)
  <2>1. PICK walk \in WalksTo(req[t].key, req[t].target) :
            req' = [req EXCEPT ![t] =
                       [req[t] EXCEPT !.phase = "stock", !.walk = walk]]
    BY <1>3 DEF LockOrder
  <2>2. /\ t # s => req'[s] = req[s]
        /\ req'[t] = [req[t] EXCEPT !.phase = "stock", !.walk = walk]
    BY <2>1 DEF TypeOK
  <2>3. t = s => OrderLocked(s)
    BY <2>2 DEF OrderLocked
  <2> QED
    BY <2>2, <2>3
<1>4. ASSUME NEW t \in Sessions,
             ReserveLine(t) \/ CommitLine(t) \/ ReleaseLine(t)
      PROVE  \/ req'[s] = req[s]
             \/ AtLine(s) /\ req'[s] = [req[s] EXCEPT !.line = @ + 1]
  <2>1. AtLine(t) /\ req' = [req EXCEPT ![t].line = @ + 1]
    BY <1>4 DEF ReserveLine, CommitLine, ReleaseLine, WriteItem
  <2> QED
    BY <2>1 DEF TypeOK
<1>5. ASSUME NEW t \in Sessions, ReleaseLocks(t)
      PROVE  req'[s] \in {req[s], Idle}
  BY <1>5 DEF TypeOK, ReleaseLocks
<1>6. ASSUME NEW t \in Sessions,
             \/ PlaceOrder(t) \/ CommitMove(t)
             \/ ConfirmFails(t) \/ ReserveFails(t) \/ KeyTaken(t)
             \/ DeadlockVictim(t)
      PROVE  ReleaseLocks(t)
  BY <1>6 DEF PlaceOrder, CommitMove, ConfirmFails, ReserveFails, KeyTaken,
              DeadlockVictim, Rollback
<1>7. CASE Restart
  BY <1>7 DEF Restart
<1>8. ASSUME NEW v \in Variants, NEW delta \in Deltas, Adjust(v, delta)
      PROVE  req'[s] = req[s]
  BY <1>8 DEF Adjust
<1>9. CASE UNCHANGED vars
  BY <1>9 DEF vars
<1> QED
  BY <1>1, <1>2, <1>3, <1>4, <1>5, <1>6, <1>7, <1>8, <1>9 DEF Next, Proceed

\* What becomes of the request of a session that does not begin one.
LEMMA OngoingRequest ==
    ASSUME TypeOK, [Next]_vars, NEW s \in Sessions, ~Begin(s), InService(s)'
    PROVE  /\ InService(s)
           /\ req'[s].key = req[s].key
           /\ req'[s].snap = req[s].snap
           /\ req'[s].target = req[s].target
<1>1. req'[s] # Idle
  BY DEF InService
<1>2. CASE req'[s] = req[s]
  BY <1>1, <1>2 DEF InService
<1>3. ASSUME InService(s), NEW phase, req'[s] = [req[s] EXCEPT !.phase = phase]
      PROVE  /\ req'[s].key = req[s].key
             /\ req'[s].snap = req[s].snap
             /\ req'[s].target = req[s].target
  BY <1>3, RequestFields DEF Request
<1>4. ASSUME InService(s), req'[s] = [req[s] EXCEPT !.line = @ + 1]
      PROVE  /\ req'[s].key = req[s].key
             /\ req'[s].snap = req[s].snap
             /\ req'[s].target = req[s].target
  BY <1>4, RequestFields DEF Request
<1> QED
  BY <1>1, <1>2, <1>3, <1>4, RequestStep, OrderLockedFields
     DEF Confirm, LockOrder, AtLine

LEMMA SnapshotStep ==
    ASSUME TypeOK, SnapshotInv, [Next]_vars
    PROVE  SnapshotInv'
<1>1. \A k \in Keys : orderStatus'[k] # "draft"
  BY StatusStep
<1>2. ASSUME NEW s \in Sessions, InService(s)'
      PROVE  KnowsOrder(s)'
  <2>1. ASSUME InService(s), req'[s].key = req[s].key,
               req'[s].snap = req[s].snap, req'[s].target = req[s].target,
               req'[s].phase = "confirm" => req[s].phase = "confirm",
               req[s].phase = "stock" => req'[s].phase = "stock",
               req[s].phase = "confirm" /\ req'[s].phase # "confirm" =>
                   CanMove(req[s].snap, "paid")
        PROVE  KnowsOrder(s)'
    <3>1. KnowsOrder(s) /\ req[s].key \in Keys
      BY <2>1, RequestFields DEF SnapshotInv
    <3>2. LET k == req[s].key
          IN  /\ orderStatus[k] # NoOrder => orderStatus'[k] # NoOrder
              /\ orderStatus[k] \notin {NoOrder, "awaiting_payment"} =>
                    orderStatus'[k] # "awaiting_payment"
      BY <3>1, StatusStep
    <3> QED
      BY <2>1, <3>1, <3>2 DEF KnowsOrder
  <2>2. ASSUME NEW k \in Keys, NEW target \in OrderStatuses,
               NEW phase \in {"confirm", "update", "stock"},
               req' = [req EXCEPT ![s] = NewRequest(phase, k, target)],
               orderStatus' = orderStatus,
               phase = "confirm" => target = "paid",
               target = "awaiting_payment" =>
                   phase = "stock" /\ orderStatus[k] = NoOrder,
               target # "awaiting_payment" => orderStatus[k] # NoOrder,
               phase = "update" => CanMove(orderStatus[k], target),
               phase = "stock" => target = "awaiting_payment"
        PROVE  KnowsOrder(s)'
    <3>1. req'[s] = NewRequest(phase, k, target)
      BY <2>2 DEF TypeOK
    <3>2. /\ req'[s].phase = phase /\ req'[s].key = k
          /\ req'[s].target = target /\ req'[s].snap = orderStatus[k]
      BY <3>1 DEF NewRequest
    <3>3. orderStatus[k] # "draft"
      BY DEF SnapshotInv
    <3> QED
      BY <2>2, <3>2, <3>3 DEF KnowsOrder
  <2>3. CASE Begin(s)
    <3>1. ASSUME NEW k \in Keys, BeginCheckout(s, k)
          PROVE  KnowsOrder(s)'
      BY <3>1, <2>2 DEF BeginCheckout, OrderStatuses
    <3>2. ASSUME NEW k \in Keys, BeginPay(s, k)
          PROVE  KnowsOrder(s)'
      BY <3>2, <2>2 DEF BeginPay, OrderStatuses
    <3>3. ASSUME NEW k \in Keys, NEW target \in OrderStatuses,
                 BeginMove(s, k, target)
          PROVE  KnowsOrder(s)'
      <4>1. target # "awaiting_payment"
        BY <3>3 DEF BeginMove, CanMove, ALLOWED_TRANSITIONS, SnapshotInv
      <4> QED
        BY <3>3, <4>1, <2>2 DEF BeginMove
    <3> QED
      BY <2>3, <3>1, <3>2, <3>3 DEF Begin
  <2>4. CASE req'[s] = req[s]
    <3>1. InService(s)
      BY <1>2, <2>4 DEF InService
    <3> QED
      BY <2>1, <2>4, <3>1
  <2>5. CASE req'[s] = Idle
    BY <1>2, <2>5 DEF InService
  <2>6. CASE /\ Confirm(s)
             /\ CanMove(req[s].snap, "paid")
             /\ req'[s] = [req[s] EXCEPT !.phase = "update"]
    <3>1. InService(s) /\ req[s].phase = "confirm"
      BY <2>6 DEF Confirm
    <3>2. req[s] \in Request
      BY <3>1, RequestFields
    <3>3. /\ req'[s].key = req[s].key /\ req'[s].snap = req[s].snap
          /\ req'[s].target = req[s].target /\ req'[s].phase = "update"
      BY <2>6, <3>2 DEF Request
    <3> QED
      BY <2>1, <2>6, <3>1, <3>3
  <2>7. CASE LockOrder(s) /\ OrderLocked(s)
    <3>1. InService(s) /\ req[s].phase = "update"
      BY <2>7 DEF LockOrder
    <3>3. /\ req'[s].key = req[s].key /\ req'[s].snap = req[s].snap
          /\ req'[s].target = req[s].target /\ req'[s].phase = "stock"
      BY <2>7, <3>1, OrderLockedFields
    <3> QED
      BY <2>1, <2>7, <3>1, <3>3
  <2>8. CASE AtLine(s) /\ req'[s] = [req[s] EXCEPT !.line = @ + 1]
    <3>1. InService(s) /\ req[s].phase = "stock"
      BY <2>8 DEF AtLine
    <3>2. req[s] \in Request
      BY <3>1, RequestFields
    <3>3. /\ req'[s].key = req[s].key /\ req'[s].snap = req[s].snap
          /\ req'[s].target = req[s].target /\ req'[s].phase = "stock"
      BY <2>8, <3>1, <3>2 DEF Request
    <3> QED
      BY <2>1, <2>8, <3>1, <3>3
  <2> QED
    BY <2>3, <2>4, <2>5, <2>6, <2>7, <2>8, RequestStep
<1> QED
  BY <1>1, <1>2 DEF SnapshotInv

-----------------------------------------------------------------------------
(* Settled orders were charged.                                            *)

LEMMA ChargedGrows ==
    ASSUME TypeOK, [Next]_vars
    PROVE  charged \subseteq charged'
BY DEF Next, Begin, Proceed, vars, BeginCheckout, BeginPay, BeginMove,
       Confirm, ConfirmFails, LockOrder, ReserveLine, ReserveFails,
       CommitLine, ReleaseLine, WriteItem, PlaceOrder, CommitMove, KeyTaken,
       DeadlockVictim, Rollback, Adjust, Restart

LEMMA SettledStep ==
    ASSUME TypeOK, SnapshotInv, ChargeInv, SettledIsCharged, [Next]_vars
    PROVE  SettledIsCharged'
<1>1. ASSUME NEW s \in Sessions, CommitMove(s)
      PROVE  SettledIsCharged'
  <2>1. /\ InService(s) /\ req[s].phase = "stock"
        /\ req[s].target # "awaiting_payment"
    BY <1>1 DEF CommitMove, AtEnd
  <2>2. req[s].key \in Keys
    BY <2>1, RequestFields
  <2>3. CanMove(req[s].snap, req[s].target)
    BY <2>1 DEF SnapshotInv, KnowsOrder
  <2>4. req[s].target \in Settled => req[s].key \in charged
    <3>1. req[s].target \in Settled \ {"paid"} => req[s].snap \in Settled
      BY <2>3 DEF CanMove, ALLOWED_TRANSITIONS, Settled
    <3> QED
      BY <2>1, <3>1 DEF ChargeInv
  <2>5. orderStatus' = [orderStatus EXCEPT ![req[s].key] = req[s].target]
    BY <1>1 DEF CommitMove
  <2> QED
    BY <2>2, <2>4, <2>5, ChargedGrows
       DEF TypeOK, SettledIsCharged, SettledOrders
<1>2. ASSUME NEW s \in Sessions, PlaceOrder(s)
      PROVE  SettledIsCharged'
  BY <1>2, ChargedGrows
     DEF PlaceOrder, TypeOK, SettledIsCharged, SettledOrders, Settled
<1>3. CASE orderStatus' = orderStatus
  BY <1>3, ChargedGrows DEF SettledIsCharged, SettledOrders
<1> QED
  BY <1>1, <1>2, <1>3, StatusWriters

LEMMA ChargeStep ==
    ASSUME TypeOK, SnapshotInv, ChargeInv, SettledIsCharged, [Next]_vars
    PROVE  ChargeInv'
<1> DEFINE Owes(r) == \/ r.snap \in Settled
                      \/ r.target = "paid" /\ r.phase # "confirm"
<1>1. SUFFICES ASSUME NEW s \in Sessions, InService(s)', Owes(req'[s])
               PROVE  req'[s].key \in charged'
  BY DEF ChargeInv
<1>2. ASSUME InService(s), Owes(req[s]), req'[s].key = req[s].key
      PROVE  req'[s].key \in charged'
  BY <1>2, ChargedGrows DEF ChargeInv
<1>3. CASE req'[s] = req[s]
  BY <1>1, <1>2, <1>3 DEF InService
<1>4. CASE req'[s] = Idle
  BY <1>1, <1>4 DEF InService
<1>5. CASE Begin(s)
  <2>1. ASSUME NEW k \in Keys, NEW target \in OrderStatuses,
               NEW phase \in {"confirm", "update", "stock"},
               req' = [req EXCEPT ![s] = NewRequest(phase, k, target)],
               target = "paid" => phase = "confirm"
        PROVE  req'[s].key \in charged'
    <3>1. req'[s] = NewRequest(phase, k, target)
      BY <2>1 DEF TypeOK
    <3>2. /\ req'[s].phase = phase /\ req'[s].key = k
          /\ req'[s].target = target /\ req'[s].snap = orderStatus[k]
      BY <3>1 DEF NewRequest
    <3> QED
      BY <1>1, <2>1, <3>2, ChargedGrows DEF SettledIsCharged, SettledOrders
  <2>2. ASSUME NEW k \in Keys, BeginCheckout(s, k)
        PROVE  req'[s].key \in charged'
    BY <2>1, <2>2 DEF BeginCheckout, OrderStatuses
  <2>3. ASSUME NEW k \in Keys, BeginPay(s, k)
        PROVE  req'[s].key \in charged'
    BY <2>1, <2>3 DEF BeginPay, OrderStatuses
  <2>4. ASSUME NEW k \in Keys, NEW target \in OrderStatuses,
               BeginMove(s, k, target)
        PROVE  req'[s].key \in charged'
    BY <2>1, <2>4 DEF BeginMove
  <2> QED
    BY <1>5, <2>2, <2>3, <2>4 DEF Begin
<1>6. CASE Confirm(s) /\ req'[s] = [req[s] EXCEPT !.phase = "update"]
  <2>1. req[s] \in Request
    BY <1>6, RequestFields DEF Confirm
  <2>2. req'[s].key = req[s].key
    BY <1>6, <2>1 DEF Request
  <2> QED
    BY <1>6, <2>2 DEF Confirm
<1>7. CASE LockOrder(s) /\ OrderLocked(s)
  <2>1. InService(s) /\ req[s] \in Request /\ req[s].phase = "update"
    BY <1>7, RequestFields DEF LockOrder
  <2>2. /\ req'[s].key = req[s].key /\ req'[s].snap = req[s].snap
        /\ req'[s].target = req[s].target
    BY <1>7, <2>1, OrderLockedFields
  <2> QED
    BY <1>1, <1>2, <2>1, <2>2
<1>8. CASE AtLine(s) /\ req'[s] = [req[s] EXCEPT !.line = @ + 1]
  <2>1. InService(s) /\ req[s] \in Request
    BY <1>8, RequestFields DEF AtLine
  <2>2. /\ req'[s].key = req[s].key /\ req'[s].snap = req[s].snap
        /\ req'[s].target = req[s].target /\ req'[s].phase = req[s].phase
    BY <1>8, <2>1 DEF Request
  <2> QED
    BY <1>1, <1>2, <2>1, <2>2
<1> QED
  BY <1>3, <1>4, <1>5, <1>6, <1>7, <1>8, RequestStep

\* Goods are promised against money only: through races, rollbacks and
\* restarts, an order that is or was paid is one the provider confirmed.
THEOREM SettledOrdersCharged == Spec => []SettledIsCharged
<1> DEFINE Inv == TypeOK /\ SnapshotInv /\ ChargeInv /\ SettledIsCharged
<1>1. Init => Inv
  <2> SUFFICES ASSUME Init PROVE Inv
    OBVIOUS
  <2>1. \A s \in Sessions : ~InService(s)
    BY DEF Init, InService
  <2>2. \A k \in Keys : orderStatus[k] = NoOrder
    BY DEF Init
  <2> QED
    BY <2>1, <2>2, TypeInit
       DEF SnapshotInv, ChargeInv, SettledIsCharged, SettledOrders, Settled,
           NoOrder
<1>2. Inv /\ [Next]_vars => Inv'
  BY TypeStep, SnapshotStep, ChargeStep, SettledStep
<1>3. Inv => SettledIsCharged
  OBVIOUS
<1> QED
  BY <1>1, <1>2, <1>3, PTL DEF Spec

-----------------------------------------------------------------------------
(* Two-phase locking.                                                      *)

\* The lines a request has walked over are lines of its basket.
LEMMA DoneType ==
    ASSUME TypeOK, NEW s \in Sessions, InService(s),
           req[s].line - 1 <= LinesToDo(s)
    PROVE  /\ Done(s) \in SUBSET (1 .. Len(Lines(req[s].key)))
           /\ \A n \in Done(s) : Lines(req[s].key)[n].variant \in Variants
<1>1. /\ req[s].key \in Keys /\ req[s].line \in Nat \ {0}
      /\ req[s].walk \in Walks(req[s].key)
      /\ Len(Lines(req[s].key)) \in Nat
  BY RequestFields, LinesType
<1>2. 1 .. (req[s].line - 1) \subseteq 1 .. Len(Lines(req[s].key))
  BY <1>1 DEF LinesToDo
<1>3. Done(s) \subseteq 1 .. Len(Lines(req[s].key))
  <2>1. \A i \in 1 .. Len(Lines(req[s].key)) :
            req[s].walk[i] \in 1 .. Len(Lines(req[s].key))
    <3>1. req[s].walk \in [LineNumbers(req[s].key) -> LineNumbers(req[s].key)]
      BY <1>1, WalkFacts
    <3> QED
      BY <3>1 DEF LineNumbers
  <2>2. \A i \in 1 .. (req[s].line - 1) :
            req[s].walk[i] \in 1 .. Len(Lines(req[s].key))
    BY <1>2, <2>1
  <2> QED
    BY <2>2, Zenon DEF Done
<1> QED
  BY <1>1, <1>3, LinesType

\* It has not yet walked over the line it is at...
LEMMA NotYetDone ==
    ASSUME TypeOK, NEW s \in Sessions, AtLine(s)
    PROVE  req[s].walk[req[s].line] \notin Done(s)
<1> DEFINE n == req[s].line
<1>1. /\ req[s].key \in Keys /\ req[s].walk \in Walks(req[s].key)
      /\ Len(Lines(req[s].key)) \in Nat /\ n \in 1 .. Len(Lines(req[s].key))
  BY RequestFields, LinesType, CurrentLineType DEF AtLine
<1>2. /\ n \in LineNumbers(req[s].key)
      /\ \A i \in 1 .. (n - 1) : i \in LineNumbers(req[s].key) /\ i # n
  BY <1>1 DEF LineNumbers
<1>3. \A i, j \in LineNumbers(req[s].key) :
          req[s].walk[i] = req[s].walk[j] => i = j
  BY <1>1, WalkFacts
<1> QED
  BY <1>2, <1>3 DEF Done

\* ... and has done so when it has moved on.
LEMMA DoneNext ==
    ASSUME TypeOK, NEW s \in Sessions, AtLine(s),
           req'[s] = [req[s] EXCEPT !.line = @ + 1]
    PROVE  /\ Done(s)' = Done(s) \union {req[s].walk[req[s].line]}
           /\ req'[s].key = req[s].key /\ req'[s].phase = req[s].phase
           /\ req'[s].target = req[s].target /\ req'[s].line = req[s].line + 1
<1> DEFINE n == req[s].line
<1>1. req[s] \in Request /\ n \in Nat \ {0}
  BY RequestFields DEF AtLine
<1>2. /\ req'[s].key = req[s].key /\ req'[s].phase = req[s].phase
      /\ req'[s].target = req[s].target /\ req'[s].line = n + 1
      /\ req'[s].walk = req[s].walk
  BY <1>1 DEF Request
<1>3. 1 .. (req'[s].line - 1) = 1 .. (n - 1) \union {n}
  BY <1>1, <1>2
<1>4. Done(s)' = {req[s].walk[i] : i \in 1 .. (n - 1) \union {n}}
  BY <1>2, <1>3 DEF Done
<1>5. Done(s)' = Done(s) \union {req[s].walk[n]}
  BY <1>4 DEF Done
<1> QED
  BY <1>2, <1>5

\* A request that has come to the end has walked over every line.
LEMMA DoneAll ==
    ASSUME TypeOK, NEW s \in Sessions, AtEnd(s), MovesStock(s),
           req[s].line - 1 <= LinesToDo(s)
    PROVE  Done(s) = 1 .. Len(Lines(req[s].key))
<1>1. /\ req[s].key \in Keys /\ req[s].line \in Nat \ {0} /\ InService(s)
      /\ req[s].walk \in Walks(req[s].key)
      /\ Len(Lines(req[s].key)) \in Nat
  BY RequestFields, LinesType DEF AtEnd
<1>2. req[s].line - 1 = Len(Lines(req[s].key))
  BY <1>1 DEF AtEnd, LinesToDo, MovesStock
<1>3. Done(s) = {req[s].walk[i] : i \in LineNumbers(req[s].key)}
  BY <1>2 DEF LineNumbers, Done
<1>4. LET L == LineNumbers(req[s].key)
      IN  /\ \A i \in L : req[s].walk[i] \in L
          /\ \A n \in L : \E i \in L : req[s].walk[i] = n
  BY <1>1, WalkFacts
<1>5. Done(s) = LineNumbers(req[s].key)
  BY <1>3, <1>4
<1> QED
  BY <1>5 DEF LineNumbers

\* LockInv for the sessions whose request and locks a step leaves alone.
LEMMA KeepsLocksKept ==
    ASSUME TypeOK, NEW s \in Sessions, KeepsLocks(s), InService(s),
           req'[s] = req[s],
           \A v \in Variants : itemLock[v] = s => itemLock'[v] = s,
           \A k \in Keys : orderLock[k] = s => orderLock'[k] = s
    PROVE  KeepsLocks(s)'
<1>1. req[s].key \in Keys /\ req[s].line \in Nat \ {0}
  BY RequestFields
<1>2. LinesToDo(s)' = LinesToDo(s) /\ LinesToDo(s) \in Nat
  BY <1>1, LinesType DEF LinesToDo
<1>3. ASSUME NEW i \in Done(s)
      PROVE  itemLock'[Lines(req[s].key)[i].variant] = s
  <2>1. Lines(req[s].key)[i].variant \in Variants
    BY DoneType DEF KeepsLocks
  <2> QED
    BY <2>1 DEF KeepsLocks
<1>4. Done(s)' = Done(s)
  BY DEF Done
<1> QED
  BY <1>1, <1>2, <1>3, <1>4 DEF KeepsLocks

\* The end of a transaction: the rows it held have one version again.
LEMMA ReleaseKeepsLockInv ==
    ASSUME TypeOK, LockInv, NEW t \in Sessions, ReleaseLocks(t),
           \A v \in Variants :
              IF itemLock[v] = t THEN draft'[v] = stock'[v]
              ELSE draft'[v] = draft[v] /\ stock'[v] = stock[v]
    PROVE  LockInv'
<1>1. ASSUME NEW s \in Sessions, s # t
      PROVE  /\ req'[s] = req[s]
             /\ \A v \in Variants : itemLock[v] = s => itemLock'[v] = s
             /\ \A k \in Keys : orderLock[k] = s => orderLock'[k] = s
  BY <1>1 DEF TypeOK, ReleaseLocks
<1>2. req'[t] = Idle /\ \A v \in Variants : itemLock'[v] # t
  BY RequestAssumption DEF TypeOK, ReleaseLocks
<1>3. \A v \in Variants : itemLock'[v] = NoSession => draft'[v] = stock'[v]
  BY DEF TypeOK, ReleaseLocks, LockInv
<1>4. ASSUME NEW v \in Variants, NEW s \in Sessions, itemLock'[v] = s
      PROVE  InService(s)' /\ req'[s].phase = "stock" /\ MovesStock(s)'
  <2>1. s # t /\ itemLock[v] = s
    BY <1>2, <1>4, RequestAssumption DEF TypeOK, ReleaseLocks
  <2> QED
    BY <1>1, <2>1 DEF LockInv, InService, MovesStock
<1>5. ASSUME NEW s \in Sessions, InService(s)'
      PROVE  KeepsLocks(s)'
  <2>1. s # t
    BY <1>2, <1>5 DEF InService
  <2>2. InService(s) /\ KeepsLocks(s)
    BY <1>1, <1>5, <2>1 DEF LockInv, InService
  <2> QED
    BY <1>1, <2>1, <2>2, KeepsLocksKept
<1> QED
  BY <1>3, <1>4, <1>5 DEF LockInv

LEMMA RollbackKeepsLockInv ==
    ASSUME TypeOK, LockInv, NEW t \in Sessions, Rollback(t)
    PROVE  LockInv'
<1>1. \A v \in Variants :
          IF itemLock[v] = t THEN draft'[v] = stock'[v]
          ELSE draft'[v] = draft[v] /\ stock'[v] = stock[v]
  BY DEF Rollback, TypeOK
<1> QED
  BY <1>1, ReleaseKeepsLockInv DEF Rollback

LEMMA PublishKeepsLockInv ==
    ASSUME TypeOK, LockInv, NEW t \in Sessions, PublishStock(t),
           ReleaseLocks(t), draft' = draft
    PROVE  LockInv'
<1>1. \A v \in Variants :
          IF itemLock[v] = t THEN draft'[v] = stock'[v]
          ELSE draft'[v] = draft[v] /\ stock'[v] = stock[v]
  BY DEF PublishStock, TypeOK
<1> QED
  BY <1>1, ReleaseKeepsLockInv

\* One row is written under lock.
LEMMA WriteKeepsLockInv ==
    ASSUME TypeOK, LockInv, NEW t \in Sessions, AtLine(t), MovesStock(t),
           CanLock(t, CurrentLine(t).variant),
           NEW item, WriteItem(t, item)
    PROVE  LockInv'
<1> DEFINE w == CurrentLine(t).variant
<1>1. /\ w \in Variants /\ req[t] \in Request /\ InService(t)
      /\ req[t].phase = "stock"
      /\ req[t].line \in 1 .. Len(Lines(req[t].key))
      /\ req[t].key \in Keys
  BY CurrentLineType DEF AtLine, Request
<1>2. req'[t] = [req[t] EXCEPT !.line = req[t].line + 1]
  BY DEF TypeOK, WriteItem
<1>3. /\ req'[t].phase = "stock" /\ req'[t].key = req[t].key
      /\ req'[t].target = req[t].target /\ req'[t].line = req[t].line + 1
      /\ InService(t)'
  <2>1. /\ req'[t].phase = "stock" /\ req'[t].key = req[t].key
        /\ req'[t].target = req[t].target /\ req'[t].line = req[t].line + 1
    BY <1>1, <1>2 DEF Request
  <2> QED
    BY <2>1 DEF InService, Idle
<1>4. /\ itemLock'[w] = t
      /\ \A v \in Variants \ {w} :
            itemLock'[v] = itemLock[v] /\ draft'[v] = draft[v]
      /\ stock' = stock /\ orderLock' = orderLock
  BY <1>1 DEF TypeOK, WriteItem
<1>5. ASSUME NEW s \in Sessions, s # t
      PROVE  /\ req'[s] = req[s]
             /\ \A v \in Variants : itemLock[v] = s => itemLock'[v] = s
             /\ \A v \in Variants : itemLock'[v] = s => itemLock[v] = s
             /\ \A k \in Keys : orderLock[k] = s => orderLock'[k] = s
  <2>1. itemLock[w] # s
    BY <1>5, RequestAssumption DEF CanLock
  <2> QED
    BY <1>4, <1>5, <2>1 DEF TypeOK, WriteItem
<1>6. \A v \in Variants : itemLock'[v] = NoSession => draft'[v] = stock'[v]
  BY <1>4, RequestAssumption DEF LockInv
<1>7. ASSUME NEW v \in Variants, NEW s \in Sessions, itemLock'[v] = s
      PROVE  InService(s)' /\ req'[s].phase = "stock" /\ MovesStock(s)'
  <2>1. CASE s = t
    BY <1>3, <2>1 DEF MovesStock
  <2>2. CASE s # t
    BY <1>5, <1>7, <2>2 DEF LockInv, InService, MovesStock
  <2> QED
    BY <2>1, <2>2
<1>8. ASSUME NEW s \in Sessions, InService(s)'
      PROVE  KeepsLocks(s)'
  <2>1. CASE s # t
    <3>1. InService(s) /\ KeepsLocks(s)
      BY <1>5, <1>8, <2>1 DEF LockInv, InService
    <3> QED
      BY <1>5, <2>1, <3>1, KeepsLocksKept
  <2>2. CASE s = t
    <3>1. KeepsLocks(t)
      BY <1>1 DEF LockInv
    <3>2. /\ LinesToDo(t)' = LinesToDo(t)
          /\ LinesToDo(t) = Len(Lines(req[t].key))
          /\ Len(Lines(req[t].key)) \in Nat
      BY <1>1, <1>3, LinesType DEF LinesToDo, MovesStock
    <3>3. ASSUME NEW i \in Done(t)'
          PROVE  itemLock'[Lines(req[t].key)[i].variant] = t
      <4>1. i \in Done(t) \/ i = req[t].walk[req[t].line]
        BY <1>1, <1>2, DoneNext
      <4>2. CASE i = req[t].walk[req[t].line]
        BY <1>4, <4>2 DEF CurrentLine
      <4>3. CASE i \in Done(t)
        <5>1. Lines(req[t].key)[i].variant \in Variants
          BY <1>1, <3>1, <4>3, DoneType DEF KeepsLocks
        <5>2. itemLock[Lines(req[t].key)[i].variant] = t
          BY <3>1, <4>3 DEF KeepsLocks
        <5> QED
          BY <1>4, <5>1, <5>2
      <4> QED
        BY <4>1, <4>2, <4>3
    <3>4. orderLock'[req[t].key] = orderLock[req[t].key]
      BY <1>4
    <3> QED
      BY <1>1, <1>3, <2>2, <3>1, <3>2, <3>3, <3>4 DEF KeepsLocks
  <2> QED
    BY <2>1, <2>2
<1> QED
  BY <1>6, <1>7, <1>8 DEF LockInv

\* A step of a request that has no inventory row yet, and takes none.
LEMMA EarlyKeepsLockInv ==
    ASSUME TypeOK, LockInv, NEW t \in Sessions,
           ~(InService(t) /\ req[t].phase = "stock"),
           \A s \in Sessions \ {t} : req'[s] = req[s],
           UNCHANGED <<itemLock, draft, stock>>,
           \A k \in Keys, s \in Sessions :
               orderLock[k] = s => orderLock'[k] = s,
           InService(t)' => KeepsLocks(t)'
    PROVE  LockInv'
<1>1. \A v \in Variants : itemLock[v] # t
  BY DEF LockInv
<1>2. ASSUME NEW v \in Variants, NEW s \in Sessions, itemLock'[v] = s
      PROVE  InService(s)' /\ req'[s].phase = "stock" /\ MovesStock(s)'
  BY <1>1, <1>2 DEF LockInv, InService, MovesStock
<1>3. ASSUME NEW s \in Sessions, InService(s)'
      PROVE  KeepsLocks(s)'
  <2>1. CASE s # t
    <3>1. InService(s) /\ KeepsLocks(s)
      BY <1>3, <2>1 DEF LockInv, InService
    <3> QED
      BY <2>1, <3>1, KeepsLocksKept
  <2> QED
    BY <1>3, <2>1
<1> QED
  BY <1>2, <1>3 DEF LockInv

LEMMA LockStep ==
    ASSUME TypeOK, SnapshotInv, LockInv, [Next]_vars
    PROVE  LockInv'
<1>1. ASSUME NEW s \in Sessions, Begin(s)
      PROVE  LockInv'
  <2>1. ASSUME NEW k \in Keys, NEW target \in OrderStatuses,
               NEW phase \in {"confirm", "update", "stock"},
               req' = [req EXCEPT ![s] = NewRequest(phase, k, target)],
               phase = "stock" => target = "awaiting_payment"
        PROVE  KeepsLocks(s)'
    <3>1. req'[s] = NewRequest(phase, k, target)
      BY <2>1 DEF TypeOK
    <3>2. /\ req'[s].phase = phase /\ req'[s].key = k
          /\ req'[s].target = target /\ req'[s].line = 1
      BY <3>1 DEF NewRequest
    <3>3. Len(Lines(k)) \in Nat
      BY LinesType
    <3>4. LinesToDo(s)' \in Nat
      BY <3>2, <3>3 DEF LinesToDo
    <3>5. Done(s)' = {}
      BY <3>2 DEF Done
    <3> QED
      BY <2>1, <3>2, <3>4, <3>5 DEF KeepsLocks
  <2>2. ~InService(s)
    BY <1>1 DEF Begin, BeginCheckout, BeginPay, BeginMove, MayBegin
  <2>3. KeepsLocks(s)'
    <3>1. ASSUME NEW k \in Keys, BeginCheckout(s, k)
          PROVE  KeepsLocks(s)'
      BY <2>1, <3>1 DEF BeginCheckout, OrderStatuses
    <3>2. ASSUME NEW k \in Keys, BeginPay(s, k)
          PROVE  KeepsLocks(s)'
      BY <2>1, <3>2 DEF BeginPay, OrderStatuses
    <3>3. ASSUME NEW k \in Keys, NEW target \in OrderStatuses,
                 BeginMove(s, k, target)
          PROVE  KeepsLocks(s)'
      BY <2>1, <3>3 DEF BeginMove
    <3> QED
      BY <1>1, <3>1, <3>2, <3>3 DEF Begin
  <2>4. /\ UNCHANGED <<itemLock, draft, stock, orderLock>>
        /\ \A t \in Sessions \ {s} : req'[t] = req[t]
    BY <1>1 DEF TypeOK, Begin, BeginCheckout, BeginPay, BeginMove
  <2> QED
    BY <2>2, <2>3, <2>4, EarlyKeepsLockInv
<1>2. ASSUME NEW s \in Sessions, Confirm(s)
      PROVE  LockInv'
  <2>1. InService(s) /\ req[s] \in Request /\ req[s].phase = "confirm"
    BY <1>2, RequestFields DEF Confirm
  <2>2. KeepsLocks(s)
    BY <2>1 DEF LockInv
  <2>3. /\ UNCHANGED <<itemLock, draft, stock, orderLock>>
        /\ \A t \in Sessions \ {s} : req'[t] = req[t]
        /\ \/ req'[s] = Idle
           \/ req'[s] = [req[s] EXCEPT !.phase = "update"]
    BY <1>2 DEF TypeOK, Confirm
  <2>4. ASSUME req'[s] = [req[s] EXCEPT !.phase = "update"]
        PROVE  KeepsLocks(s)'
    <3>1. /\ req'[s].key = req[s].key /\ req'[s].line = req[s].line
          /\ req'[s].target = req[s].target /\ req'[s].phase = "update"
      BY <2>1, <2>4 DEF Request
    <3>2. LinesToDo(s)' = LinesToDo(s)
      BY <3>1 DEF LinesToDo
    <3>3. req[s].line = 1 /\ Done(s)' = {}
      BY <2>1, <2>2, <3>1 DEF KeepsLocks, Done
    <3> QED
      BY <2>1, <2>2, <2>3, <3>1, <3>2, <3>3 DEF KeepsLocks
  <2> QED
    BY <2>1, <2>3, <2>4, EarlyKeepsLockInv DEF InService
<1>3. ASSUME NEW s \in Sessions, LockOrder(s)
      PROVE  LockInv'
  <2>1. InService(s) /\ req[s] \in Request /\ req[s].phase = "update"
    BY <1>3, RequestFields DEF LockOrder
  <2>2. KeepsLocks(s)
    BY <2>1 DEF LockInv
  <2>3. /\ UNCHANGED <<itemLock, draft, stock>>
        /\ orderLock' = [orderLock EXCEPT ![req[s].key] = s]
        /\ orderLock[req[s].key] = NoSession
        /\ \A t \in Sessions \ {s} : req'[t] = req[t]
        /\ OrderLocked(s)
    BY <1>3 DEF TypeOK, LockOrder, OrderLocked
  <2>4. KeepsLocks(s)'
    <3>1. /\ req'[s].key = req[s].key /\ req'[s].line = req[s].line
          /\ req'[s].target = req[s].target /\ req'[s].phase = "stock"
          /\ req[s].key \in Keys
      BY <2>1, <2>3, OrderLockedFields, RequestFields
    <3>2. LinesToDo(s)' = LinesToDo(s)
      BY <3>1 DEF LinesToDo
    <3>3. orderLock'[req[s].key] = s
      BY <2>3, <3>1 DEF TypeOK
    <3>4. req[s].line = 1 /\ Done(s)' = {}
      BY <2>1, <2>2, <3>1 DEF KeepsLocks, Done
    <3> QED
      BY <2>1, <2>2, <2>3, <3>1, <3>2, <3>3, <3>4 DEF KeepsLocks
  <2>5. \A k \in Keys, t \in Sessions : orderLock[k] = t => orderLock'[k] = t
    BY <2>3, RequestAssumption DEF TypeOK
  <2> QED
    BY <2>1, <2>3, <2>4, <2>5, EarlyKeepsLockInv
<1>4. ASSUME NEW s \in Sessions,
             ReserveLine(s) \/ CommitLine(s) \/ ReleaseLine(s)
      PROVE  LockInv'
  <2>1. /\ AtLine(s) /\ MovesStock(s) /\ CanLock(s, CurrentLine(s).variant)
        /\ \E item : WriteItem(s, item)
    BY <1>4 DEF ReserveLine, CommitLine, ReleaseLine, MovesStock
  <2> QED
    BY <2>1, WriteKeepsLockInv
<1>5. ASSUME NEW s \in Sessions, PlaceOrder(s) \/ CommitMove(s)
      PROVE  LockInv'
  BY <1>5, PublishKeepsLockInv DEF PlaceOrder, CommitMove
<1>6. ASSUME NEW s \in Sessions,
             \/ ConfirmFails(s) \/ ReserveFails(s) \/ KeyTaken(s)
             \/ DeadlockVictim(s)
      PROVE  LockInv'
  BY <1>6, RollbackKeepsLockInv
     DEF ConfirmFails, ReserveFails, KeyTaken, DeadlockVictim
<1>7. ASSUME NEW v \in Variants, NEW delta \in Deltas, Adjust(v, delta)
      PROVE  LockInv'
  <2>1. UNCHANGED <<req, itemLock, orderLock>>
    BY <1>7 DEF Adjust
  <2>2. \A w \in Variants : itemLock'[w] = NoSession => draft'[w] = stock'[w]
    BY <1>7 DEF Adjust, TypeOK, LockInv
  <2>3. ASSUME NEW s \in Sessions, InService(s)'
        PROVE  KeepsLocks(s)'
    <3>1. InService(s) /\ KeepsLocks(s)
      BY <2>1, <2>3 DEF LockInv, InService
    <3> QED
      BY <2>1, <3>1, KeepsLocksKept
  <2> QED
    BY <2>1, <2>2, <2>3 DEF LockInv, InService, MovesStock
<1>8. CASE Restart
  <2>1. \A s \in Sessions : ~InService(s)'
    BY <1>8 DEF Restart, InService
  <2>2. \A v \in Variants : itemLock'[v] = NoSession
    BY <1>8 DEF Restart
  <2> QED
    BY <1>8, <2>1, <2>2, RequestAssumption DEF Restart, LockInv
<1>9. CASE UNCHANGED vars
  <2>1. ASSUME NEW s \in Sessions, InService(s)'
        PROVE  KeepsLocks(s)'
    <3>1. UNCHANGED <<req, itemLock, orderLock>>
      BY <1>9 DEF vars
    <3>2. InService(s) /\ KeepsLocks(s)
      BY <2>1, <3>1 DEF LockInv, InService
    <3> QED
      BY <3>1, <3>2, KeepsLocksKept
  <2> QED
    BY <1>9, <2>1 DEF LockInv, InService, MovesStock, vars
<1> QED
  BY <1>1, <1>2, <1>3, <1>4, <1>5, <1>6, <1>7, <1>8, <1>9 DEF Next, Proceed

-----------------------------------------------------------------------------
(* No unit is ever stranded.  The step lemma compares what a row has        *)
(* reserved with the units that unpaid orders hold, and the lines a request *)
(* has walked over with what it still has to move.                          *)

\* The numbers compared are natural numbers.
LEMMA HeldType ==
    ASSUME NEW v
    PROVE  /\ AwaitingPayment \in SUBSET Keys
           /\ Cardinality(HeldUnits(v)) \in Nat
<1>1. AwaitingPayment \in SUBSET Keys
  BY DEF AwaitingPayment
<1> QED
  BY <1>1, UnitsOfFinite DEF HeldUnits

\* How far a request in service has walked.
LEMMA WalkedType ==
    ASSUME TypeOK, LockInv, NEW s \in Sessions, InService(s), NEW v
    PROVE  /\ req[s].key \in Keys
           /\ Done(s) \in SUBSET (1 .. Len(Lines(req[s].key)))
           /\ Cardinality(Walked(s, v)) \in Nat
<1>1. req[s].key \in Keys
  BY RequestFields
<1>3. Done(s) \in SUBSET (1 .. Len(Lines(req[s].key)))
  BY DoneType DEF LockInv, KeepsLocks
<1>4. IsFiniteSet(Walked(s, v))
  BY <1>1, <1>3, UnitsFinite DEF Walked
<1> QED
  BY <1>1, <1>3, <1>4, FS_CardinalityType

\* A step that neither reserves, releases nor publishes anything.
LEMMA QuietStep ==
    ASSUME StrandedInv, orderStatus' = orderStatus,
           \A v \in Variants : stock'[v].reserved = stock[v].reserved,
           \A v \in Variants, s \in Sessions : itemLock'[v] = s =>
              /\ itemLock[v] = s
              /\ draft'[v].reserved = draft[v].reserved
              /\ req'[s] = req[s]
    PROVE  DraftInv' /\ NoStrandedStock'
<1>1. /\ AwaitingPayment' = AwaitingPayment
      /\ \A v : HeldUnits(v)' = HeldUnits(v)
  BY DEF AwaitingPayment, HeldUnits
<1>2. NoStrandedStock'
  BY <1>1 DEF StrandedInv, NoStrandedStock
<1>3. ASSUME NEW v \in Variants, NEW s \in Sessions, itemLock'[v] = s
      PROVE  /\ itemLock[v] = s
             /\ draft'[v].reserved = draft[v].reserved
             /\ req'[s] = req[s]
             /\ Walked(s, v)' = Walked(s, v)
  BY <1>3 DEF Walked, Done
<1>4. DraftInv'
  BY <1>1, <1>3 DEF StrandedInv, DraftInv
<1> QED
  BY <1>2, <1>4

\* What DraftInv says of the row a request may lock, locked already or free.
LEMMA LockableRow ==
    ASSUME StrandedInv, NEW s \in Sessions, AtLine(s),
           CanLock(s, CurrentLine(s).variant)
    PROVE  LET v == CurrentLine(s).variant
           IN  IF req[s].target = "awaiting_payment"
               THEN draft[v].reserved <=
                        Cardinality(HeldUnits(v)) + Cardinality(Walked(s, v))
               ELSE IF req[s].key \in AwaitingPayment
               THEN draft[v].reserved + Cardinality(Walked(s, v)) <=
                        Cardinality(HeldUnits(v))
               ELSE draft[v].reserved <= Cardinality(HeldUnits(v))
<1> DEFINE w == CurrentLine(s).variant
<1>1. w \in Variants /\ InService(s) /\ req[s].key \in Keys
  BY CurrentLineType, RequestFields DEF StrandedInv, AtLine
<1>2. CASE itemLock[w] = s
  BY <1>1, <1>2 DEF StrandedInv, DraftInv
<1>3. CASE itemLock[w] = NoSession
  <2>1. draft[w] = stock[w]
    BY <1>1, <1>3 DEF StrandedInv, LockInv
  <2>2. draft[w].reserved <= Cardinality(HeldUnits(w))
    BY <1>1, <2>1 DEF StrandedInv, NoStrandedStock
  <2>3. \A i \in Done(s) : Lines(req[s].key)[i].variant # w
    BY <1>1, <1>3, RequestAssumption DEF StrandedInv, LockInv, KeepsLocks
  <2>4. Walked(s, w) = {}
    BY <2>3 DEF Walked, UnitsIn
  <2>5. Cardinality(Walked(s, w)) = 0
    BY <2>4, FS_EmptySet
  <2>6. draft[w].reserved \in Nat /\ Cardinality(HeldUnits(w)) \in Nat
    BY <1>1, HeldType DEF StrandedInv, TypeOK, InventoryItem
  <2> QED
    BY <2>2, <2>5, <2>6
<1> QED
  BY <1>2, <1>3 DEF CanLock

\* One row is written under lock: it moves by the quantity of the line, and
\* so do the units walked over.
LEMMA WriteStep ==
    ASSUME StrandedInv, TypeOK', LockInv', NEW s \in Sessions, AtLine(s),
           CanLock(s, CurrentLine(s).variant),
           NEW item \in InventoryItem, WriteItem(s, item),
           LET l == CurrentLine(s)
           IN  IF req[s].target = "awaiting_payment"
               THEN item.reserved = draft[l.variant].reserved + l.quantity
               ELSE item.reserved =
                        AtLeastZero(draft[l.variant].reserved - l.quantity)
    PROVE  DraftInv' /\ NoStrandedStock'
<1> DEFINE k == req[s].key
           n == req[s].walk[req[s].line]
           J == Done(s) \union {n}
           w == CurrentLine(s).variant
           q == CurrentLine(s).quantity
<1>1. /\ InService(s) /\ req[s] \in Request /\ k \in Keys
      /\ n \in 1 .. Len(Lines(k))
      /\ w \in Variants /\ q \in Nat \ {0}
  BY CurrentLineType DEF StrandedInv, AtLine, Request
<1>2. /\ AwaitingPayment' = AwaitingPayment
      /\ \A v : HeldUnits(v)' = HeldUnits(v)
      /\ stock' = stock
  BY DEF WriteItem, AwaitingPayment, HeldUnits
<1>3. NoStrandedStock'
  BY <1>2 DEF StrandedInv, NoStrandedStock
<1>4. /\ req'[s].key = k /\ req'[s].target = req[s].target
      /\ n \notin Done(s) /\ Done(s)' = J
      /\ Done(s) \in SUBSET (1 .. Len(Lines(k)))
  <2>1. req'[s] = [req[s] EXCEPT !.line = @ + 1]
    BY DEF StrandedInv, TypeOK, WriteItem
  <2> QED
    BY <1>1, <2>1, NotYetDone, DoneNext, WalkedType DEF StrandedInv
<1>5. /\ itemLock'[w] = s /\ draft'[w] = item
      /\ \A v \in Variants \ {w} :
            itemLock'[v] = itemLock[v] /\ draft'[v] = draft[v]
      /\ \A t \in Sessions \ {s} : req'[t] = req[t]
  BY <1>1 DEF StrandedInv, TypeOK, WriteItem
<1>w. ASSUME NEW v
      PROVE  Walked(s, v)' = UnitsIn(k, v, J)
  <2>1. Walked(s, v)' = UnitsIn(req'[s].key, v, Done(s)')
    BY DEF Walked
  <2> QED
    BY <1>4, <2>1
<1>6. ASSUME NEW v \in Variants
      PROVE  Cardinality(Walked(s, v)') =
                 Cardinality(Walked(s, v)) + (IF w = v THEN q ELSE 0)
  <2>1. Walked(s, v) = UnitsIn(k, v, Done(s))
    BY DEF Walked
  <2> QED
    <3>1. Cardinality(UnitsIn(k, v, J)) =
              Cardinality(UnitsIn(k, v, Done(s))) +
              (IF Lines(k)[n].variant = v THEN Lines(k)[n].quantity ELSE 0)
      BY <1>1, <1>4, UnitsNextLine
    <3>2. w = Lines(k)[n].variant /\ q = Lines(k)[n].quantity
      BY DEF CurrentLine
    <3> QED
      BY <1>w, <2>1, <3>1, <3>2
<1>7. ASSUME NEW v \in Variants, NEW t \in Sessions, itemLock'[v] = t,
             v # w
      PROVE  /\ itemLock[v] = t /\ draft'[v] = draft[v]
             /\ req'[t].target = req[t].target /\ req'[t].key = req[t].key
             /\ Cardinality(Walked(t, v)') = Cardinality(Walked(t, v))
  <2>1. itemLock[v] = t /\ draft'[v] = draft[v]
    BY <1>5, <1>7
  <2>2. CASE t # s
    BY <1>5, <2>1, <2>2 DEF Walked, Done
  <2>3. CASE t = s
    <3>1. Cardinality(Walked(s, v)) \in Nat
      BY <1>1, WalkedType DEF StrandedInv
    <3>2. Cardinality(Walked(s, v)') = Cardinality(Walked(s, v))
      BY <1>6, <1>7, <3>1
    <3> QED
      BY <1>4, <2>1, <2>3, <3>2
  <2> QED
    BY <2>2, <2>3
<1>8. ASSUME NEW v \in Variants, v = w
      PROVE  IF req'[s].target = "awaiting_payment"
             THEN draft'[v].reserved <= Cardinality(HeldUnits(v)') +
                                        Cardinality(Walked(s, v)')
             ELSE IF req'[s].key \in AwaitingPayment'
             THEN draft'[v].reserved + Cardinality(Walked(s, v)') <=
                      Cardinality(HeldUnits(v)')
             ELSE draft'[v].reserved <= Cardinality(HeldUnits(v)')
  <2> DEFINE d == draft[v].reserved
             held == Cardinality(HeldUnits(v))
             walked == Cardinality(Walked(s, v))
             walkedNow == Cardinality(UnitsIn(k, v, J))
             dNow == item.reserved
  <2>1. d \in Nat /\ held \in Nat /\ walked \in Nat /\ q \in Nat
    BY <1>1, HeldType, WalkedType DEF StrandedInv, TypeOK, InventoryItem
  <2>2. walkedNow = walked + q
    BY <1>6, <1>8, <1>w
  <2>3. IF req[s].target = "awaiting_payment" THEN d <= held + walked
        ELSE IF k \in AwaitingPayment THEN d + walked <= held
        ELSE d <= held
    BY <1>8, LockableRow
  <2>4. dNow = IF req[s].target = "awaiting_payment" THEN d + q
               ELSE AtLeastZero(d - q)
    BY <1>8
  <2>5. k \in AwaitingPayment => walkedNow <= held
    <3>1. J \in SUBSET (1 .. Len(Lines(k)))
      BY <1>1, <1>4
    <3> QED
      BY <3>1, HeldType, UnitsOfCovers DEF HeldUnits
  <2>6. IF req[s].target = "awaiting_payment" THEN dNow <= held + walkedNow
        ELSE IF k \in AwaitingPayment THEN dNow + walkedNow <= held
        ELSE dNow <= held
    <3> HIDE DEF d, held, walked, walkedNow, dNow, q, k
    <3> QED
      BY <2>1, <2>2, <2>3, <2>4, <2>5 DEF AtLeastZero
  <2>7. draft'[v].reserved = dNow
    BY <1>5, <1>8
  <2> QED
    BY <1>2, <1>4, <1>w, <2>6, <2>7
<1>9. DraftInv'
  <2> SUFFICES ASSUME NEW v \in Variants, NEW t \in Sessions, itemLock'[v] = t
               PROVE  IF req'[t].target = "awaiting_payment"
                      THEN draft'[v].reserved <=
                               Cardinality(HeldUnits(v)') +
                               Cardinality(Walked(t, v)')
                      ELSE IF req'[t].key \in AwaitingPayment'
                      THEN draft'[v].reserved + Cardinality(Walked(t, v)') <=
                               Cardinality(HeldUnits(v)')
                      ELSE draft'[v].reserved <= Cardinality(HeldUnits(v)')
    BY DEF DraftInv
  <2>1. CASE v = w
    <3>1. t = s
      BY <1>5, <2>1
    <3> QED
      BY <1>8, <2>1, <3>1
  <2>2. CASE v # w
    BY <1>2, <1>7, <2>2 DEF StrandedInv, DraftInv
  <2> QED
    BY <2>1, <2>2
<1> QED
  BY <1>3, <1>9

\* Publishing what the session holds, after the orders have changed: how the
\* bound on a committed row follows from the one on the row under lock.
LEMMA PublishBound ==
    ASSUME StrandedInv, NEW s \in Sessions, PublishStock(s),
           NEW v \in Variants,
           itemLock[v] = s =>
               draft[v].reserved <= Cardinality(HeldUnits(v)'),
           itemLock[v] # s =>
               stock[v].reserved <= Cardinality(HeldUnits(v)')
    PROVE  stock'[v].reserved <= Cardinality(HeldUnits(v)')
BY DEF PublishStock

\* Sessions other than the one that ends keep their rows, and only those
\* rows stay locked.
LEMMA OthersKeepRows ==
    ASSUME StrandedInv, NEW s \in Sessions, ReleaseLocks(s)
    PROVE  \A v \in Variants, t \in Sessions : itemLock'[v] = t =>
              t # s /\ itemLock[v] = t /\ req'[t] = req[t]
BY RequestAssumption DEF StrandedInv, TypeOK, ReleaseLocks

\* A checkout commits: the units it walked over become units held.
LEMMA PlaceStep ==
    ASSUME StrandedInv, NEW s \in Sessions, PlaceOrder(s)
    PROVE  DraftInv' /\ NoStrandedStock'
<1> DEFINE k == req[s].key
<1>1. /\ InService(s) /\ k \in Keys /\ req[s].target = "awaiting_payment"
      /\ KeepsLocks(s) /\ orderStatus[k] = NoOrder
  BY RequestFields DEF StrandedInv, LockInv, PlaceOrder, AtEnd
<1>2. /\ AwaitingPayment' = AwaitingPayment \union {k}
      /\ k \in Keys \ AwaitingPayment
  BY <1>1 DEF StrandedInv, TypeOK, PlaceOrder, AwaitingPayment, NoOrder
<1>3. ASSUME NEW v
      PROVE  /\ Need(k, v) \in Nat
             /\ Cardinality(HeldUnits(v)') =
                    Cardinality(HeldUnits(v)) + Need(k, v)
  <2>1. HeldUnits(v)' = UnitsOf(AwaitingPayment', v)
    BY DEF HeldUnits
  <2>2. AwaitingPayment \in SUBSET Keys
    BY HeldType
  <2> QED
    BY <1>2, <2>1, <2>2, UnitsOfMore DEF HeldUnits
<1>4. Done(s) = 1 .. Len(Lines(k))
  BY <1>1, DoneAll DEF StrandedInv, PlaceOrder, MovesStock, KeepsLocks
<1>5. ASSUME NEW v
      PROVE  Cardinality(Walked(s, v)) = Need(k, v)
  BY <1>4 DEF Walked, Need, Units
<1>6. ASSUME NEW v \in Variants
      PROVE  stock'[v].reserved <= Cardinality(HeldUnits(v)')
  <2>1. itemLock[v] = s =>
            draft[v].reserved <= Cardinality(HeldUnits(v)')
    BY <1>1, <1>3, <1>5 DEF StrandedInv, DraftInv
  <2>2. /\ stock[v].reserved \in Nat /\ Cardinality(HeldUnits(v)) \in Nat
        /\ stock[v].reserved <= Cardinality(HeldUnits(v))
    BY HeldType DEF StrandedInv, TypeOK, InventoryItem, NoStrandedStock
  <2>3. stock[v].reserved <= Cardinality(HeldUnits(v)')
    BY <1>3, <2>2
  <2> QED
    BY <2>1, <2>3, PublishBound DEF PlaceOrder
<1>7. ASSUME NEW v \in Variants, NEW t \in Sessions, itemLock'[v] = t
      PROVE  IF req'[t].target = "awaiting_payment"
             THEN draft'[v].reserved <= Cardinality(HeldUnits(v)') +
                                        Cardinality(Walked(t, v)')
             ELSE IF req'[t].key \in AwaitingPayment'
             THEN draft'[v].reserved + Cardinality(Walked(t, v)') <=
                      Cardinality(HeldUnits(v)')
             ELSE draft'[v].reserved <= Cardinality(HeldUnits(v)')
  <2>1. t # s /\ itemLock[v] = t /\ req'[t] = req[t] /\ draft' = draft
    BY <1>7, OthersKeepRows DEF PlaceOrder
  <2>2. InService(t)
    BY <2>1 DEF StrandedInv, LockInv
  <2>3. req[t].target # "awaiting_payment" => req[t].key # k
    BY <1>1, <2>2 DEF StrandedInv, SnapshotInv, KnowsOrder
  <2>4. Walked(t, v)' = Walked(t, v)
    BY <2>1 DEF Walked, Done
  <2>5. /\ draft[v].reserved \in Nat /\ Cardinality(HeldUnits(v)) \in Nat
        /\ Cardinality(Walked(t, v)) \in Nat
    BY <2>2, HeldType, WalkedType DEF StrandedInv, TypeOK, InventoryItem
  <2>6. IF req[t].target = "awaiting_payment"
        THEN draft[v].reserved <=
                 Cardinality(HeldUnits(v)) + Cardinality(Walked(t, v))
        ELSE IF req[t].key \in AwaitingPayment
        THEN draft[v].reserved + Cardinality(Walked(t, v)) <=
                 Cardinality(HeldUnits(v))
        ELSE draft[v].reserved <= Cardinality(HeldUnits(v))
    BY <2>1 DEF StrandedInv, DraftInv
  <2> QED
    BY <1>2, <1>3, <2>1, <2>3, <2>4, <2>5, <2>6
<1> QED
  BY <1>6, <1>7 DEF DraftInv, NoStrandedStock

\* A payment, a cancellation or another move commits.  If it takes an order
\* out of awaiting_payment, it holds every row of that order and has moved
\* every line of it; nobody else can be writing the same order.
LEMMA MoveStep ==
    ASSUME StrandedInv, NEW s \in Sessions, CommitMove(s)
    PROVE  DraftInv' /\ NoStrandedStock'
<1> DEFINE k == req[s].key
<1>1. /\ InService(s) /\ k \in Keys /\ req[s].phase = "stock"
      /\ req[s].target # "awaiting_payment" /\ KeepsLocks(s)
      /\ KnowsOrder(s) /\ orderStatus[k] # NoOrder
      /\ CanMove(req[s].snap, req[s].target)
  <2>1. /\ InService(s) /\ req[s].phase = "stock"
        /\ req[s].target # "awaiting_payment"
    BY DEF CommitMove, AtEnd
  <2> QED
    BY <2>1, RequestFields
       DEF StrandedInv, LockInv, SnapshotInv, KnowsOrder
<1>2. AwaitingPayment' = AwaitingPayment \ {k}
  BY <1>1 DEF StrandedInv, TypeOK, CommitMove, AwaitingPayment
<1>3. ASSUME NEW v \in Variants, NEW t \in Sessions, itemLock'[v] = t
      PROVE  /\ t # s /\ itemLock[v] = t /\ req'[t] = req[t]
             /\ draft' = draft /\ InService(t)
             /\ Walked(t, v)' = Walked(t, v)
  <2>1. t # s /\ itemLock[v] = t /\ req'[t] = req[t] /\ draft' = draft
    BY <1>3, OthersKeepRows DEF CommitMove
  <2> QED
    BY <2>1 DEF StrandedInv, LockInv, Walked, Done
<1>4. CASE k \notin AwaitingPayment
  <2>1. /\ AwaitingPayment' = AwaitingPayment
        /\ \A v : HeldUnits(v)' = HeldUnits(v)
    BY <1>2, <1>4 DEF HeldUnits
  <2>2. ASSUME NEW v \in Variants
        PROVE  stock'[v].reserved <= Cardinality(HeldUnits(v)')
    BY <1>1, <1>4, <2>1, PublishBound
       DEF StrandedInv, DraftInv, NoStrandedStock, CommitMove
  <2>3. DraftInv'
    BY <1>3, <2>1 DEF StrandedInv, DraftInv
  <2> QED
    BY <2>2, <2>3 DEF NoStrandedStock
<1>5. CASE k \in AwaitingPayment
  <2>1. req[s].target \in {"paid", "cancelled"}
    <3>1. req[s].snap = "awaiting_payment"
      BY <1>1, <1>5 DEF KnowsOrder, AwaitingPayment
    <3> QED
      BY <1>1, <3>1 DEF CanMove, ALLOWED_TRANSITIONS
  <2>2. Done(s) = 1 .. Len(Lines(k))
    BY <1>1, <2>1, DoneAll DEF StrandedInv, CommitMove, MovesStock, KeepsLocks
  <2>3. ASSUME NEW v
        PROVE  Cardinality(Walked(s, v)) = Need(k, v)
    BY <2>2 DEF Walked, Need, Units
  <2>4. ASSUME NEW v
        PROVE  /\ Need(k, v) \in Nat
               /\ Cardinality(HeldUnits(v)') \in Nat
               /\ Cardinality(HeldUnits(v)) =
                      Cardinality(HeldUnits(v)') + Need(k, v)
    <3>1. /\ AwaitingPayment' \in SUBSET Keys
          /\ k \in Keys \ AwaitingPayment'
          /\ AwaitingPayment = AwaitingPayment' \union {k}
      BY <1>1, <1>2, <1>5, HeldType
    <3>2. HeldUnits(v)' = UnitsOf(AwaitingPayment', v)
      BY DEF HeldUnits
    <3>3. HeldUnits(v) = UnitsOf(AwaitingPayment' \union {k}, v)
      BY <3>1 DEF HeldUnits
    <3> QED
      BY <3>1, <3>2, <3>3, UnitsOfMore, UnitsOfFinite
  <2>5. ASSUME NEW v \in Variants, itemLock[v] # s
        PROVE  Cardinality(HeldUnits(v)) = Cardinality(HeldUnits(v)')
    <3>1. \A i \in 1 .. Len(Lines(k)) : Lines(k)[i].variant # v
      BY <1>1, <2>2, <2>5 DEF KeepsLocks
    <3>2. Need(k, v) = 0
      BY <1>1, <3>1, NoLineNoUnits, FS_EmptySet DEF Need
    <3> QED
      BY <2>4, <3>2
  <2>6. ASSUME NEW v \in Variants
        PROVE  stock'[v].reserved <= Cardinality(HeldUnits(v)')
    <3>1. itemLock[v] = s =>
              draft[v].reserved <= Cardinality(HeldUnits(v)')
      <4>1. draft[v].reserved \in Nat
        BY DEF StrandedInv, TypeOK, InventoryItem
      <4>2. itemLock[v] = s => draft[v].reserved + Need(k, v) <=
                                   Cardinality(HeldUnits(v))
        BY <1>1, <1>5, <2>3 DEF StrandedInv, DraftInv
      <4> QED
        BY <2>4, <4>1, <4>2
    <3>2. itemLock[v] # s =>
              stock[v].reserved <= Cardinality(HeldUnits(v)')
      BY <2>5 DEF StrandedInv, NoStrandedStock
    <3> QED
      BY <3>1, <3>2, PublishBound DEF CommitMove
  <2>7. ASSUME NEW v \in Variants, NEW t \in Sessions, itemLock'[v] = t
        PROVE  IF req'[t].target = "awaiting_payment"
               THEN draft'[v].reserved <= Cardinality(HeldUnits(v)') +
                                          Cardinality(Walked(t, v)')
               ELSE IF req'[t].key \in AwaitingPayment'
               THEN draft'[v].reserved + Cardinality(Walked(t, v)') <=
                        Cardinality(HeldUnits(v)')
               ELSE draft'[v].reserved <= Cardinality(HeldUnits(v)')
    <3>1. /\ t # s /\ itemLock[v] = t /\ req'[t] = req[t] /\ draft' = draft
          /\ InService(t) /\ Walked(t, v)' = Walked(t, v)
      BY <1>3, <2>7
    <3>2. Cardinality(HeldUnits(v)') = Cardinality(HeldUnits(v))
      BY <2>5, <3>1
    <3>3. req[t].target # "awaiting_payment" => req[t].key # k
      <4>1. req[t].phase = "stock" /\ KeepsLocks(t)
        BY <3>1 DEF StrandedInv, LockInv
      <4> QED
        BY <1>1, <3>1, <4>1 DEF KeepsLocks
    <3>4. IF req[t].target = "awaiting_payment"
          THEN draft[v].reserved <=
                   Cardinality(HeldUnits(v)) + Cardinality(Walked(t, v))
          ELSE IF req[t].key \in AwaitingPayment
          THEN draft[v].reserved + Cardinality(Walked(t, v)) <=
                   Cardinality(HeldUnits(v))
          ELSE draft[v].reserved <= Cardinality(HeldUnits(v))
      BY <3>1 DEF StrandedInv, DraftInv
    <3> QED
      BY <1>2, <3>1, <3>2, <3>3, <3>4
  <2> QED
    BY <2>6, <2>7 DEF DraftInv, NoStrandedStock
<1> QED
  BY <1>4, <1>5

LEMMA StrandedStep ==
    ASSUME StrandedInv, [Next]_vars
    PROVE  StrandedInv'
<1>1. TypeOK' /\ SnapshotInv' /\ LockInv'
  BY TypeStep, SnapshotStep, LockStep DEF StrandedInv
<1>2. ASSUME NEW s \in Sessions, Begin(s) \/ Confirm(s) \/ LockOrder(s)
      PROVE  DraftInv' /\ NoStrandedStock'
  <2>1. /\ UNCHANGED <<orderStatus, stock, draft, itemLock>>
        /\ \A t \in Sessions \ {s} : req'[t] = req[t]
        /\ ~(InService(s) /\ req[s].phase = "stock")
    BY <1>2
       DEF StrandedInv, TypeOK, Begin, BeginCheckout, BeginPay, BeginMove,
           MayBegin, Confirm, LockOrder
  <2>2. \A v \in Variants : itemLock[v] # s
    BY <2>1 DEF StrandedInv, LockInv
  <2> QED
    BY <2>1, <2>2, QuietStep
<1>3. ASSUME NEW s \in Sessions,
             \/ ConfirmFails(s) \/ ReserveFails(s) \/ KeyTaken(s)
             \/ DeadlockVictim(s)
      PROVE  DraftInv' /\ NoStrandedStock'
  <2>1. Rollback(s)
    BY <1>3 DEF ConfirmFails, ReserveFails, KeyTaken, DeadlockVictim
  <2>2. \A v \in Variants, t \in Sessions : itemLock'[v] = t =>
            t # s /\ itemLock[v] = t /\ req'[t] = req[t]
    BY <2>1, OthersKeepRows DEF Rollback
  <2>3. \A v \in Variants : itemLock[v] # s => draft'[v] = draft[v]
    BY <2>1 DEF Rollback
  <2> QED
    BY <2>1, <2>2, <2>3, QuietStep DEF Rollback
<1>4. ASSUME NEW s \in Sessions,
             ReserveLine(s) \/ CommitLine(s) \/ ReleaseLine(s)
      PROVE  DraftInv' /\ NoStrandedStock'
  <2>1. AtLine(s) /\ CanLock(s, CurrentLine(s).variant)
    BY <1>4 DEF ReserveLine, CommitLine, ReleaseLine
  <2> DEFINE l == CurrentLine(s)
             item == draft[l.variant]
  <2>2. item \in InventoryItem /\ l.quantity \in Nat
    BY <2>1, CurrentLineType DEF StrandedInv, TypeOK
  <2>3. CASE ReserveLine(s)
    <3>1. /\ Reserve(item, l.quantity) \in InventoryItem
          /\ Reserve(item, l.quantity).reserved = item.reserved + l.quantity
      <4> HIDE DEF item, l
      <4> QED
        BY <2>2, ReserveItem
    <3>2. /\ WriteItem(s, Reserve(item, l.quantity))
          /\ req[s].target = "awaiting_payment"
      BY <2>3 DEF ReserveLine
    <3> QED
      BY <1>1, <2>1, <3>1, <3>2, WriteStep
  <2>4. CASE CommitLine(s)
    <3>1. /\ CommitReservation(item, l.quantity) \in InventoryItem
          /\ CommitReservation(item, l.quantity).reserved =
                 AtLeastZero(item.reserved - l.quantity)
      <4> HIDE DEF item, l
      <4> QED
        BY <2>2, CommitItem
    <3>2. /\ WriteItem(s, CommitReservation(item, l.quantity))
          /\ req[s].target = "paid"
      BY <2>4 DEF CommitLine
    <3> QED
      BY <1>1, <2>1, <3>1, <3>2, WriteStep
  <2>5. CASE ReleaseLine(s)
    <3>1. /\ Release(item, l.quantity) \in InventoryItem
          /\ Release(item, l.quantity).reserved =
                 AtLeastZero(item.reserved - l.quantity)
      <4> HIDE DEF item, l
      <4> QED
        BY <2>2, ReleaseItem
    <3>2. /\ WriteItem(s, Release(item, l.quantity))
          /\ req[s].target = "cancelled"
      BY <2>5 DEF ReleaseLine
    <3> QED
      BY <1>1, <2>1, <3>1, <3>2, WriteStep
  <2> QED
    BY <1>4, <2>3, <2>4, <2>5
<1>5. ASSUME NEW s \in Sessions, PlaceOrder(s) \/ CommitMove(s)
      PROVE  DraftInv' /\ NoStrandedStock'
  BY <1>5, PlaceStep, MoveStep
<1>6. ASSUME NEW v \in Variants, NEW delta \in Deltas, Adjust(v, delta)
      PROVE  DraftInv' /\ NoStrandedStock'
  <2>1. /\ stock[v] \in InventoryItem /\ delta \in Int
        /\ stock[v].reserved <= stock[v].quantity + delta
        /\ itemLock[v] = NoSession
    BY <1>6, RequestAssumption DEF StrandedInv, TypeOK, Adjust
  <2>2. Adjusted(stock[v], delta).reserved = stock[v].reserved
    BY <2>1, AdjustedItem
  <2>3. \A w \in Variants : stock'[w].reserved = stock[w].reserved
    BY <1>6, <2>2 DEF StrandedInv, TypeOK, Adjust
  <2>4. \A w \in Variants \ {v} : draft'[w] = draft[w]
    BY <1>6 DEF StrandedInv, TypeOK, Adjust
  <2>5. UNCHANGED <<orderStatus, itemLock, req>>
    BY <1>6 DEF Adjust
  <2> QED
    BY <2>1, <2>3, <2>4, <2>5, RequestAssumption, QuietStep
<1>7. ASSUME Restart
      PROVE  DraftInv' /\ NoStrandedStock'
  <2>1. \A v \in Variants, s \in Sessions : itemLock'[v] # s
    BY <1>7, RequestAssumption DEF Restart
  <2>2. /\ orderStatus' = orderStatus
        /\ \A v \in Variants : stock'[v].reserved = stock[v].reserved
    BY <1>7 DEF Restart
  <2>3. \A v \in Variants, s \in Sessions : itemLock'[v] = s =>
           /\ itemLock[v] = s
           /\ draft'[v].reserved = draft[v].reserved
           /\ req'[s] = req[s]
    BY <2>1
  <2> QED
    BY <2>2, <2>3, QuietStep
<1>8. ASSUME UNCHANGED vars
      PROVE  DraftInv' /\ NoStrandedStock'
  <2>1. /\ orderStatus' = orderStatus
        /\ \A v \in Variants : stock'[v].reserved = stock[v].reserved
    BY <1>8 DEF vars
  <2>2. \A v \in Variants, s \in Sessions : itemLock'[v] = s =>
           /\ itemLock[v] = s
           /\ draft'[v].reserved = draft[v].reserved
           /\ req'[s] = req[s]
    BY <1>8 DEF vars
  <2> QED
    BY <2>1, <2>2, QuietStep
<1> QED
  BY <1>1, <1>2, <1>3, <1>4, <1>5, <1>6, <1>7, <1>8
     DEF Next, Proceed, StrandedInv

LEMMA StrandedInit == Init => StrandedInv
<1> SUFFICES ASSUME Init PROVE StrandedInv
  OBVIOUS
<1>1. \A s \in Sessions : ~InService(s)
  BY DEF Init, InService
<1>2. \A v \in Variants : /\ itemLock[v] = NoSession
                          /\ draft[v] = stock[v]
                          /\ stock[v] = NewItem(InitialStock[v])
  BY DEF Init
<1>3. SnapshotInv /\ LockInv /\ DraftInv
  <2>1. \A k \in Keys : orderStatus[k] # "draft"
    BY DEF Init, NoOrder
  <2>2. \A v \in Variants, s \in Sessions : itemLock[v] # s
    BY <1>2, RequestAssumption
  <2> QED
    BY <1>1, <1>2, <2>1, <2>2 DEF SnapshotInv, LockInv, DraftInv
<1>4. NoStrandedStock
  <2>1. \A n : NewItem(n).reserved = 0
    BY DEF NewItem
  <2>2. \A v \in Variants : stock[v].reserved = 0
    BY <1>2, <2>1
  <2>3. \A v : Cardinality(HeldUnits(v)) \in Nat
    BY HeldType
  <2> QED
    BY <2>2, <2>3 DEF NoStrandedStock
<1> QED
  BY <1>3, <1>4, TypeInit DEF StrandedInv

\* The inductive invariant holds of every behaviour.
THEOREM StrandedInvHolds == Spec => []StrandedInv
<1>1. StrandedInv /\ [Next]_vars => StrandedInv'
  BY StrandedStep
<1> QED
  BY <1>1, StrandedInit, PTL DEF Spec

\* Stock is reserved only for orders that still await payment: races,
\* rollbacks, deadlock victims and restarts leave no unit behind.
THEOREM NoneStranded == Spec => []NoStrandedStock
<1>1. StrandedInv => NoStrandedStock
  BY DEF StrandedInv
<1> QED
  BY <1>1, StrandedInvHolds, PTL

-----------------------------------------------------------------------------
(* Who holds a row.                                                        *)

\* A step that takes no row, and changes no request that holds one.
LEMMA HeldKept ==
    ASSUME HeldByWalk,
           \A v \in Variants, s \in Sessions : itemLock'[v] = s =>
              itemLock[v] = s /\ req'[s] = req[s],
           \A k \in Keys, s \in Sessions : orderLock'[k] = s =>
              orderLock[k] = s /\ req'[s] = req[s]
    PROVE  HeldByWalk'
<1>1. ASSUME NEW v \in Variants, NEW s \in Sessions, itemLock'[v] = s
      PROVE  \E i \in Done(s)' : Lines(req'[s].key)[i].variant = v
  <2>1. itemLock[v] = s /\ req'[s] = req[s]
    BY <1>1
  <2>2. Done(s)' = Done(s)
    BY <2>1 DEF Done
  <2> QED
    BY <2>1, <2>2 DEF HeldByWalk
<1>2. ASSUME NEW k \in Keys, NEW s \in Sessions, orderLock'[k] = s
      PROVE  InService(s)' /\ req'[s].phase = "stock" /\ req'[s].key = k
  BY <1>2 DEF HeldByWalk, InService
<1> QED
  BY <1>1, <1>2 DEF HeldByWalk

\* A request that is not yet at its lines holds nothing.
LEMMA HoldsNothing ==
    ASSUME LockInv, HeldByWalk, NEW s \in Sessions,
           ~(InService(s) /\ req[s].phase = "stock")
    PROVE  /\ \A v \in Variants : itemLock[v] # s
           /\ \A k \in Keys : orderLock[k] # s
BY DEF LockInv, HeldByWalk

\* The request that locks its order row.
LEMMA HeldLockOrder ==
    ASSUME TypeOK, LockInv, HeldByWalk, NEW s \in Sessions, LockOrder(s)
    PROVE  HeldByWalk'
<1>1. InService(s) /\ req[s].key \in Keys /\ req[s].phase = "update"
  BY RequestFields DEF LockOrder
<1>2. PICK walk \in WalksTo(req[s].key, req[s].target) :
          req' = [req EXCEPT ![s] =
                     [req[s] EXCEPT !.phase = "stock", !.walk = walk]]
  BY DEF LockOrder
<1>3. /\ req'[s] = [req[s] EXCEPT !.phase = "stock", !.walk = walk]
      /\ \A t \in Sessions \ {s} : req'[t] = req[t]
  BY <1>2 DEF TypeOK
<1>4. req'[s].key = req[s].key /\ req'[s].phase = "stock" /\ InService(s)'
  <2>1. OrderLocked(s)
    BY <1>3 DEF OrderLocked
  <2>2. req'[s].key = req[s].key /\ req'[s].phase = "stock"
    BY <1>1, <2>1, OrderLockedFields
  <2> QED
    BY <2>2 DEF InService, Idle
<1>5. /\ \A v \in Variants : itemLock[v] # s
      /\ \A k \in Keys : orderLock[k] # s
  BY <1>1, HoldsNothing
<1>6. /\ itemLock' = itemLock
      /\ orderLock' = [orderLock EXCEPT ![req[s].key] = s]
  BY DEF LockOrder
<1>7. ASSUME NEW v \in Variants, NEW t \in Sessions, itemLock'[v] = t
      PROVE  \E i \in Done(t)' : Lines(req'[t].key)[i].variant = v
  <2>1. t # s /\ itemLock[v] = t
    BY <1>5, <1>6, <1>7
  <2>2. req'[t] = req[t]
    BY <1>3, <2>1
  <2>3. Done(t)' = Done(t)
    BY <2>2 DEF Done
  <2> QED
    BY <2>1, <2>2, <2>3 DEF HeldByWalk
<1>8. ASSUME NEW k \in Keys, NEW t \in Sessions, orderLock'[k] = t
      PROVE  InService(t)' /\ req'[t].phase = "stock" /\ req'[t].key = k
  <2>1. CASE k = req[s].key
    <3>1. t = s
      BY <1>1, <1>6, <1>8, <2>1 DEF TypeOK
    <3> QED
      BY <1>4, <2>1, <3>1
  <2>2. CASE k # req[s].key
    <3>1. orderLock[k] = t
      BY <1>6, <1>8, <2>2 DEF TypeOK
    <3>2. t # s
      BY <1>5, <3>1
    <3>3. req'[t] = req[t]
      BY <1>3, <3>2
    <3> QED
      BY <3>1, <3>3 DEF HeldByWalk, InService
  <2> QED
    BY <2>1, <2>2
<1> QED
  BY <1>7, <1>8 DEF HeldByWalk

\* The request that writes a row.
LEMMA HeldWrite ==
    ASSUME TypeOK, HeldByWalk, NEW s \in Sessions, AtLine(s),
           NEW item, WriteItem(s, item)
    PROVE  HeldByWalk'
<1> DEFINE w == CurrentLine(s).variant
           n == req[s].walk[req[s].line]
<1>1. InService(s) /\ req[s].key \in Keys /\ req[s].phase = "stock"
      /\ w \in Variants
  BY RequestFields, CurrentLineType DEF AtLine
<1>2. /\ req'[s] = [req[s] EXCEPT !.line = @ + 1]
      /\ \A t \in Sessions \ {s} : req'[t] = req[t]
  BY DEF TypeOK, WriteItem
<1>3. /\ Done(s)' = Done(s) \union {n} /\ req'[s].key = req[s].key
      /\ req'[s].phase = "stock"
  BY <1>1, <1>2, DoneNext
<1>4. /\ \A v \in Variants \ {w} : itemLock'[v] = itemLock[v]
      /\ itemLock'[w] = s /\ orderLock' = orderLock
  BY <1>1 DEF TypeOK, WriteItem
<1>5. ASSUME NEW v \in Variants, NEW t \in Sessions, itemLock'[v] = t
      PROVE  \E i \in Done(t)' : Lines(req'[t].key)[i].variant = v
  <2>1. CASE v = w
    <3>1. t = s /\ n \in Done(s)' /\ Lines(req'[s].key)[n].variant = w
      BY <1>3, <1>4, <1>5, <2>1 DEF CurrentLine
    <3> QED
      BY <2>1, <3>1
  <2>2. CASE v # w
    <3>1. itemLock[v] = t
      BY <1>4, <1>5, <2>2
    <3>2. \E i \in Done(t) : Lines(req[t].key)[i].variant = v
      BY <3>1 DEF HeldByWalk
    <3>3. req'[t].key = req[t].key /\ Done(t) \subseteq Done(t)'
      <4>1. CASE t = s
        BY <1>3, <4>1
      <4>2. CASE t # s
        BY <1>2, <4>2 DEF Done
      <4> QED
        BY <4>1, <4>2
    <3> QED
      BY <3>2, <3>3
  <2> QED
    BY <2>1, <2>2
<1>6. ASSUME NEW k \in Keys, NEW t \in Sessions, orderLock'[k] = t
      PROVE  InService(t)' /\ req'[t].phase = "stock" /\ req'[t].key = k
  <2>1. orderLock[k] = t
    BY <1>4, <1>6
  <2>2. InService(t) /\ req[t].phase = "stock" /\ req[t].key = k
    BY <2>1 DEF HeldByWalk
  <2>3. req'[t].phase = "stock" /\ req'[t].key = k
    BY <1>2, <1>3, <2>2
  <2> QED
    BY <2>3 DEF InService, Idle
<1> QED
  BY <1>5, <1>6 DEF HeldByWalk

LEMMA HeldStep ==
    ASSUME TypeOK, LockInv, HeldByWalk, [Next]_vars
    PROVE  HeldByWalk'
<1>1. ASSUME NEW s \in Sessions, Begin(s) \/ Confirm(s)
      PROVE  HeldByWalk'
  <2>1. /\ UNCHANGED <<itemLock, orderLock>>
        /\ \A t \in Sessions \ {s} : req'[t] = req[t]
        /\ ~(InService(s) /\ req[s].phase = "stock")
    BY <1>1
       DEF TypeOK, Begin, BeginCheckout, BeginPay, BeginMove, MayBegin, Confirm
  <2> QED
    BY <2>1, HoldsNothing, HeldKept
<1>2. ASSUME NEW s \in Sessions,
             ReserveLine(s) \/ CommitLine(s) \/ ReleaseLine(s)
      PROVE  HeldByWalk'
  BY <1>2, HeldWrite DEF ReserveLine, CommitLine, ReleaseLine
<1>3. ASSUME NEW s \in Sessions,
             \/ PlaceOrder(s) \/ CommitMove(s)
             \/ ConfirmFails(s) \/ ReserveFails(s) \/ KeyTaken(s)
             \/ DeadlockVictim(s)
      PROVE  HeldByWalk'
  <2>1. ReleaseLocks(s)
    BY <1>3 DEF PlaceOrder, CommitMove, ConfirmFails, ReserveFails, KeyTaken,
                DeadlockVictim, Rollback
  <2>2. \A v \in Variants, t \in Sessions : itemLock'[v] = t =>
            itemLock[v] = t /\ req'[t] = req[t]
    BY <2>1, RequestAssumption DEF TypeOK, ReleaseLocks
  <2>3. \A k \in Keys, t \in Sessions : orderLock'[k] = t =>
            orderLock[k] = t /\ req'[t] = req[t]
    BY <2>1, RequestAssumption DEF TypeOK, ReleaseLocks
  <2> QED
    BY <2>2, <2>3, HeldKept
<1>4. CASE UNCHANGED <<itemLock, orderLock, req>>
  BY <1>4, HeldKept
<1>5. CASE Restart
  <2>1. /\ \A v \in Variants, s \in Sessions : itemLock'[v] # s
        /\ \A k \in Keys, s \in Sessions : orderLock'[k] # s
    BY <1>5, RequestAssumption DEF Restart
  <2> QED
    BY <2>1 DEF HeldByWalk
<1>6. ASSUME NEW v \in Variants, NEW delta \in Deltas, Adjust(v, delta)
      PROVE  HeldByWalk'
  BY <1>4, <1>6 DEF Adjust
<1>7. CASE UNCHANGED vars
  BY <1>4, <1>7 DEF vars
<1> QED
  BY <1>1, <1>2, <1>3, <1>5, <1>6, <1>7, HeldLockOrder DEF Next, Proceed

-----------------------------------------------------------------------------
(* What is moved is booked, whatever overlaps.                             *)

\* What Moved makes of the numbers of a row.
LEMMA MovedFields ==
    ASSUME NEW item \in InventoryItem, NEW n \in Nat
    PROVE  /\ LET moved == Moved(item, "awaiting_payment", n)
              IN  /\ moved.quantity = item.quantity
                  /\ moved.reserved = item.reserved + n
                  /\ moved.reserveLog = item.reserveLog + n
                  /\ moved.releaseLog = item.releaseLog
                  /\ moved.commitLog = item.commitLog
                  /\ moved.manualLog = item.manualLog
           /\ LET moved == Moved(item, "paid", n)
              IN  /\ moved.quantity = item.quantity - n
                  /\ moved.reserved = item.reserved - n
                  /\ moved.reserveLog = item.reserveLog
                  /\ moved.releaseLog = item.releaseLog
                  /\ moved.commitLog = item.commitLog + n
                  /\ moved.manualLog = item.manualLog
           /\ LET moved == Moved(item, "cancelled", n)
              IN  /\ moved.quantity = item.quantity
                  /\ moved.reserved = item.reserved - n
                  /\ moved.reserveLog = item.reserveLog
                  /\ moved.releaseLog = item.releaseLog + n
                  /\ moved.commitLog = item.commitLog
                  /\ moved.manualLog = item.manualLog
BY DEF Moved, InventoryItem

\* A row of which nothing has been moved is the row.
LEMMA MovedByNone ==
    ASSUME NEW item \in InventoryItem, NEW target
    PROVE  Moved(item, target, 0) = item
<1>1. /\ item.reserved + 0 = item.reserved /\ item.reserved - 0 = item.reserved
      /\ item.quantity - 0 = item.quantity
      /\ item.reserveLog + 0 = item.reserveLog
      /\ item.releaseLog + 0 = item.releaseLog
      /\ item.commitLog + 0 = item.commitLog
  BY DEF InventoryItem
<1>2. [item EXCEPT !.reserved = item.reserved, !.reserveLog = item.reserveLog]
          = item
  BY DEF InventoryItem
<1>3. [item EXCEPT !.reserved = item.reserved, !.quantity = item.quantity,
                   !.commitLog = item.commitLog] = item
  BY DEF InventoryItem
<1>4. [item EXCEPT !.reserved = item.reserved, !.releaseLog = item.releaseLog]
          = item
  BY DEF InventoryItem
<1>5. CASE target = "awaiting_payment"
  BY <1>1, <1>2, <1>5 DEF Moved
<1>6. CASE target = "paid"
  BY <1>1, <1>3, <1>6 DEF Moved
<1>7. CASE target = "cancelled"
  BY <1>1, <1>4, <1>7 DEF Moved
<1>8. CASE target \notin {"awaiting_payment", "paid", "cancelled"}
  BY <1>8 DEF Moved
<1> QED
  BY <1>5, <1>6, <1>7, <1>8

\* Bookkeeping commits publish nothing.
LEMMA PublishesNothing ==
    ASSUME StrandedInv, NEW s \in Sessions, ~MovesStock(s), PublishStock(s)
    PROVE  stock' = stock
<1>1. \A v \in Variants : itemLock[v] # s
  BY DEF StrandedInv, LockInv
<1> QED
  BY <1>1 DEF PublishStock, StrandedInv, TypeOK

\* A row from which nothing has been moved is booked.
LEMMA BookedByNone ==
    ASSUME NEW item \in InventoryItem, NEW target
    PROVE  Booked(item, Moved(item, target, 0))
<1>1. Moved(item, target, 0) = item
  BY MovedByNone
<1> QED
  BY <1>1 DEF Booked, InventoryItem

\* A line more is booked: the clamps may keep more than was there, not less.
LEMMA BookedReserve ==
    ASSUME NEW row \in InventoryItem, NEW item \in InventoryItem,
           NEW n \in Nat, NEW q \in Nat,
           Booked(item, Moved(row, "awaiting_payment", n))
    PROVE  Booked(Reserve(item, q), Moved(row, "awaiting_payment", n + q))
<1>1. LET next == Reserve(item, q)
      IN  /\ next.quantity = item.quantity
          /\ next.reserved = item.reserved + q
          /\ next.reserveLog = item.reserveLog + q
          /\ next.releaseLog = item.releaseLog
          /\ next.commitLog = item.commitLog
          /\ next.manualLog = item.manualLog
  BY DEF Reserve, InventoryItem
<1>2. n + q \in Nat
  OBVIOUS
<1>3. LET before == Moved(row, "awaiting_payment", n)
          after == Moved(row, "awaiting_payment", n + q)
      IN  /\ after.quantity = before.quantity
          /\ after.reserved = before.reserved + q
          /\ after.reserveLog = before.reserveLog + q
          /\ after.releaseLog = before.releaseLog
          /\ after.commitLog = before.commitLog
          /\ after.manualLog = before.manualLog
          /\ before.reserved \in Int /\ before.reserveLog \in Int
  <2>1. /\ row.reserved \in Nat /\ row.reserveLog \in Nat
    BY DEF InventoryItem
  <2> QED
    BY <1>2, <2>1, MovedFields
<1>4. item.reserved \in Nat /\ item.reserveLog \in Nat
  BY DEF InventoryItem
<1> HIDE DEF InventoryItem
<1> QED
  BY <1>1, <1>3, <1>4 DEF Booked

LEMMA BookedCommit ==
    ASSUME NEW row \in InventoryItem, NEW item \in InventoryItem,
           NEW n \in Nat, NEW q \in Nat, Booked(item, Moved(row, "paid", n))
    PROVE  Booked(CommitReservation(item, q), Moved(row, "paid", n + q))
<1>1. LET next == CommitReservation(item, q)
      IN  /\ next.quantity = AtLeastZero(item.quantity - q)
          /\ next.reserved = AtLeastZero(item.reserved - q)
          /\ next.reserveLog = item.reserveLog
          /\ next.releaseLog = item.releaseLog
          /\ next.commitLog = item.commitLog + q
          /\ next.manualLog = item.manualLog
  BY DEF CommitReservation, InventoryItem
<1>2. n + q \in Nat
  OBVIOUS
<1>3. LET before == Moved(row, "paid", n)
          after == Moved(row, "paid", n + q)
      IN  /\ after.quantity = before.quantity - q
          /\ after.reserved = before.reserved - q
          /\ after.reserveLog = before.reserveLog
          /\ after.releaseLog = before.releaseLog
          /\ after.commitLog = before.commitLog + q
          /\ after.manualLog = before.manualLog
          /\ before.quantity \in Int /\ before.reserved \in Int
          /\ before.commitLog \in Int
  <2>1. row.quantity \in Nat /\ row.reserved \in Nat /\ row.commitLog \in Nat
    BY DEF InventoryItem
  <2> QED
    BY <1>2, <2>1, MovedFields
<1>4. /\ item.quantity \in Nat /\ item.reserved \in Nat
      /\ item.commitLog \in Nat
  BY DEF InventoryItem
<1>5. /\ AtLeastZero(item.quantity - q) >= item.quantity - q
      /\ AtLeastZero(item.reserved - q) >= item.reserved - q
      /\ AtLeastZero(item.quantity - q) \in Int
      /\ AtLeastZero(item.reserved - q) \in Int
  BY <1>4 DEF AtLeastZero
<1> QED
  BY <1>1, <1>3, <1>4, <1>5 DEF Booked

LEMMA BookedRelease ==
    ASSUME NEW row \in InventoryItem, NEW item \in InventoryItem,
           NEW n \in Nat, NEW q \in Nat,
           Booked(item, Moved(row, "cancelled", n))
    PROVE  Booked(Release(item, q), Moved(row, "cancelled", n + q))
<1>1. LET next == Release(item, q)
      IN  /\ next.quantity = item.quantity
          /\ next.reserved = AtLeastZero(item.reserved - q)
          /\ next.reserveLog = item.reserveLog
          /\ next.releaseLog = item.releaseLog + q
          /\ next.commitLog = item.commitLog
          /\ next.manualLog = item.manualLog
  BY DEF Release, InventoryItem
<1>2. n + q \in Nat
  OBVIOUS
<1>3. LET before == Moved(row, "cancelled", n)
          after == Moved(row, "cancelled", n + q)
      IN  /\ after.quantity = before.quantity
          /\ after.reserved = before.reserved - q
          /\ after.reserveLog = before.reserveLog
          /\ after.releaseLog = before.releaseLog + q
          /\ after.commitLog = before.commitLog
          /\ after.manualLog = before.manualLog
          /\ before.reserved \in Int /\ before.releaseLog \in Int
  <2>1. row.reserved \in Nat /\ row.releaseLog \in Nat
    BY DEF InventoryItem
  <2> QED
    BY <1>2, <2>1, MovedFields
<1>4. item.reserved \in Nat /\ item.releaseLog \in Nat
  BY DEF InventoryItem
<1>5. /\ AtLeastZero(item.reserved - q) >= item.reserved - q
      /\ AtLeastZero(item.reserved - q) \in Int
  BY <1>4 DEF AtLeastZero
<1> QED
  BY <1>1, <1>3, <1>4, <1>5 DEF Booked

\* A row that nobody holds has not been walked over.
LEMMA FreeRow ==
    ASSUME StrandedInv, NEW s \in Sessions, AtLine(s),
           itemLock[CurrentLine(s).variant] = NoSession
    PROVE  LET v == CurrentLine(s).variant
           IN  /\ draft[v] = stock[v]
               /\ Cardinality(Walked(s, v)) = 0
<1> DEFINE w == CurrentLine(s).variant
<1>1. w \in Variants /\ InService(s)
  BY CurrentLineType DEF StrandedInv, AtLine
<1>2. draft[w] = stock[w]
  BY <1>1 DEF StrandedInv, LockInv
<1>3. \A i \in Done(s) : Lines(req[s].key)[i].variant # w
  BY <1>1, RequestAssumption DEF StrandedInv, LockInv, KeepsLocks
<1>4. Walked(s, w) = {}
  BY <1>3 DEF Walked, UnitsIn
<1> QED
  BY <1>2, <1>4, FS_EmptySet

\* A line more is as many units of its variant more, and none of another.
LEMMA WalkedNext ==
    ASSUME StrandedInv, NEW s \in Sessions, AtLine(s), NEW v,
           req'[s] = [req[s] EXCEPT !.line = @ + 1]
    PROVE  /\ Cardinality(Walked(s, v)) \in Nat
           /\ Cardinality(Walked(s, v)') =
                  Cardinality(Walked(s, v)) +
                  (IF CurrentLine(s).variant = v
                   THEN CurrentLine(s).quantity ELSE 0)
<1> DEFINE k == req[s].key
           n == req[s].walk[req[s].line]
<1>1. /\ InService(s) /\ k \in Keys /\ n \in 1 .. Len(Lines(k))
      /\ n \notin Done(s) /\ Done(s) \in SUBSET (1 .. Len(Lines(k)))
      /\ Cardinality(Walked(s, v)) \in Nat
  BY RequestFields, CurrentLineType, NotYetDone, WalkedType
     DEF StrandedInv, AtLine
<1>2. req'[s].key = k /\ Done(s)' = Done(s) \union {n}
  BY DoneNext DEF StrandedInv
<1>3. Walked(s, v)' = UnitsIn(req'[s].key, v, Done(s)')
  BY DEF Walked
<1>4. Walked(s, v)' = UnitsIn(k, v, Done(s) \union {n})
  BY <1>2, <1>3
<1>5. Cardinality(UnitsIn(k, v, Done(s) \union {n})) =
          Cardinality(UnitsIn(k, v, Done(s))) +
          (IF Lines(k)[n].variant = v THEN Lines(k)[n].quantity ELSE 0)
  BY <1>1, UnitsNextLine
<1> QED
  BY <1>1, <1>4, <1>5 DEF Walked, CurrentLine

LEMMA LockableBooked ==
    ASSUME StrandedInv, BookedInv, NEW s \in Sessions, AtLine(s),
           CanLock(s, CurrentLine(s).variant)
    PROVE  LET v == CurrentLine(s).variant
           IN  Booked(draft[v], Moved(stock[v], req[s].target,
                                      Cardinality(Walked(s, v))))
<1> DEFINE w == CurrentLine(s).variant
<1>1. w \in Variants /\ stock[w] \in InventoryItem
  BY CurrentLineType DEF StrandedInv, TypeOK
<1>2. CASE itemLock[w] = s
  BY <1>1, <1>2 DEF BookedInv
<1>3. CASE itemLock[w] = NoSession
  BY <1>1, <1>3, FreeRow, BookedByNone
<1> QED
  BY <1>2, <1>3 DEF CanLock

LEMMA BookedWrite ==
    ASSUME StrandedInv, BookedInv, NEW s \in Sessions, AtLine(s),
           NEW item, WriteItem(s, item),
           Booked(item, Moved(stock[CurrentLine(s).variant], req[s].target,
                              Cardinality(Walked(s, CurrentLine(s).variant)) +
                                  CurrentLine(s).quantity))
    PROVE  BookedInv'
<1> DEFINE w == CurrentLine(s).variant
           q == CurrentLine(s).quantity
<1>1. req'[s] = [req[s] EXCEPT !.line = @ + 1]
  BY DEF StrandedInv, TypeOK, WriteItem
<1>2. w \in Variants /\ q \in Nat /\ req'[s].target = req[s].target
  BY <1>1, CurrentLineType, DoneNext DEF StrandedInv
<1>3. /\ itemLock'[w] = s /\ draft'[w] = item /\ stock' = stock
      /\ \A v \in Variants \ {w} :
            itemLock'[v] = itemLock[v] /\ draft'[v] = draft[v]
      /\ \A t \in Sessions \ {s} : req'[t] = req[t]
  BY <1>2 DEF StrandedInv, TypeOK, WriteItem
<1>4. ASSUME NEW v
      PROVE  /\ Cardinality(Walked(s, v)) \in Nat
             /\ Cardinality(Walked(s, v)') =
                    Cardinality(Walked(s, v)) + (IF w = v THEN q ELSE 0)
  BY <1>1, WalkedNext
<1>5. ASSUME NEW v \in Variants, NEW t \in Sessions, itemLock'[v] = t
      PROVE  Booked(draft'[v], Moved(stock'[v], req'[t].target,
                                     Cardinality(Walked(t, v)')))
  <2>1. CASE v = w
    <3>1. t = s /\ draft'[v] = item /\ stock'[v] = stock[w]
      BY <1>3, <1>5, <2>1
    <3>2. Cardinality(Walked(s, v)') = Cardinality(Walked(s, w)) + q
      BY <1>4, <2>1
    <3> QED
      BY <1>2, <3>1, <3>2
  <2>2. CASE v # w /\ t = s
    <3>1. Cardinality(Walked(s, v)') = Cardinality(Walked(s, v))
      BY <1>4, <2>2
    <3> QED
      BY <1>2, <1>3, <1>5, <2>2, <3>1 DEF BookedInv
  <2>3. CASE v # w /\ t # s
    <3>1. req'[t] = req[t] /\ itemLock[v] = t /\ draft'[v] = draft[v]
      BY <1>3, <1>5, <2>3
    <3>2. Walked(t, v)' = Walked(t, v)
      BY <3>1 DEF Walked, Done
    <3> QED
      BY <1>3, <3>1, <3>2 DEF BookedInv
  <2> QED
    BY <2>1, <2>2, <2>3
<1>6. ASSUME NEW v \in Variants, NEW t \in Sessions, itemLock'[v] = t
      PROVE  Booked(draft[v], Moved(stock[v], req[t].target,
                                    Cardinality(Walked(t, v))))'
  BY <1>5, <1>6 DEF Booked, Moved
<1> QED
  BY <1>6 DEF BookedInv

LEMMA BookedLine ==
    ASSUME StrandedInv, BookedInv, NEW s \in Sessions,
           ReserveLine(s) \/ CommitLine(s) \/ ReleaseLine(s)
    PROVE  BookedInv'
<1> DEFINE w == CurrentLine(s).variant
           q == CurrentLine(s).quantity
           n == Cardinality(Walked(s, w))
           row == stock[w]
           item == draft[w]
           target == req[s].target
<1>1. AtLine(s) /\ CanLock(s, w) /\ InService(s)
  BY DEF ReserveLine, CommitLine, ReleaseLine, AtLine
<1>2. /\ w \in Variants /\ q \in Nat /\ n \in Nat
      /\ row \in InventoryItem /\ item \in InventoryItem
  BY <1>1, CurrentLineType, WalkedType DEF StrandedInv, TypeOK
<1>3. Booked(item, Moved(row, target, n))
  BY <1>1, LockableBooked
<1>4. CASE ReserveLine(s)
  <2>1. target = "awaiting_payment" /\ WriteItem(s, Reserve(item, q))
    BY <1>4 DEF ReserveLine
  <2>2. Booked(Reserve(item, q), Moved(row, target, n + q))
    <3> HIDE DEF w, q, n, row, item, target
    <3> QED
      BY <1>2, <1>3, <2>1, BookedReserve
  <2> QED
    BY <1>1, <2>1, <2>2, BookedWrite
<1>5. CASE CommitLine(s)
  <2>1. target = "paid" /\ WriteItem(s, CommitReservation(item, q))
    BY <1>5 DEF CommitLine
  <2>2. Booked(CommitReservation(item, q), Moved(row, target, n + q))
    <3> HIDE DEF w, q, n, row, item, target
    <3> QED
      BY <1>2, <1>3, <2>1, BookedCommit
  <2> QED
    BY <1>1, <2>1, <2>2, BookedWrite
<1>6. CASE ReleaseLine(s)
  <2>1. target = "cancelled" /\ WriteItem(s, Release(item, q))
    BY <1>6 DEF ReleaseLine
  <2>2. Booked(Release(item, q), Moved(row, target, n + q))
    <3> HIDE DEF w, q, n, row, item, target
    <3> QED
      BY <1>2, <1>3, <2>1, BookedRelease
  <2> QED
    BY <1>1, <2>1, <2>2, BookedWrite
<1> QED
  BY <1>4, <1>5, <1>6

\* A step that leaves the rows under lock and their committed versions alone.
LEMMA BookedKept ==
    ASSUME BookedInv,
           \A v \in Variants, s \in Sessions : itemLock'[v] = s =>
              /\ itemLock[v] = s
              /\ draft'[v] = draft[v] /\ stock'[v] = stock[v]
              /\ req'[s] = req[s]
    PROVE  BookedInv'
<1>1. ASSUME NEW v \in Variants, NEW s \in Sessions, itemLock'[v] = s
      PROVE  Booked(draft[v], Moved(stock[v], req[s].target,
                                    Cardinality(Walked(s, v))))'
  <2>1. Walked(s, v)' = Walked(s, v)
    BY <1>1 DEF Walked, Done
  <2>2. Booked(draft[v], Moved(stock[v], req[s].target,
                               Cardinality(Walked(s, v))))
    BY <1>1 DEF BookedInv
  <2> QED
    BY <1>1, <2>1, <2>2 DEF Booked, Moved
<1> QED
  BY <1>1 DEF BookedInv

LEMMA BookedEnd ==
    ASSUME StrandedInv, BookedInv, NEW s \in Sessions, ReleaseLocks(s),
           \A v \in Variants : itemLock[v] # s =>
              draft'[v] = draft[v] /\ stock'[v] = stock[v]
    PROVE  BookedInv'
<1>1. \A v \in Variants, t \in Sessions : itemLock'[v] = t =>
          t # s /\ itemLock[v] = t /\ req'[t] = req[t]
  BY OthersKeepRows
<1> QED
  BY <1>1, BookedKept

LEMMA BookedStep ==
    ASSUME StrandedInv, BookedInv, [Next]_vars
    PROVE  BookedInv'
<1>1. ASSUME NEW s \in Sessions, Begin(s) \/ Confirm(s) \/ LockOrder(s)
      PROVE  BookedInv'
  <2>1. /\ UNCHANGED <<stock, draft, itemLock>>
        /\ \A t \in Sessions \ {s} : req'[t] = req[t]
        /\ ~(InService(s) /\ req[s].phase = "stock")
    BY <1>1
       DEF StrandedInv, TypeOK, Begin, BeginCheckout, BeginPay, BeginMove,
           MayBegin, Confirm, LockOrder
  <2>2. \A v \in Variants : itemLock[v] # s
    BY <2>1 DEF StrandedInv, LockInv
  <2> QED
    BY <2>1, <2>2, BookedKept
<1>2. ASSUME NEW s \in Sessions,
             ReserveLine(s) \/ CommitLine(s) \/ ReleaseLine(s)
      PROVE  BookedInv'
  BY <1>2, BookedLine
<1>3. ASSUME NEW s \in Sessions,
             \/ ConfirmFails(s) \/ ReserveFails(s) \/ KeyTaken(s)
             \/ DeadlockVictim(s)
      PROVE  BookedInv'
  <2>1. Rollback(s)
    BY <1>3 DEF ConfirmFails, ReserveFails, KeyTaken, DeadlockVictim
  <2>2. \A v \in Variants : itemLock[v] # s =>
            draft'[v] = draft[v] /\ stock'[v] = stock[v]
    BY <2>1 DEF Rollback
  <2> QED
    BY <2>1, <2>2, BookedEnd DEF Rollback
<1>4. ASSUME NEW s \in Sessions, PlaceOrder(s) \/ CommitMove(s)
      PROVE  BookedInv'
  <2>1. ReleaseLocks(s) /\ PublishStock(s) /\ draft' = draft
    BY <1>4 DEF PlaceOrder, CommitMove
  <2>2. \A v \in Variants : itemLock[v] # s =>
            draft'[v] = draft[v] /\ stock'[v] = stock[v]
    BY <2>1 DEF PublishStock
  <2> QED
    BY <2>1, <2>2, BookedEnd
<1>5. ASSUME NEW v \in Variants, NEW delta \in Deltas, Adjust(v, delta)
      PROVE  BookedInv'
  <2>1. /\ UNCHANGED <<itemLock, req>> /\ itemLock[v] = NoSession
        /\ \A w \in Variants \ {v} :
              draft'[w] = draft[w] /\ stock'[w] = stock[w]
    BY <1>5 DEF StrandedInv, TypeOK, Adjust
  <2> QED
    BY <2>1, RequestAssumption, BookedKept
<1>6. CASE Restart
  <2>1. \A v \in Variants, s \in Sessions : itemLock'[v] # s
    BY <1>6, RequestAssumption DEF Restart
  <2> QED
    BY <2>1 DEF BookedInv
<1>7. CASE UNCHANGED vars
  BY <1>7, BookedKept DEF vars
<1> QED
  BY <1>1, <1>2, <1>3, <1>4, <1>5, <1>6, <1>7 DEF Next, Proceed

\* What a commit publishes: every row, moved by the units its order needs of it.
\* Rows without such units were not touched.
LEMMA PublishedBooked ==
    ASSUME StrandedInv, BookedInv, NEW s \in Sessions, AtEnd(s),
           PublishStock(s), NEW v \in Variants
    PROVE  Booked(stock'[v],
                  Moved(stock[v], req[s].target, Need(req[s].key, v)))
<1> DEFINE k == req[s].key
<1>1. InService(s) /\ k \in Keys /\ KeepsLocks(s) /\ stock[v] \in InventoryItem
  BY RequestFields DEF StrandedInv, LockInv, AtEnd, TypeOK
<1>2. CASE ~MovesStock(s)
  <2>1. stock' = stock
    BY <1>2, PublishesNothing
  <2>2. Moved(stock[v], req[s].target, Need(k, v)) = stock[v]
    BY <1>2 DEF MovesStock, Moved
  <2> QED
    BY <1>1, <2>1, <2>2 DEF Booked, InventoryItem
<1>3. MovesStock(s) => /\ Done(s) = 1 .. Len(Lines(k))
                       /\ Cardinality(Walked(s, v)) = Need(k, v)
  <2>1. MovesStock(s) => Done(s) = 1 .. Len(Lines(k))
    BY <1>1, DoneAll DEF StrandedInv, KeepsLocks
  <2> QED
    BY <2>1 DEF Walked, Need, Units
<1>4. CASE MovesStock(s) /\ itemLock[v] = s
  <2>1. Booked(draft[v], Moved(stock[v], req[s].target, Need(k, v)))
    BY <1>3, <1>4 DEF BookedInv
  <2>2. stock'[v] = draft[v]
    BY <1>4 DEF PublishStock
  <2> QED
    BY <2>1, <2>2
<1>5. CASE MovesStock(s) /\ itemLock[v] # s
  <2>1. \A i \in 1 .. Len(Lines(k)) : Lines(k)[i].variant # v
    BY <1>1, <1>3, <1>5 DEF KeepsLocks
  <2>2. Need(k, v) = 0
    BY <1>1, <2>1, NoLineNoUnits, FS_EmptySet DEF Need
  <2>3. stock'[v] = stock[v]
    BY <1>5 DEF PublishStock
  <2> QED
    BY <1>1, <2>2, <2>3, BookedByNone
<1> QED
  BY <1>2, <1>4, <1>5

\* n for a request whose target is among the statuses, else nothing.
Part(target, statuses, n) == IF target \in statuses THEN n ELSE 0

\* The numbers of a row that is booked as moved by n units.
LEMMA BookedNumbers ==
    ASSUME NEW row \in InventoryItem, NEW new \in InventoryItem,
           NEW n \in Nat, NEW target, Booked(new, Moved(row, target, n))
    PROVE  /\ new.quantity >= row.quantity - Part(target, {"paid"}, n)
           /\ new.reserved >=
                  row.reserved + Part(target, {"awaiting_payment"}, n) -
                      Part(target, {"paid", "cancelled"}, n)
           /\ new.reserveLog =
                  row.reserveLog + Part(target, {"awaiting_payment"}, n)
           /\ new.releaseLog = row.releaseLog + Part(target, {"cancelled"}, n)
           /\ new.commitLog = row.commitLog + Part(target, {"paid"}, n)
           /\ new.manualLog = row.manualLog
<1>1. /\ row.quantity \in Nat /\ row.reserved \in Nat
      /\ row.reserveLog \in Nat /\ row.releaseLog \in Nat
      /\ row.commitLog \in Nat
  BY DEF InventoryItem
<1>2. CASE target = "awaiting_payment"
  BY <1>1, <1>2, MovedFields DEF Booked, Part
<1>3. CASE target = "paid"
  BY <1>1, <1>3, MovedFields DEF Booked, Part
<1>4. CASE target = "cancelled"
  BY <1>1, <1>4, MovedFields DEF Booked, Part
<1>5. CASE target \notin {"awaiting_payment", "paid", "cancelled"}
  <2>1. Moved(row, target, n) = row
    BY <1>5 DEF Moved
  <2> QED
    BY <1>1, <1>5, <2>1 DEF Booked, Part
<1> QED
  BY <1>2, <1>3, <1>4, <1>5

\* What a commit does to the numbers of a row.
LEMMA PublishedNumbers ==
    ASSUME StrandedInv, BookedInv, NEW s \in Sessions,
           PlaceOrder(s) \/ CommitMove(s), NEW v \in Variants
    PROVE  /\ InService(s) /\ req[s].phase = "stock" /\ req[s].key \in Keys
           /\ Need(req[s].key, v) \in Nat
           /\ stock[v] \in InventoryItem /\ stock'[v] \in InventoryItem
           /\ Booked(stock'[v],
                     Moved(stock[v], req[s].target, Need(req[s].key, v)))
<1>1. /\ AtEnd(s) /\ PublishStock(s) /\ InService(s) /\ req[s].key \in Keys
      /\ req[s].phase = "stock"
  BY RequestFields DEF StrandedInv, PlaceOrder, CommitMove, AtEnd
<1>2. Need(req[s].key, v) \in Nat
  <2>1. {} \in SUBSET Keys
    OBVIOUS
  <2> QED
    BY <1>1, <2>1, UnitsOfJoin
<1>3. stock[v] \in InventoryItem /\ stock'[v] \in InventoryItem
  BY <1>1 DEF StrandedInv, TypeOK, PublishStock
<1> QED
  BY <1>1, <1>2, <1>3, PublishedBooked

\* A request that has seen its order settled saw it so before the step, or
\* begins in it.
LEMMA SawSettled ==
    ASSUME TypeOK, [Next]_vars, NEW s \in Sessions, InService(s)',
           req'[s].snap \in Settled
    PROVE  \/ req'[s].key \in SettledOrders
           \/ /\ InService(s) /\ req[s].snap \in Settled
              /\ req'[s].key = req[s].key
<1>1. CASE ~Begin(s)
  BY <1>1, OngoingRequest
<1>2. ASSUME NEW k \in Keys, NEW target, NEW phase,
             req' = [req EXCEPT ![s] = NewRequest(phase, k, target)]
      PROVE  req'[s].key \in SettledOrders
  <2>1. req'[s] = NewRequest(phase, k, target)
    BY <1>2 DEF TypeOK
  <2>2. req'[s].key = k /\ req'[s].snap = orderStatus[k]
    BY <2>1 DEF NewRequest
  <2> QED
    BY <2>2 DEF SettledOrders
<1>3. CASE Begin(s)
  BY <1>2, <1>3 DEF Begin, BeginCheckout, BeginPay, BeginMove
<1> QED
  BY <1>1, <1>3

\* What is settled is booked as committed: the step of one of the orders.
LEMMA SettledBookedStep ==
    ASSUME StrandedInv, BookedInv, SettledBooked, [Next]_vars
    PROVE  SettledBooked'
<1>1. PICK B \in SUBSET Keys :
          /\ SettledOrders \subseteq B
          /\ \A s \in Sessions :
                InService(s) /\ req[s].snap \in Settled => req[s].key \in B
          /\ \A v \in Variants :
                stock[v].commitLog >= Cardinality(UnitsOf(B, v))
  BY DEF SettledBooked
<1>2. ASSUME NEW C \in SUBSET Keys, B \subseteq C, SettledOrders' \subseteq C,
             \A v \in Variants :
                 stock'[v].commitLog >= Cardinality(UnitsOf(C, v))
      PROVE  SettledBooked'
  <2>1. ASSUME NEW s \in Sessions, InService(s)', req'[s].snap \in Settled
        PROVE  req'[s].key \in C
    BY <1>1, <1>2, <2>1, SawSettled DEF StrandedInv
  <2> QED
    BY <1>2, <2>1 DEF SettledBooked
<1>3. CASE UNCHANGED <<orderStatus, stock>>
  <2>1. SettledOrders' = SettledOrders
    BY <1>3 DEF SettledOrders
  <2> QED
    BY <1>1, <1>2, <1>3, <2>1
<1>4. ASSUME NEW w \in Variants, NEW delta \in Deltas, Adjust(w, delta)
      PROVE  SettledBooked'
  <2>1. SettledOrders' = SettledOrders
    BY <1>4 DEF SettledOrders, Adjust
  <2>2. \A v \in Variants : stock'[v].commitLog = stock[v].commitLog
    BY <1>4 DEF StrandedInv, TypeOK, Adjust, Adjusted, InventoryItem
  <2> QED
    BY <1>1, <1>2, <2>1, <2>2
<1>5. ASSUME NEW s \in Sessions, PlaceOrder(s) \/ CommitMove(s),
             NEW v \in Variants
      PROVE  /\ Need(req[s].key, v) \in Nat
             /\ stock[v].commitLog \in Nat
             /\ stock'[v].commitLog = stock[v].commitLog +
                    Part(req[s].target, {"paid"}, Need(req[s].key, v))
  <2>1. /\ Need(req[s].key, v) \in Nat
        /\ stock[v] \in InventoryItem /\ stock'[v] \in InventoryItem
        /\ Booked(stock'[v],
                  Moved(stock[v], req[s].target, Need(req[s].key, v)))
    BY <1>5, PublishedNumbers
  <2>2. stock'[v].commitLog = stock[v].commitLog +
            Part(req[s].target, {"paid"}, Need(req[s].key, v))
    BY <2>1, BookedNumbers
  <2> QED
    BY <2>1, <2>2 DEF InventoryItem
<1>6. ASSUME NEW s \in Sessions, PlaceOrder(s)
      PROVE  SettledBooked'
  <2>1. SettledOrders' \subseteq SettledOrders
    BY <1>6 DEF PlaceOrder, StrandedInv, TypeOK, SettledOrders, Settled
  <2>2. req[s].target = "awaiting_payment"
    BY <1>6 DEF PlaceOrder
  <2>3. \A v \in Variants : stock'[v].commitLog = stock[v].commitLog
    BY <1>5, <1>6, <2>2 DEF Part
  <2> QED
    BY <1>1, <1>2, <2>1, <2>3
<1>7. ASSUME NEW s \in Sessions, CommitMove(s)
      PROVE  SettledBooked'
  <2> DEFINE k == req[s].key
             target == req[s].target
  <2>1. /\ InService(s) /\ req[s].phase = "stock" /\ k \in Keys
        /\ target # "awaiting_payment" /\ KnowsOrder(s)
    BY <1>7, RequestFields DEF CommitMove, AtEnd, StrandedInv, SnapshotInv
  <2>2. SettledOrders' \subseteq SettledOrders \union {k}
    BY <1>7, <2>1 DEF CommitMove, StrandedInv, TypeOK, SettledOrders
  <2>3. CASE target = "paid"
    <3> DEFINE C == B \union {k}
    <3>1. C \in SUBSET Keys /\ B \subseteq C /\ SettledOrders' \subseteq C
      BY <1>1, <2>1, <2>2
    <3>2. ASSUME NEW v \in Variants
          PROVE  stock'[v].commitLog >= Cardinality(UnitsOf(C, v))
      <4>1. /\ stock'[v].commitLog = stock[v].commitLog + Need(k, v)
            /\ Need(k, v) \in Nat /\ stock[v].commitLog \in Nat
        BY <1>5, <1>7, <2>3 DEF Part
      <4>2. /\ Cardinality(UnitsOf(C, v)) <=
                   Cardinality(UnitsOf(B, v)) + Need(k, v)
            /\ Cardinality(UnitsOf(C, v)) \in Nat
            /\ Cardinality(UnitsOf(B, v)) \in Nat
        BY <2>1, <3>1, UnitsOfJoin, UnitsOfFinite
      <4>3. stock[v].commitLog >= Cardinality(UnitsOf(B, v))
        BY <1>1
      <4> QED
        BY <4>1, <4>2, <4>3
    <3> HIDE DEF C
    <3> QED
      BY <1>2, <3>1, <3>2
  <2>4. CASE target # "paid"
    <3>1. \A v \in Variants : stock'[v].commitLog = stock[v].commitLog
      BY <1>5, <1>7, <2>4 DEF Part
    <3>2. target \in Settled => req[s].snap \in Settled
      BY <2>1, <2>4
         DEF KnowsOrder, CanMove, ALLOWED_TRANSITIONS, Settled
    <3>3. target \in Settled => k \in B
      BY <1>1, <2>1, <3>2
    <3>4. target \notin Settled => SettledOrders' \subseteq SettledOrders
      BY <1>7, <2>1 DEF CommitMove, StrandedInv, TypeOK, SettledOrders
    <3>5. SettledOrders' \subseteq B
      BY <1>1, <2>2, <3>3, <3>4
    <3> QED
      BY <1>1, <1>2, <3>1, <3>5
  <2> QED
    BY <2>3, <2>4
<1> QED
  BY <1>3, <1>4, <1>6, <1>7, StockWriters

\* One row of which every move is booked.
RowBooked(v) ==
    LET item == stock[v]
    IN  /\ item.reserveLog = Cardinality(UnitsOf(Placed, v))
        /\ item.releaseLog >= Cardinality(UnitsOf(Cancelled, v))
        /\ item.quantity >=
               InitialStock[v] + item.manualLog - item.commitLog
        /\ item.reserved >=
               item.reserveLog - item.releaseLog - item.commitLog

\* The units of orders placed and cancelled are numbers.
LEMMA PlacedType ==
    ASSUME NEW v
    PROVE  /\ Placed \in SUBSET Keys /\ Cancelled \in SUBSET Keys
           /\ Cardinality(UnitsOf(Placed, v)) \in Nat
           /\ Cardinality(UnitsOf(Cancelled, v)) \in Nat
<1>1. Placed \in SUBSET Keys /\ Cancelled \in SUBSET Keys
  BY DEF Placed, Cancelled
<1> QED
  BY <1>1, UnitsOfFinite

\* What a commit adds to the orders placed and cancelled.
LEMMA PlacedByCommit ==
    ASSUME StrandedInv, NEW s \in Sessions, PlaceOrder(s) \/ CommitMove(s)
    PROVE  LET k == req[s].key
               target == req[s].target
           IN  /\ target = "awaiting_payment" =>
                     Placed' = Placed \union {k} /\ k \in Keys \ Placed
               /\ target # "awaiting_payment" => Placed' = Placed
               /\ target = "cancelled" =>
                     Cancelled' \subseteq Cancelled \union {k}
               /\ target # "cancelled" => Cancelled' \subseteq Cancelled
<1> DEFINE k == req[s].key
           target == req[s].target
<1>1. /\ InService(s) /\ k \in Keys /\ target \in OrderStatuses
      /\ orderStatus' = [orderStatus EXCEPT ![k] = target]
      /\ target = "awaiting_payment" => orderStatus[k] = NoOrder
      /\ target # "awaiting_payment" => orderStatus[k] # NoOrder
  BY RequestFields
     DEF PlaceOrder, CommitMove, AtEnd, StrandedInv, SnapshotInv, KnowsOrder
<1>2. \A j \in Keys : orderStatus'[j] = IF j = k THEN target ELSE orderStatus[j]
  BY <1>1 DEF StrandedInv, TypeOK
<1>3. target # NoOrder
  BY <1>1 DEF OrderStatuses, NoOrder
<1>4. /\ target = "awaiting_payment" =>
            Placed' = Placed \union {k} /\ k \in Keys \ Placed
      /\ target # "awaiting_payment" => Placed' = Placed
  BY <1>1, <1>2, <1>3 DEF Placed
<1>5. /\ target = "cancelled" => Cancelled' \subseteq Cancelled \union {k}
      /\ target # "cancelled" => Cancelled' \subseteq Cancelled
  BY <1>1, <1>2 DEF Cancelled
<1> QED
  BY <1>4, <1>5

\* The numbers after a commit, from those before.
LEMMA BookedSums ==
    ASSUME NEW row \in InventoryItem, NEW new \in InventoryItem,
           NEW n \in Nat, NEW target, NEW initial \in Nat,
           Booked(new, Moved(row, target, n)),
           row.quantity >= initial + row.manualLog - row.commitLog,
           row.reserved >= row.reserveLog - row.releaseLog - row.commitLog
    PROVE  /\ new.quantity >= initial + new.manualLog - new.commitLog
           /\ new.reserved >= new.reserveLog - new.releaseLog - new.commitLog
<1>1. /\ row.quantity \in Nat /\ row.reserved \in Nat
      /\ row.reserveLog \in Nat /\ row.releaseLog \in Nat
      /\ row.commitLog \in Nat /\ row.manualLog \in Int
      /\ new.quantity \in Nat /\ new.reserved \in Nat
  BY DEF InventoryItem
<1>2. /\ Part(target, {"paid"}, n) \in Nat
      /\ Part(target, {"cancelled"}, n) \in Nat
      /\ Part(target, {"awaiting_payment"}, n) \in Nat
      /\ Part(target, {"paid", "cancelled"}, n) =
             Part(target, {"paid"}, n) + Part(target, {"cancelled"}, n)
  BY DEF Part
<1>3. /\ new.quantity >= row.quantity - Part(target, {"paid"}, n)
      /\ new.reserved >=
             row.reserved + Part(target, {"awaiting_payment"}, n) -
                 Part(target, {"paid", "cancelled"}, n)
      /\ new.reserveLog =
             row.reserveLog + Part(target, {"awaiting_payment"}, n)
      /\ new.releaseLog = row.releaseLog + Part(target, {"cancelled"}, n)
      /\ new.commitLog = row.commitLog + Part(target, {"paid"}, n)
      /\ new.manualLog = row.manualLog
  BY BookedNumbers
<1> QED
  BY <1>1, <1>2, <1>3

LEMMA RowBookedByCommit ==
    ASSUME StrandedInv, BookedInv, NEW s \in Sessions,
           PlaceOrder(s) \/ CommitMove(s), NEW v \in Variants, RowBooked(v)
    PROVE  RowBooked(v)'
<1> DEFINE k == req[s].key
           target == req[s].target
           need == Need(k, v)
           row == stock[v]
           new == stock'[v]
<1>1. /\ k \in Keys /\ need \in Nat
      /\ row \in InventoryItem /\ new \in InventoryItem
      /\ Booked(new, Moved(row, target, need))
  BY PublishedNumbers
<1>2. /\ new.reserveLog =
             row.reserveLog + Part(target, {"awaiting_payment"}, need)
      /\ new.releaseLog = row.releaseLog + Part(target, {"cancelled"}, need)
      /\ row.reserveLog \in Nat /\ row.releaseLog \in Nat
  <2> HIDE DEF k, target, need, row, new
  <2> QED
    BY <1>1, BookedNumbers DEF InventoryItem
<1>3. /\ new.quantity >= InitialStock[v] + new.manualLog - new.commitLog
      /\ new.reserved >= new.reserveLog - new.releaseLog - new.commitLog
  <2>1. /\ row.quantity >= InitialStock[v] + row.manualLog - row.commitLog
        /\ row.reserved >= row.reserveLog - row.releaseLog - row.commitLog
        /\ InitialStock[v] \in Nat
    BY RequestAssumption DEF RowBooked
  <2> HIDE DEF k, target, need, row, new
  <2> QED
    BY <1>1, <2>1, BookedSums
<1>4. new.reserveLog = Cardinality(UnitsOf(Placed', v))
  <2>1. row.reserveLog = Cardinality(UnitsOf(Placed, v))
    BY DEF RowBooked
  <2>2. CASE target = "awaiting_payment"
    <3>1. Cardinality(UnitsOf(Placed \union {k}, v)) =
              Cardinality(UnitsOf(Placed, v)) + need
      BY <2>2, PlacedType, PlacedByCommit, UnitsOfMore
    <3>2. Placed' = Placed \union {k}
      BY <2>2, PlacedByCommit
    <3> QED
      BY <1>2, <2>1, <2>2, <3>1, <3>2 DEF Part
  <2>3. CASE target # "awaiting_payment"
    <3>1. Placed' = Placed
      BY <2>3, PlacedByCommit
    <3> QED
      BY <1>2, <2>1, <2>3, <3>1 DEF Part
  <2> QED
    BY <2>2, <2>3
<1>5. new.releaseLog >= Cardinality(UnitsOf(Cancelled', v))
  <2>1. row.releaseLog >= Cardinality(UnitsOf(Cancelled, v))
    BY DEF RowBooked
  <2>2. /\ Cancelled \in SUBSET Keys /\ Cancelled' \in SUBSET Keys
        /\ Cardinality(UnitsOf(Cancelled, v)) \in Nat
        /\ Cardinality(UnitsOf(Cancelled', v)) \in Nat
    <3>1. Cancelled \in SUBSET Keys /\ Cancelled' \in SUBSET Keys
      BY DEF Cancelled
    <3> QED
      BY <3>1, UnitsOfFinite
  <2>3. CASE target = "cancelled"
    <3> DEFINE C == Cancelled \union {k}
    <3>1. Cancelled' \subseteq C /\ C \in SUBSET Keys
      BY <1>1, <2>2, <2>3, PlacedByCommit
    <3>2. /\ Cardinality(UnitsOf(Cancelled', v)) <= Cardinality(UnitsOf(C, v))
          /\ Cardinality(UnitsOf(C, v)) \in Nat
      <4> HIDE DEF C
      <4> QED
        BY <3>1, UnitsOfMonotone, UnitsOfFinite
    <3>3. Cardinality(UnitsOf(C, v)) <=
              Cardinality(UnitsOf(Cancelled, v)) + need
      BY <1>1, <2>2, UnitsOfJoin
    <3>4. new.releaseLog = row.releaseLog + need
      BY <1>2, <2>3 DEF Part
    <3> HIDE DEF C, need, row, new
    <3> QED
      BY <1>1, <1>2, <2>1, <2>2, <3>2, <3>3, <3>4
  <2>4. CASE target # "cancelled"
    <3>1. Cardinality(UnitsOf(Cancelled', v)) <=
              Cardinality(UnitsOf(Cancelled, v))
      BY <2>2, <2>4, PlacedByCommit, UnitsOfMonotone
    <3>2. new.releaseLog = row.releaseLog
      BY <1>2, <2>4 DEF Part
    <3> HIDE DEF row, new
    <3> QED
      BY <1>2, <2>1, <2>2, <3>1, <3>2
  <2> QED
    BY <2>3, <2>4
<1> QED
  BY <1>3, <1>4, <1>5 DEF RowBooked

LEMMA RowBookedByAdjust ==
    ASSUME TypeOK, NEW w \in Variants, NEW delta \in Deltas, Adjust(w, delta),
           NEW v \in Variants, RowBooked(v)
    PROVE  RowBooked(v)'
<1>1. Placed' = Placed /\ Cancelled' = Cancelled
  BY DEF Adjust, Placed, Cancelled
<1>2. CASE v # w
  BY <1>1, <1>2 DEF Adjust, TypeOK, RowBooked
<1>3. CASE v = w
  <2> DEFINE item == stock[v]
             new == stock'[v]
  <2>1. /\ delta \in Int /\ InitialStock[v] \in Nat
        /\ item \in InventoryItem
        /\ item.reserved <= item.quantity + delta
        /\ new = Adjusted(item, delta)
    BY <1>3, RequestAssumption DEF Adjust, TypeOK
  <2>2. /\ new.quantity = item.quantity + delta
        /\ new.reserved = item.reserved
        /\ new.reserveLog = item.reserveLog
        /\ new.releaseLog = item.releaseLog
        /\ new.commitLog = item.commitLog
        /\ new.manualLog = item.manualLog + delta
    BY <2>1, AdjustedItem DEF Adjusted, InventoryItem
  <2>3. /\ item.quantity \in Nat /\ item.commitLog \in Nat
        /\ item.manualLog \in Int
    BY <2>1 DEF InventoryItem
  <2>4. /\ item.reserveLog = Cardinality(UnitsOf(Placed, v))
        /\ item.releaseLog >= Cardinality(UnitsOf(Cancelled, v))
        /\ item.quantity >=
               InitialStock[v] + item.manualLog - item.commitLog
        /\ item.reserved >=
               item.reserveLog - item.releaseLog - item.commitLog
    BY DEF RowBooked
  <2>5. new.quantity >= InitialStock[v] + new.manualLog - new.commitLog
    <3> HIDE DEF item, new
    <3> QED
      BY <2>1, <2>2, <2>3, <2>4
  <2>6. /\ new.reserveLog = Cardinality(UnitsOf(Placed', v))
        /\ new.releaseLog >= Cardinality(UnitsOf(Cancelled', v))
        /\ new.reserved >= new.reserveLog - new.releaseLog - new.commitLog
    <3> HIDE DEF item, new
    <3> QED
      BY <1>1, <2>2, <2>4
  <2> QED
    BY <2>5, <2>6 DEF RowBooked
<1> QED
  BY <1>2, <1>3

\* What is sold is booked as committed, by SettledBooked.
LEMMA SoldIsBooked ==
    ASSUME SettledBooked, TypeOK, NEW v \in Variants
    PROVE  stock[v].commitLog >= Cardinality(SoldUnits(v))
<1>1. PICK B \in SUBSET Keys :
          /\ SettledOrders \subseteq B
          /\ stock[v].commitLog >= Cardinality(UnitsOf(B, v))
  BY DEF SettledBooked
<1>2. /\ Cardinality(UnitsOf(SettledOrders, v)) <= Cardinality(UnitsOf(B, v))
      /\ Cardinality(UnitsOf(B, v)) \in Nat
      /\ Cardinality(UnitsOf(SettledOrders, v)) \in Nat
  <2>1. SettledOrders \in SUBSET Keys
    BY DEF SettledOrders
  <2> QED
    BY <1>1, <2>1, UnitsOfMonotone, UnitsOfFinite
<1>3. stock[v].commitLog \in Nat
  BY DEF TypeOK, InventoryItem
<1> QED
  BY <1>1, <1>2, <1>3 DEF SoldUnits

LEMMA OverlapStep ==
    ASSUME OverlapInv, [Next]_vars
    PROVE  OverlapInv'
<1>1. StrandedInv' /\ HeldByWalk' /\ BookedInv' /\ SettledBooked'
  BY StrandedStep, HeldStep, BookedStep, SettledBookedStep
     DEF OverlapInv, StrandedInv
<1>2. ASSUME NEW v \in Variants
      PROVE  RowBooked(v)'
  <2>1. RowBooked(v)
    BY DEF OverlapInv, EveryMoveIsBooked, RowBooked
  <2>2. CASE UNCHANGED <<orderStatus, stock>>
    BY <2>1, <2>2 DEF RowBooked, Placed, Cancelled
  <2> QED
    BY <2>1, <2>2, StockWriters, RowBookedByCommit, RowBookedByAdjust
       DEF OverlapInv, StrandedInv
<1>3. ASSUME NEW v \in Variants
      PROVE  (stock[v].commitLog >= Cardinality(SoldUnits(v)))'
  BY <1>1, SoldIsBooked, PTL DEF StrandedInv
<1>4. EveryMoveIsBooked'
  BY <1>2, <1>3 DEF EveryMoveIsBooked, RowBooked
<1> QED
  BY <1>1, <1>4 DEF OverlapInv

LEMMA OverlapInit == Init => OverlapInv
<1> SUFFICES ASSUME Init PROVE OverlapInv
  OBVIOUS
<1>1. HeldByWalk /\ BookedInv
  BY RequestAssumption DEF Init, HeldByWalk, BookedInv
<1>2. Placed = {} /\ Cancelled = {} /\ SettledOrders = {}
  BY DEF Init, Placed, Cancelled, SettledOrders, Settled, NoOrder
<1>3. \A v : Cardinality(UnitsOf({}, v)) = 0
  BY FS_EmptySet DEF UnitsOf
<1>4. ASSUME NEW v \in Variants
      PROVE  /\ InitialStock[v] \in Nat /\ stock[v].quantity = InitialStock[v]
             /\ stock[v].reserved = 0 /\ stock[v].reserveLog = 0
             /\ stock[v].releaseLog = 0 /\ stock[v].commitLog = 0
             /\ stock[v].manualLog = 0
  BY RequestAssumption DEF Init, NewItem
<1>5. EveryMoveIsBooked
  <2>1. \A v : /\ Cardinality(UnitsOf(Placed, v)) = 0
               /\ Cardinality(UnitsOf(Cancelled, v)) = 0
               /\ Cardinality(SoldUnits(v)) = 0
    BY <1>2, <1>3 DEF SoldUnits
  <2> QED
    BY <1>4, <2>1 DEF EveryMoveIsBooked
<1>6. SettledBooked
  <2>1. \A s \in Sessions : ~InService(s)
    BY DEF Init, InService
  <2>2. {} \in SUBSET Keys
    OBVIOUS
  <2>3. \A v \in Variants : stock[v].commitLog >= Cardinality(UnitsOf({}, v))
    BY <1>3, <1>4
  <2> QED
    BY <1>2, <2>1, <2>2, <2>3 DEF SettledBooked
<1> QED
  BY <1>1, <1>5, <1>6, StrandedInit DEF OverlapInv

\* Whatever overlaps, rows are locked by those who wrote them, and what a
\* request wrote is booked: the inductive invariant of the theorems below.
THEOREM OverlapInvHolds == Spec => []OverlapInv
<1>1. OverlapInv /\ [Next]_vars => OverlapInv'
  BY OverlapStep
<1> QED
  BY <1>1, OverlapInit, PTL DEF Spec

\* The ledger misses nothing, whatever overlaps: every reservation, release,
\* commit and correction of a unit has its movement.
THEOREM LedgerMissesNothing == Spec => []EveryMoveIsBooked
<1>1. OverlapInv => EveryMoveIsBooked
  BY DEF OverlapInv
<1> QED
  BY <1>1, OverlapInvHolds, PTL

-----------------------------------------------------------------------------
(* Deadlocks.                                                              *)

\* Some numbers up to a bound have a greatest one.
LEMMA GreatestOf ==
    ASSUME NEW N \in Nat, NEW S \in SUBSET (1 .. N), S # {}
    PROVE  \E m \in S : \A n \in S : n <= m
<1> DEFINE R == {ss \in Nat \X Nat : ss[1] < ss[2]}
           T == {N - n : n \in S}
<1>1. IsWellFoundedOn(R, Nat)
  BY NatLessThanWellFounded DEF OpToRel
<1>2. T \subseteq Nat /\ T # {}
  <2>1. \A n \in S : N - n \in Nat
    OBVIOUS
  <2> QED
    BY <2>1
<1>3. PICK x \in T : \A y \in T : <<y, x>> \notin R
  <2> HIDE DEF R, T
  <2> QED
    BY <1>1, <1>2, WFMin
<1>4. \A y \in T : ~(y < x)
  BY <1>2, <1>3
<1>5. PICK m \in S : x = N - m
  BY <1>3
<1>6. ASSUME NEW n \in S PROVE n <= m
  <2>1. ~(N - n < x) /\ n \in Nat /\ m \in Nat
    BY <1>4, <1>6
  <2> QED
    BY <1>5, <2>1
<1> QED
  BY <1>6

\* Whoever blocks another one is at its lines: there it holds rows...
LEMMA BlockerHolds ==
    ASSUME OverlapInv, NEW s \in Sessions, NEW t \in Blockers(s)
    PROVE  /\ t \in Sessions /\ t # s
           /\ InService(t) /\ req[t].phase = "stock"
<1>1. t \in Sessions /\ t # s
  BY DEF Blockers
<1>2. CASE InService(s) /\ req[s].phase = "update" /\ orderLock[req[s].key] = t
  <2>1. req[s].key \in Keys
    BY <1>2, RequestFields DEF OverlapInv, StrandedInv
  <2> QED
    BY <1>1, <1>2, <2>1 DEF OverlapInv, HeldByWalk
<1>3. CASE AtLine(s) /\ itemLock[CurrentLine(s).variant] = t
  <2>1. CurrentLine(s).variant \in Variants
    BY <1>3, CurrentLineType DEF OverlapInv, StrandedInv
  <2> QED
    BY <1>1, <1>3, <2>1 DEF OverlapInv, StrandedInv, LockInv
<1> QED
  BY <1>1, <1>2, <1>3 DEF Blockers

\* ... and if it waits, it waits for a row of an inventory item.
LEMMA WaitsForItem ==
    ASSUME NEW s \in Sessions, InService(s), req[s].phase = "stock",
           NEW t \in Blockers(s)
    PROVE  AtLine(s) /\ itemLock[CurrentLine(s).variant] = t /\ t # s
BY DEF Blockers

\* A request that holds the row another one waits for, and waits itself, waits
\* for a row of higher rank than that, unless it waits for one below.
LEMMA WaitsHigher ==
    ASSUME OverlapInv, NEW rank \in Injection(Variants, Nat),
           NEW s \in Sessions, AtLine(s),
           NEW t \in Sessions, itemLock[CurrentLine(s).variant] = t,
           AtLine(t), itemLock[CurrentLine(t).variant] # t,
           ~WaitsBelow(t, rank)
    PROVE  rank[CurrentLine(s).variant] < rank[CurrentLine(t).variant]
<1> DEFINE v == CurrentLine(s).variant
           w == CurrentLine(t).variant
<1>1. v \in Variants /\ w \in Variants
  BY CurrentLineType DEF OverlapInv, StrandedInv
<1>2. /\ rank[v] \in Nat /\ rank[w] \in Nat
      /\ rank[v] = rank[w] => v = w
  BY <1>1 DEF Injection, IsInjective
<1>3. \E n \in Done(t) : Lines(req[t].key)[n].variant = v
  BY <1>1 DEF OverlapInv, HeldByWalk
<1>4. PICK i \in 1 .. (req[t].line - 1) :
          Lines(req[t].key)[req[t].walk[i]].variant = v
  BY <1>3 DEF Done
<1>5. ~(rank[v] > rank[w])
  BY <1>4 DEF WaitsBelow
<1>6. v # w
  OBVIOUS
<1> HIDE DEF v, w
<1>7. rank[v] < rank[w]
  BY <1>2, <1>5, <1>6
<1> QED
  BY <1>7 DEF v, w

LEMMA DeadlockCrosses ==
    ASSUME OverlapInv, IsFiniteSet(Variants)
    PROVE  DeadlockNeedsCrossing
<1> DEFINE N == Cardinality(Variants)
<1>1. N \in Nat
  BY FS_CardinalityType
<1> SUFFICES ASSUME NEW s \in Sessions, Deadlocked(s),
                    NEW rank \in Injection(Variants, 1 .. N),
                    \A t \in Sessions : Deadlocked(t) => ~WaitsBelow(t, rank)
             PROVE  FALSE
  BY DEF DeadlockNeedsCrossing
<1>2. PICK cycle \in SUBSET Sessions :
          /\ s \in cycle
          /\ \A t \in cycle : Blockers(t) # {}
          /\ UNION {Blockers(t) : t \in cycle} = cycle
  BY DEF Deadlocked
<1>3. \A t \in cycle : t \in Sessions /\ Deadlocked(t)
  BY <1>2 DEF Deadlocked
<1> DEFINE Wanted(t) == rank[CurrentLine(t).variant]
<1>4. ASSUME NEW t \in cycle
      PROVE  \E u \in cycle : /\ AtLine(t) /\ u # t
                              /\ itemLock[CurrentLine(t).variant] = u
  <2>1. PICK r \in cycle : t \in Blockers(r)
    BY <1>2
  <2>2. InService(t) /\ req[t].phase = "stock"
    BY <1>3, <2>1, BlockerHolds
  <2>3. PICK u \in Blockers(t) : TRUE
    BY <1>2
  <2>4. u \in cycle
    BY <1>2, <2>3
  <2> QED
    BY <1>3, <2>2, <2>3, <2>4, WaitsForItem
<1>5. rank \in Injection(Variants, Nat) /\ rank \in [Variants -> 1 .. N]
  BY <1>1 DEF Injection
<1>6. ASSUME NEW t \in cycle
      PROVE  \E u \in cycle : Wanted(t) < Wanted(u)
  <2>1. PICK u \in cycle : /\ AtLine(t)
                           /\ itemLock[CurrentLine(t).variant] = u
    BY <1>4
  <2>2. AtLine(u) /\ itemLock[CurrentLine(u).variant] # u
    BY <1>4
  <2> QED
    BY <1>3, <1>5, <2>1, <2>2, WaitsHigher
<1>7. \A t \in cycle : Wanted(t) \in 1 .. N
  <2>1. \A t \in cycle : CurrentLine(t).variant \in Variants
    BY <1>3, <1>4, CurrentLineType DEF OverlapInv, StrandedInv
  <2> QED
    BY <1>5, <2>1
<1>8. \E m \in {Wanted(t) : t \in cycle} :
          \A n \in {Wanted(t) : t \in cycle} : n <= m
  <2> DEFINE S == {Wanted(t) : t \in cycle}
  <2>1. S \in SUBSET (1 .. N) /\ S # {}
    BY <1>2, <1>7
  <2> HIDE DEF S, N
  <2>2. \E m \in S : \A n \in S : n <= m
    BY <1>1, <2>1, GreatestOf
  <2> QED
    BY <2>2 DEF S
<1>9. PICK t \in cycle : \A u \in cycle : Wanted(u) <= Wanted(t)
  BY <1>8
<1>10. PICK u \in cycle : Wanted(t) < Wanted(u)
  BY <1>6, <1>9
<1>11. Wanted(u) <= Wanted(t) /\ Wanted(t) \in Nat /\ Wanted(u) \in Nat
  BY <1>1, <1>7, <1>9, <1>10
<1> HIDE DEF Wanted
<1> QED
  BY <1>10, <1>11

\* Requests deadlock over the order of their lines only: were the lines walked
\* in one order of the variants, there would be no deadlock.
THEOREM DeadlocksCross ==
    ASSUME IsFiniteSet(Variants)
    PROVE  Spec => []DeadlockNeedsCrossing
<1>1. OverlapInv => DeadlockNeedsCrossing
  BY DeadlockCrosses
<1> QED
  BY <1>1, OverlapInvHolds, PTL

=============================================================================
