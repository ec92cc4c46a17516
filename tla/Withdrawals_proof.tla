------------------------- MODULE Withdrawals_proof -------------------------
(***************************************************************************)
(* The ledger keeps its promise, for every value of its constants: the     *)
(* atomic one of StoreLedger, and the one of a shop that deletes products  *)
(* under the orders, where what a deletion does to an order cannot be      *)
(* undone.                                                                 *)
(***************************************************************************)
EXTENDS Withdrawals, Baskets_proof

-----------------------------------------------------------------------------
(* The atomic ledger.                                                      *)

LedgerInv == LedgerTypeOK /\ ShelfBalanced

\* The basket of an attempt takes a natural number of units.
LEMMA NeedType ==
    ASSUME NEW k \in Keys, NEW v
    PROVE  Need(k, v) \in Nat
<1>1. {} \in SUBSET Keys /\ k \in Keys \ {}
  OBVIOUS
<1> QED
  BY <1>1, UnitsOfMore

\* What becomes of the unpaid orders' units when one order joins or leaves.
LEMMA UnpaidMoves ==
    ASSUME LedgerTypeOK, NEW k \in Keys, NEW target,
           orderStatus' = [orderStatus EXCEPT ![k] = target], NEW v
    PROVE  LET units == Cardinality(UnitsOf(Unpaid, v))
               unitsNow == Cardinality(UnitsOf(Unpaid, v)')
           IN  /\ units \in Nat /\ unitsNow \in Nat
               /\ orderStatus[k] # "awaiting_payment" /\ target = "awaiting_payment"
                      => unitsNow = units + Need(k, v)
               /\ orderStatus[k] = "awaiting_payment" /\ target # "awaiting_payment"
                      => units = unitsNow + Need(k, v)
               /\ orderStatus[k] # "awaiting_payment" /\ target # "awaiting_payment"
                      => unitsNow = units
<1>1. Unpaid \in SUBSET Keys /\ Unpaid' \in SUBSET Keys
  BY DEF Unpaid
<1>2. UnitsOf(Unpaid, v)' = UnitsOf(Unpaid', v)
  OBVIOUS
<1>3. /\ Cardinality(UnitsOf(Unpaid, v)) \in Nat
      /\ Cardinality(UnitsOf(Unpaid', v)) \in Nat
  BY <1>1, UnitsOfFinite
<1>4. ASSUME orderStatus[k] # "awaiting_payment", target = "awaiting_payment"
      PROVE  k \in Keys \ Unpaid /\ Unpaid' = Unpaid \union {k}
  BY <1>4 DEF LedgerTypeOK, Unpaid
<1>5. ASSUME orderStatus[k] = "awaiting_payment", target # "awaiting_payment"
      PROVE  k \in Keys \ Unpaid' /\ Unpaid = Unpaid' \union {k}
  BY <1>5 DEF LedgerTypeOK, Unpaid
<1>6. ASSUME orderStatus[k] # "awaiting_payment", target # "awaiting_payment"
      PROVE  Unpaid' = Unpaid
  BY <1>6 DEF LedgerTypeOK, Unpaid
<1>7. orderStatus[k] # "awaiting_payment" /\ target = "awaiting_payment" =>
          Cardinality(UnitsOf(Unpaid', v)) =
              Cardinality(UnitsOf(Unpaid, v)) + Need(k, v)
  BY <1>1, <1>4, UnitsOfMore
<1>8. orderStatus[k] = "awaiting_payment" /\ target # "awaiting_payment" =>
          Cardinality(UnitsOf(Unpaid, v)) =
              Cardinality(UnitsOf(Unpaid', v)) + Need(k, v)
  BY <1>1, <1>5, UnitsOfMore
<1> QED
  BY <1>2, <1>3, <1>6, <1>7, <1>8

\* The fields of a shelf.
LEMMA ShelfFields ==
    ASSUME LedgerInv, NEW v \in Variants
    PROVE  /\ shelf[v] \in [quantity : Nat, reserved : Nat]
           /\ shelf[v].quantity \in Nat /\ shelf[v].reserved \in Nat
           /\ shelf[v].reserved = Cardinality(UnitsOf(Unpaid, v))
           /\ shelf[v].reserved <= shelf[v].quantity
BY DEF LedgerInv, LedgerTypeOK, ShelfBalanced

\* What remains to be said of the shelves after a step.
LEMMA Balance ==
    ASSUME cartStatus' \in [Carts -> {"active", "converted"}],
           orderStatus' \in [Keys -> OrderStatuses \union {NoOrder}],
           shelf' \in [Variants -> [quantity : Nat, reserved : Nat]],
           \A v \in Variants :
              /\ shelf'[v].reserved = Cardinality(UnitsOf(Unpaid, v)')
              /\ shelf'[v].reserved <= shelf'[v].quantity
    PROVE  LedgerInv'
BY DEF LedgerInv, LedgerTypeOK, ShelfBalanced

LEMMA BalanceStep ==
    ASSUME LedgerInv, [LedgerNext]_ledgerVars
    PROVE  LedgerInv'
<1> USE DEF OrderStatuses
<1>1. ASSUME NEW k \in Keys, Place(k)
      PROVE  LedgerInv'
  <2>1. ASSUME NEW v \in Variants
        PROVE  /\ shelf'[v] = [shelf[v] EXCEPT !.reserved = @ + Need(k, v)]
               /\ shelf[v].reserved + Need(k, v) \in Nat
               /\ shelf'[v] \in [quantity : Nat, reserved : Nat]
               /\ shelf'[v].quantity = shelf[v].quantity
               /\ shelf'[v].reserved = shelf[v].reserved + Need(k, v)
    <3>1. shelf'[v] = [shelf[v] EXCEPT !.reserved = @ + Need(k, v)]
      BY <1>1 DEF Place
    <3>2. shelf[v].reserved + Need(k, v) \in Nat
      BY ShelfFields, NeedType
    <3> QED
      BY <3>1, <3>2, ShelfFields
  <2>2. ASSUME NEW v \in Variants
        PROVE  shelf'[v].reserved = Cardinality(UnitsOf(Unpaid, v)')
    <3>1. orderStatus[k] # "awaiting_payment"
      BY <1>1 DEF Place, NoOrder
    <3>2. Cardinality(UnitsOf(Unpaid, v)') =
              Cardinality(UnitsOf(Unpaid, v)) + Need(k, v)
      BY <1>1, <3>1, UnpaidMoves DEF Place, LedgerInv
    <3> QED
      BY <2>1, <3>2, ShelfFields
  <2>3. ASSUME NEW v \in Variants
        PROVE  shelf'[v].reserved <= shelf'[v].quantity
    <3>1. Need(k, v) \in Nat
      BY NeedType
    <3>2. Need(k, v) > 0 => shelf[v].reserved + Need(k, v) <= shelf[v].quantity
      BY <1>1 DEF Place
    <3>3. /\ shelf[v].reserved \in Nat /\ shelf[v].quantity \in Nat
          /\ shelf[v].reserved <= shelf[v].quantity
      BY ShelfFields
    <3>4. shelf[v].reserved + Need(k, v) <= shelf[v].quantity
      BY <3>1, <3>2, <3>3
    <3> QED
      BY <2>1, <3>4
  <2>4. shelf' \in [Variants -> [quantity : Nat, reserved : Nat]]
    BY <1>1, <2>1 DEF Place
  <2>5. /\ orderStatus' \in [Keys -> OrderStatuses \union {NoOrder}]
        /\ cartStatus' \in [Carts -> {"active", "converted"}]
    BY <1>1 DEF Place, LedgerInv, LedgerTypeOK
  <2> QED
    BY <2>2, <2>3, <2>4, <2>5, Balance
<1>2. ASSUME NEW k \in Keys, Pay(k)
      PROVE  LedgerInv'
  <2>1. ASSUME NEW v \in Variants
        PROVE  /\ Cardinality(UnitsOf(Unpaid, v)') \in Nat
               /\ Need(k, v) \in Nat
               /\ shelf[v].reserved =
                      Cardinality(UnitsOf(Unpaid, v)') + Need(k, v)
    <3>1. /\ orderStatus[k] = "awaiting_payment"
          /\ \E target \in OrderStatuses \ {"awaiting_payment"} :
                orderStatus' = [orderStatus EXCEPT ![k] = target]
          /\ LedgerTypeOK
      BY <1>2 DEF Pay, LedgerInv
    <3>2. /\ Cardinality(UnitsOf(Unpaid, v)') \in Nat
          /\ Cardinality(UnitsOf(Unpaid, v)) =
                 Cardinality(UnitsOf(Unpaid, v)') + Need(k, v)
      BY <3>1, UnpaidMoves
    <3> QED
      BY <3>2, NeedType, ShelfFields
  <2>2. ASSUME NEW v \in Variants
        PROVE  /\ shelf'[v].quantity = shelf[v].quantity - Need(k, v)
               /\ shelf'[v].reserved = shelf[v].reserved - Need(k, v)
    BY <1>2 DEF Pay
  <2>3. ASSUME NEW v \in Variants
        PROVE  /\ shelf'[v].reserved = Cardinality(UnitsOf(Unpaid, v)')
               /\ shelf'[v].reserved <= shelf'[v].quantity
               /\ shelf[v].quantity - Need(k, v) \in Nat
               /\ shelf[v].reserved - Need(k, v) \in Nat
    BY <2>1, <2>2, ShelfFields
  <2>4. shelf' \in [Variants -> [quantity : Nat, reserved : Nat]]
    BY <1>2, <2>3 DEF Pay
  <2>5. /\ orderStatus' \in [Keys -> OrderStatuses \union {NoOrder}]
        /\ cartStatus' \in [Carts -> {"active", "converted"}]
    BY <1>2 DEF Pay, LedgerInv, LedgerTypeOK
  <2> QED
    BY <2>3, <2>4, <2>5, Balance
<1>3. ASSUME NEW k \in Keys, Cancel(k)
      PROVE  LedgerInv'
  <2>1. ASSUME NEW v \in Variants
        PROVE  /\ Cardinality(UnitsOf(Unpaid, v)') \in Nat
               /\ Need(k, v) \in Nat
               /\ shelf[v].reserved =
                      Cardinality(UnitsOf(Unpaid, v)') + Need(k, v)
    <3>1. /\ orderStatus[k] = "awaiting_payment"
          /\ \E target \in OrderStatuses \ {"awaiting_payment"} :
                orderStatus' = [orderStatus EXCEPT ![k] = target]
          /\ LedgerTypeOK
      BY <1>3 DEF Cancel, LedgerInv
    <3>2. /\ Cardinality(UnitsOf(Unpaid, v)') \in Nat
          /\ Cardinality(UnitsOf(Unpaid, v)) =
                 Cardinality(UnitsOf(Unpaid, v)') + Need(k, v)
      BY <3>1, UnpaidMoves
    <3> QED
      BY <3>2, NeedType, ShelfFields
  <2>2. ASSUME NEW v \in Variants
        PROVE  /\ shelf'[v] \in [quantity : Nat, reserved : Nat]
               /\ shelf'[v].quantity = shelf[v].quantity
               /\ shelf'[v].reserved = shelf[v].reserved - Need(k, v)
    <3>1. shelf'[v] = [shelf[v] EXCEPT !.reserved = @ - Need(k, v)]
      BY <1>3 DEF Cancel
    <3>2. shelf[v].reserved - Need(k, v) \in Nat
      BY <2>1
    <3> QED
      BY <3>1, <3>2, ShelfFields
  <2>3. ASSUME NEW v \in Variants
        PROVE  /\ shelf'[v].reserved = Cardinality(UnitsOf(Unpaid, v)')
               /\ shelf'[v].reserved <= shelf'[v].quantity
    BY <2>1, <2>2, ShelfFields
  <2>4. shelf' \in [Variants -> [quantity : Nat, reserved : Nat]]
    BY <1>3, <2>2 DEF Cancel
  <2>5. /\ orderStatus' \in [Keys -> OrderStatuses \union {NoOrder}]
        /\ cartStatus' \in [Carts -> {"active", "converted"}]
    BY <1>3 DEF Cancel, LedgerInv, LedgerTypeOK
  <2> QED
    BY <2>3, <2>4, <2>5, Balance
<1>4. ASSUME NEW k \in Keys, NEW target \in OrderStatuses, MoveOn(k, target)
      PROVE  LedgerInv'
  <2>1. orderStatus[k] # "awaiting_payment" /\ target # "awaiting_payment"
    BY <1>4 DEF MoveOn, Settled, CanMove, ALLOWED_TRANSITIONS
  <2>2. shelf' = shelf /\ cartStatus' = cartStatus
        /\ orderStatus' = [orderStatus EXCEPT ![k] = target]
    BY <1>4 DEF MoveOn
  <2>3. ASSUME NEW v \in Variants
        PROVE  /\ shelf'[v].reserved = Cardinality(UnitsOf(Unpaid, v)')
               /\ shelf'[v].reserved <= shelf'[v].quantity
    BY <2>1, <2>2, UnpaidMoves, ShelfFields DEF LedgerInv
  <2>4. /\ orderStatus' \in [Keys -> OrderStatuses \union {NoOrder}]
        /\ cartStatus' \in [Carts -> {"active", "converted"}]
        /\ shelf' \in [Variants -> [quantity : Nat, reserved : Nat]]
    BY <2>2 DEF LedgerInv, LedgerTypeOK
  <2> QED
    BY <2>3, <2>4, Balance
<1>5. ASSUME NEW v \in Variants, NEW delta \in Deltas, Correct(v, delta)
      PROVE  LedgerInv'
  <2>1. /\ delta \in Int /\ shelf[v].quantity + delta \in Nat
        /\ shelf[v].reserved <= shelf[v].quantity + delta
    BY <1>5, LedgerAssumption, ShelfFields DEF Correct
  <2>2. shelf' = [shelf EXCEPT ![v] =
                     [shelf[v] EXCEPT !.quantity = shelf[v].quantity + delta]]
    BY <1>5 DEF Correct
  <2>3. LET new == [shelf[v] EXCEPT !.quantity = shelf[v].quantity + delta]
        IN  /\ new \in [quantity : Nat, reserved : Nat]
            /\ new.reserved = shelf[v].reserved
            /\ new.quantity = shelf[v].quantity + delta
    BY <2>1, ShelfFields
  <2>4. shelf' \in [Variants -> [quantity : Nat, reserved : Nat]]
    BY <2>2, <2>3 DEF LedgerInv, LedgerTypeOK
  <2>5. Unpaid' = Unpaid
    BY <1>5 DEF Correct, Unpaid
  <2>6. ASSUME NEW w \in Variants
        PROVE  /\ shelf'[w].reserved = shelf[w].reserved
               /\ shelf'[w].reserved <= shelf'[w].quantity
    BY <2>1, <2>2, <2>3, ShelfFields DEF LedgerInv, LedgerTypeOK
  <2>7. ASSUME NEW w \in Variants
        PROVE  /\ shelf'[w].reserved = Cardinality(UnitsOf(Unpaid, w)')
               /\ shelf'[w].reserved <= shelf'[w].quantity
    BY <2>5, <2>6, ShelfFields
  <2>8. /\ orderStatus' \in [Keys -> OrderStatuses \union {NoOrder}]
        /\ cartStatus' \in [Carts -> {"active", "converted"}]
    BY <1>5 DEF Correct, LedgerInv, LedgerTypeOK
  <2> QED
    BY <2>4, <2>7, <2>8, Balance
<1>6. CASE UNCHANGED ledgerVars
  BY <1>6 DEF ledgerVars, LedgerInv, LedgerTypeOK, ShelfBalanced, Unpaid
<1> QED
  BY <1>1, <1>2, <1>3, <1>4, <1>5, <1>6 DEF LedgerNext

\* The ledger keeps its promise: reserved is the stock of the unpaid orders,
\* to the unit, and it is there.
THEOREM LedgerBalanced == LedgerSpec => []ShelfBalanced
<1>1. LedgerInit => LedgerInv
  <2> SUFFICES ASSUME LedgerInit PROVE LedgerInv
    OBVIOUS
  <2>1. LedgerTypeOK
    BY LedgerAssumption DEF LedgerInit, LedgerTypeOK
  <2>2. Unpaid = {}
    BY DEF LedgerInit, Unpaid, NoOrder
  <2>3. \A v : Cardinality(UnitsOf(Unpaid, v)) = 0
    BY <2>2, FS_EmptySet DEF UnitsOf
  <2>4. \A v \in Variants : /\ shelf[v].reserved = 0
                            /\ shelf[v].quantity = InitialStock[v]
                            /\ InitialStock[v] \in Nat
    BY LedgerAssumption DEF LedgerInit
  <2> QED
    BY <2>1, <2>3, <2>4 DEF LedgerInv, ShelfBalanced
<1>2. LedgerInv /\ [LedgerNext]_ledgerVars => LedgerInv'
  BY BalanceStep
<1>3. LedgerInv => ShelfBalanced
  BY DEF LedgerInv
<1> QED
  BY <1>1, <1>2, <1>3, PTL DEF LedgerSpec

-----------------------------------------------------------------------------
(* With deletions.                                                         *)

\* Money is taken for orders that exist.
ChargedExists == \A k \in charged : orderStatus[k] # NoOrder

\* The half of MoneyForGoods that is inductive; the other follows from
\* ListedBalanced.
SettledCharged == \A k \in Keys : orderStatus[k] \in Settled => k \in charged

WithdrawalsInv == TypeOK /\ ListedBalanced /\ SettledCharged /\ ChargedExists

-----------------------------------------------------------------------------
(* The units of the orders that hold a variant.                            *)

LEMMA HoldersFinite ==
    ASSUME NEW v
    PROVE  /\ Holders(v) \in SUBSET Keys
           /\ Cardinality(UnitsOf(Holders(v), v)) \in Nat
<1>1. Holders(v) \in SUBSET Keys
  BY DEF Holders, Unpaid
<1> QED
  BY <1>1, UnitsOfFinite

\* An order that is placed joins the holders of what it has bought.
LEMMA HolderJoins ==
    ASSUME TypeOK, NEW k \in Keys, NEW bought, NEW v,
           orderStatus[k] # "awaiting_payment",
           orderStatus' = [orderStatus EXCEPT ![k] = "awaiting_payment"],
           ordered' = [ordered EXCEPT ![k] = bought]
    PROVE  /\ v \in bought => Cardinality(UnitsOf(Holders(v), v)') =
                                  Cardinality(UnitsOf(Holders(v), v)) + Need(k, v)
           /\ v \notin bought => UnitsOf(Holders(v), v)' = UnitsOf(Holders(v), v)
<1>1. UnitsOf(Holders(v), v)' = UnitsOf(Holders(v)', v)
  OBVIOUS
<1>2. k \in Keys \ Holders(v)
  BY DEF Holders, Unpaid
<1>3. /\ v \in bought => Holders(v)' = Holders(v) \union {k}
      /\ v \notin bought => Holders(v)' = Holders(v)
  BY DEF TypeOK, LedgerTypeOK, Holders, Unpaid
<1>4. Cardinality(UnitsOf(Holders(v) \union {k}, v)) =
          Cardinality(UnitsOf(Holders(v), v)) + Need(k, v)
  BY <1>2, HoldersFinite, UnitsOfMore
<1> QED
  BY <1>1, <1>3, <1>4

\* An order that is paid or cancelled leaves them.
LEMMA HolderLeaves ==
    ASSUME TypeOK, NEW k \in Keys, NEW target, NEW v,
           orderStatus[k] = "awaiting_payment", target # "awaiting_payment",
           orderStatus' = [orderStatus EXCEPT ![k] = target],
           ordered' = ordered
    PROVE  /\ Cardinality(UnitsOf(Holders(v), v)') \in Nat
           /\ Held(k, v) \in Nat
           /\ Cardinality(UnitsOf(Holders(v), v)) =
                  Cardinality(UnitsOf(Holders(v), v)') + Held(k, v)
<1>1. UnitsOf(Holders(v), v)' = UnitsOf(Holders(v)', v)
  OBVIOUS
<1>2. Holders(v)' \in SUBSET Keys /\ k \in Keys \ Holders(v)'
  BY DEF TypeOK, LedgerTypeOK, Holders, Unpaid
<1>3. /\ v \in ordered[k] => Holders(v) = Holders(v)' \union {k}
      /\ v \notin ordered[k] => Holders(v) = Holders(v)'
  BY DEF TypeOK, LedgerTypeOK, Holders, Unpaid
<1>4. /\ Cardinality(UnitsOf(Holders(v)', v)) \in Nat
      /\ Need(k, v) \in Nat
      /\ Cardinality(UnitsOf(Holders(v)' \union {k}, v)) =
             Cardinality(UnitsOf(Holders(v)', v)) + Need(k, v)
  BY <1>2, UnitsOfFinite, UnitsOfMore
<1>5. CASE v \in ordered[k]
  <2>1. Held(k, v) = Need(k, v)
    BY <1>5 DEF Held
  <2> QED
    BY <1>1, <1>3, <1>4, <1>5, <2>1
<1>6. CASE v \notin ordered[k]
  <2>1. Held(k, v) = 0
    BY <1>6 DEF Held
  <2> QED
    BY <1>1, <1>3, <1>4, <1>6, <2>1
<1> QED
  BY <1>5, <1>6

\* The fields of a stock row.
LEMMA RowFields ==
    ASSUME TypeOK, NEW v \in Variants
    PROVE  /\ shelf[v] \in [quantity : Nat, reserved : Nat]
           /\ shelf[v].quantity \in Nat /\ shelf[v].reserved \in Nat
           /\ shelf[v] = [quantity |-> shelf[v].quantity, reserved |-> shelf[v].reserved]
<1>1. shelf[v] \in [quantity : Nat, reserved : Nat]
  BY DEF TypeOK, LedgerTypeOK
<1> QED
  BY <1>1

LEMMA ListedRow ==
    ASSUME TypeOK, ListedBalanced, NEW v \in listed
    PROVE  /\ v \in Variants
           /\ shelf[v].quantity \in Nat /\ shelf[v].reserved \in Nat
           /\ shelf[v].reserved = Cardinality(UnitsOf(Holders(v), v))
           /\ shelf[v].reserved <= shelf[v].quantity
<1>1. v \in Variants
  BY DEF TypeOK
<1> QED
  BY <1>1, RowFields DEF ListedBalanced

-----------------------------------------------------------------------------
(* The steps of the orders.                                                *)

LEMMA PlaceKeeps ==
    ASSUME WithdrawalsInv, NEW k \in Keys, PlaceListed(k)
    PROVE  WithdrawalsInv'
<1> USE DEF WithdrawalsInv
<1>1. /\ orderStatus' = [orderStatus EXCEPT ![k] = "awaiting_payment"]
      /\ ordered' = [ordered EXCEPT ![k] = Basket(k)]
      /\ orderStatus[k] = NoOrder
      /\ listed' = listed /\ charged' = charged
  BY DEF PlaceListed
<1>2. Basket(k) \in SUBSET Variants /\ Basket(k) \subseteq listed
  BY DEF Basket, TypeOK
<1>3. ASSUME NEW v \in Variants
      PROVE  /\ v \in Basket(k) =>
                    shelf'[v] = [quantity |-> shelf[v].quantity,
                                 reserved |-> shelf[v].reserved + Need(k, v)]
             /\ v \notin Basket(k) => shelf'[v] = shelf[v]
  <2>1. v \in Basket(k) => shelf'[v] = [shelf[v] EXCEPT !.reserved = @ + Need(k, v)]
    BY DEF PlaceListed
  <2>2. v \notin Basket(k) => shelf'[v] = shelf[v]
    BY DEF PlaceListed
  <2> QED
    BY <2>1, <2>2, RowFields
<1>4. TypeOK'
  <2>1. shelf' \in [Variants -> [quantity : Nat, reserved : Nat]]
    <3>1. ASSUME NEW v \in Variants
          PROVE  shelf'[v] \in [quantity : Nat, reserved : Nat]
      <4>1. /\ shelf[v] \in [quantity : Nat, reserved : Nat]
            /\ shelf[v].quantity \in Nat /\ shelf[v].reserved \in Nat
        BY RowFields
      <4>2. Need(k, v) \in Nat
        BY NeedType
      <4>3. shelf[v].reserved + Need(k, v) \in Nat
        BY <4>1, <4>2
      <4>4. \/ shelf'[v] = shelf[v]
            \/ shelf'[v] = [quantity |-> shelf[v].quantity,
                            reserved |-> shelf[v].reserved + Need(k, v)]
        BY <1>3
      <4> HIDE DEF WithdrawalsInv
      <4> QED
        BY <4>1, <4>3, <4>4
    <3> QED
      BY <3>1 DEF PlaceListed
  <2>2. /\ orderStatus' \in [Keys -> OrderStatuses \union {NoOrder}]
        /\ cartStatus' \in [Carts -> {"active", "converted"}]
    BY DEF PlaceListed, TypeOK, LedgerTypeOK, OrderStatuses
  <2>3. ordered' \in [Keys -> SUBSET Variants]
    BY <1>1, <1>2 DEF TypeOK
  <2> QED
    BY <1>1, <2>1, <2>2, <2>3 DEF TypeOK, LedgerTypeOK
<1>5. ListedBalanced'
  <2>1. ASSUME NEW v \in listed, v \in Basket(k)
        PROVE  /\ shelf'[v].reserved = Cardinality(UnitsOf(Holders(v), v)')
               /\ shelf'[v].reserved <= shelf'[v].quantity
    <3>1. Cardinality(UnitsOf(Holders(v), v)') =
              Cardinality(UnitsOf(Holders(v), v)) + Need(k, v)
      BY <1>1, <2>1, HolderJoins DEF NoOrder
    <3>2. shelf[v].reserved + Need(k, v) <= shelf[v].quantity
      BY <2>1 DEF PlaceListed
    <3>3. /\ v \in Variants /\ shelf[v].quantity \in Nat
          /\ shelf[v].reserved = Cardinality(UnitsOf(Holders(v), v))
      BY ListedRow
    <3>4. shelf'[v] = [quantity |-> shelf[v].quantity,
                       reserved |-> shelf[v].reserved + Need(k, v)]
      BY <1>3, <2>1, <3>3
    <3> QED
      BY <3>1, <3>2, <3>3, <3>4
  <2>2. ASSUME NEW v \in listed, v \notin Basket(k)
        PROVE  /\ shelf'[v].reserved = Cardinality(UnitsOf(Holders(v), v)')
               /\ shelf'[v].reserved <= shelf'[v].quantity
    <3>1. UnitsOf(Holders(v), v)' = UnitsOf(Holders(v), v)
      BY <1>1, <2>2, HolderJoins DEF NoOrder
    <3> QED
      BY <1>3, <2>2, <3>1, ListedRow
  <2> QED
    BY <1>1, <2>1, <2>2 DEF ListedBalanced
<1>6. SettledCharged' /\ ChargedExists'
  <2>1. k \notin charged
    BY <1>1 DEF ChargedExists
  <2>2. ASSUME NEW j \in Keys, j # k
        PROVE  orderStatus'[j] = orderStatus[j] /\ ordered'[j] = ordered[j]
    BY <1>1, <2>2 DEF TypeOK, LedgerTypeOK
  <2>3. orderStatus'[k] = "awaiting_payment"
    BY <1>1 DEF TypeOK, LedgerTypeOK
  <2> QED
    BY <1>1, <2>1, <2>2, <2>3
    DEF SettledCharged, ChargedExists, Settled, NoOrder, TypeOK
<1> QED
  BY <1>4, <1>5, <1>6

\* Paying and cancelling an order whose variants all exist.
LEMMA SettleKeeps ==
    ASSUME WithdrawalsInv, NEW k \in Keys, PayListed(k) \/ CancelListed(k)
    PROVE  WithdrawalsInv'
<1> USE DEF WithdrawalsInv
<1>1. /\ orderStatus[k] = "awaiting_payment"
      /\ listed' = listed /\ ordered' = ordered /\ cartStatus' = cartStatus
      /\ ordered[k] \subseteq listed
  BY DEF PayListed, CancelListed, Deliverable
<1>2. PICK target \in {"paid", "cancelled"} :
          /\ orderStatus' = [orderStatus EXCEPT ![k] = target]
          /\ charged' = charged
          /\ target = "paid" => k \in charged
  BY DEF PayListed, CancelListed
<1>3. ASSUME NEW v \in Variants
      PROVE  /\ \/ shelf'[v] = [quantity |-> shelf[v].quantity - Held(k, v),
                                reserved |-> shelf[v].reserved - Held(k, v)]
                \/ shelf'[v] = [quantity |-> shelf[v].quantity,
                                reserved |-> shelf[v].reserved - Held(k, v)]
  <2>1. CASE PayListed(k)
    BY <2>1 DEF PayListed
  <2>2. CASE CancelListed(k)
    <3>1. shelf'[v] = [shelf[v] EXCEPT !.reserved = @ - Held(k, v)]
      BY <2>2 DEF CancelListed
    <3> QED
      BY <3>1, RowFields
  <2> QED
    BY <2>1, <2>2
<1>4. ASSUME NEW v \in Variants
      PROVE  /\ Held(k, v) \in Nat
             /\ Cardinality(UnitsOf(Holders(v), v)') \in Nat
             /\ Cardinality(UnitsOf(Holders(v), v)) =
                    Cardinality(UnitsOf(Holders(v), v)') + Held(k, v)
  BY <1>1, <1>2, HolderLeaves
<1>5. ASSUME NEW v \in listed
      PROVE  /\ shelf'[v] \in [quantity : Nat, reserved : Nat]
             /\ shelf'[v].reserved = Cardinality(UnitsOf(Holders(v), v)')
             /\ shelf'[v].reserved <= shelf'[v].quantity
  <2>1. /\ v \in Variants
        /\ shelf[v].quantity \in Nat /\ shelf[v].reserved \in Nat
        /\ shelf[v].reserved = Cardinality(UnitsOf(Holders(v), v))
        /\ shelf[v].reserved <= shelf[v].quantity
    BY ListedRow
  <2>2. /\ Held(k, v) \in Nat
        /\ Cardinality(UnitsOf(Holders(v), v)') \in Nat
        /\ shelf[v].reserved = Cardinality(UnitsOf(Holders(v), v)') + Held(k, v)
    BY <1>4, <2>1
  <2>3. \/ shelf'[v] = [quantity |-> shelf[v].quantity - Held(k, v),
                        reserved |-> shelf[v].reserved - Held(k, v)]
        \/ shelf'[v] = [quantity |-> shelf[v].quantity,
                        reserved |-> shelf[v].reserved - Held(k, v)]
    BY <1>3, <2>1
  <2>4. /\ shelf[v].reserved - Held(k, v) = Cardinality(UnitsOf(Holders(v), v)')
        /\ shelf[v].reserved - Held(k, v) <= shelf[v].quantity - Held(k, v)
        /\ shelf[v].reserved - Held(k, v) <= shelf[v].quantity
        /\ shelf[v].reserved - Held(k, v) \in Nat
        /\ shelf[v].quantity - Held(k, v) \in Nat
    BY <2>1, <2>2
  <2> HIDE DEF WithdrawalsInv
  <2> QED
    BY <2>1, <2>3, <2>4
<1>6. TypeOK'
  <2>1. ASSUME NEW v \in Variants
        PROVE  shelf'[v] \in [quantity : Nat, reserved : Nat]
    <3>1. CASE v \in listed
      BY <1>5, <3>1
    <3>2. CASE v \notin listed
      <4>1. Held(k, v) = 0
        BY <1>1, <3>2 DEF Held
      <4>2. /\ shelf[v] \in [quantity : Nat, reserved : Nat]
            /\ shelf[v].quantity \in Nat /\ shelf[v].reserved \in Nat
        BY RowFields
      <4>3. /\ shelf[v].quantity - Held(k, v) = shelf[v].quantity
            /\ shelf[v].reserved - Held(k, v) = shelf[v].reserved
        BY <4>1, <4>2
      <4>4. shelf'[v] = [quantity |-> shelf[v].quantity,
                         reserved |-> shelf[v].reserved]
        BY <1>3, <4>3
      <4> HIDE DEF WithdrawalsInv
      <4> QED
        BY <4>2, <4>4
    <3> QED
      BY <3>1, <3>2
  <2>2. shelf' \in [Variants -> [quantity : Nat, reserved : Nat]]
    BY <2>1 DEF PayListed, CancelListed
  <2>3. orderStatus' \in [Keys -> OrderStatuses \union {NoOrder}]
    BY <1>2 DEF TypeOK, LedgerTypeOK, OrderStatuses
  <2>4. charged' \subseteq Keys
    BY <1>2 DEF TypeOK
  <2> QED
    BY <1>1, <2>2, <2>3, <2>4 DEF TypeOK, LedgerTypeOK
<1>7. ListedBalanced'
  BY <1>1, <1>5 DEF ListedBalanced
<1>8. SettledCharged' /\ ChargedExists'
  BY <1>2 DEF SettledCharged, ChargedExists, Settled, NoOrder, TypeOK, LedgerTypeOK
<1> QED
  BY <1>6, <1>7, <1>8

\* Money taken, for whatever order.
LEMMA ChargeKeeps ==
    ASSUME WithdrawalsInv, NEW k \in Keys, Charge(k)
    PROVE  WithdrawalsInv'
<1> USE DEF WithdrawalsInv
<1>1. /\ orderStatus' = orderStatus /\ cartStatus' = cartStatus
      /\ shelf' = shelf /\ listed' = listed /\ ordered' = ordered
      /\ charged' = charged \union {k}
      /\ orderStatus[k] # NoOrder
  BY DEF Charge
<1>2. TypeOK' /\ ListedBalanced'
  BY <1>1 DEF TypeOK, LedgerTypeOK, ListedBalanced, Holders, Unpaid
<1>3. SettledCharged' /\ ChargedExists'
  BY <1>1 DEF SettledCharged, ChargedExists
<1> QED
  BY <1>2, <1>3

\* Fulfilment, completion and refund.
LEMMA MoveKeeps ==
    ASSUME WithdrawalsInv, NEW k \in Keys, NEW target \in OrderStatuses,
           MoveOn(k, target), UNCHANGED <<listed, ordered, charged>>
    PROVE  WithdrawalsInv'
<1> USE DEF WithdrawalsInv
<1>1. /\ orderStatus[k] \in Settled /\ target \in Settled
      /\ orderStatus' = [orderStatus EXCEPT ![k] = target]
      /\ cartStatus' = cartStatus /\ shelf' = shelf
  BY DEF MoveOn, CanMove, ALLOWED_TRANSITIONS, Settled
<1>2. /\ orderStatus[k] # "awaiting_payment"
      /\ target \notin {"awaiting_payment", NoOrder}
  BY <1>1 DEF Settled, NoOrder
<1>3. ASSUME NEW j \in Keys
      PROVE  /\ j # k => orderStatus'[j] = orderStatus[j]
             /\ orderStatus'[k] = target
  BY <1>1 DEF TypeOK, LedgerTypeOK
<1>4. Unpaid' = Unpaid
  BY <1>2, <1>3 DEF Unpaid
<1>5. TypeOK' /\ ListedBalanced'
  BY <1>1, <1>4 DEF TypeOK, LedgerTypeOK, ListedBalanced, Holders
<1>6. SettledCharged' /\ ChargedExists'
  BY <1>1, <1>2, <1>3 DEF SettledCharged, ChargedExists, TypeOK
<1> QED
  BY <1>5, <1>6

-----------------------------------------------------------------------------
(* The steps of the administrator.                                         *)

LEMMA CorrectKeeps ==
    ASSUME WithdrawalsInv, NEW v \in listed, NEW delta \in Deltas,
           Correct(v, delta), UNCHANGED <<listed, ordered, charged>>
    PROVE  WithdrawalsInv'
<1> USE DEF WithdrawalsInv
<1>1. /\ orderStatus' = orderStatus /\ cartStatus' = cartStatus
      /\ shelf' = [shelf EXCEPT ![v] =
                      [shelf[v] EXCEPT !.quantity = shelf[v].quantity + delta]]
      /\ shelf[v].reserved <= shelf[v].quantity + delta
      /\ delta \in Int
  BY LedgerAssumption DEF Correct
<1>2. [shelf[v] EXCEPT !.quantity = shelf[v].quantity + delta] =
          [quantity |-> shelf[v].quantity + delta, reserved |-> shelf[v].reserved]
  <2>1. v \in Variants
    BY ListedRow
  <2>2. shelf[v] \in [quantity : Nat, reserved : Nat]
    BY <2>1, RowFields
  <2> QED
    BY <2>2
<1>3. shelf[v].quantity + delta \in Nat
  BY <1>1, ListedRow
<1>4. /\ shelf' \in [Variants -> [quantity : Nat, reserved : Nat]]
      /\ shelf'[v] = [quantity |-> shelf[v].quantity + delta,
                      reserved |-> shelf[v].reserved]
      /\ \A w \in Variants \ {v} : shelf'[w] = shelf[w]
  BY <1>1, <1>2, <1>3, ListedRow DEF TypeOK, LedgerTypeOK
<1>5. TypeOK'
  BY <1>1, <1>4 DEF TypeOK, LedgerTypeOK
<1>6. ListedBalanced'
  <2>1. ASSUME NEW w \in listed
        PROVE  /\ shelf'[w].reserved = shelf[w].reserved
               /\ shelf'[w].reserved <= shelf'[w].quantity
    <3>1. CASE w = v
      BY <1>1, <1>4, <3>1
    <3>2. CASE w # v
      <4>1. w \in Variants /\ shelf[w].reserved <= shelf[w].quantity
        BY ListedRow
      <4>2. shelf'[w] = shelf[w]
        BY <1>4, <3>2, <4>1
      <4> QED
        BY <4>1, <4>2
    <3> QED
      BY <3>1, <3>2
  <2>2. Unpaid' = Unpaid
    BY <1>1 DEF Unpaid
  <2> QED
    BY <2>1, <2>2 DEF ListedBalanced, Holders
<1>7. SettledCharged' /\ ChargedExists'
  BY <1>1 DEF SettledCharged, ChargedExists
<1> QED
  BY <1>5, <1>6, <1>7

LEMMA WithdrawKeeps ==
    ASSUME WithdrawalsInv, NEW p \in Products, Withdraw(p)
    PROVE  WithdrawalsInv'
<1> USE DEF WithdrawalsInv
<1>1. /\ orderStatus' = orderStatus /\ cartStatus' = cartStatus
      /\ ordered' = ordered /\ charged' = charged
      /\ listed' = listed \ VariantsOf[p]
      /\ shelf' = [v \in Variants |->
                      IF v \in VariantsOf[p] THEN [quantity |-> 0, reserved |-> 0]
                      ELSE shelf[v]]
  BY DEF Withdraw
<1>2. TypeOK'
  BY <1>1 DEF TypeOK, LedgerTypeOK
<1>3. ListedBalanced'
  <2>1. ASSUME NEW v \in listed'
        PROVE  v \in listed /\ shelf'[v] = shelf[v]
    BY <1>1, <2>1 DEF TypeOK
  <2> QED
    BY <1>1, <2>1 DEF ListedBalanced, Holders, Unpaid
<1>4. SettledCharged' /\ ChargedExists'
  BY <1>1 DEF SettledCharged, ChargedExists
<1> QED
  BY <1>2, <1>3, <1>4

-----------------------------------------------------------------------------
(* The theorems.                                                           *)

LEMMA WithdrawalsStep ==
    ASSUME WithdrawalsInv, [Next]_vars
    PROVE  WithdrawalsInv'
<1>1. ASSUME NEW k \in Keys,
             PlaceListed(k) \/ Charge(k) \/ PayListed(k) \/ CancelListed(k)
      PROVE  WithdrawalsInv'
  BY <1>1, PlaceKeeps, SettleKeeps, ChargeKeeps
<1>2. ASSUME NEW k \in Keys, NEW target \in OrderStatuses,
             MoveOn(k, target), UNCHANGED <<listed, ordered, charged>>
      PROVE  WithdrawalsInv'
  BY <1>2, MoveKeeps
<1>3. ASSUME NEW v \in listed, NEW delta \in Deltas,
             Correct(v, delta), UNCHANGED <<listed, ordered, charged>>
      PROVE  WithdrawalsInv'
  BY <1>3, CorrectKeeps
<1>4. ASSUME NEW p \in Products, Withdraw(p)
      PROVE  WithdrawalsInv'
  BY <1>4, WithdrawKeeps
<1>5. CASE UNCHANGED vars
  BY <1>5 DEF vars, WithdrawalsInv, TypeOK, LedgerTypeOK, ListedBalanced,
              SettledCharged, ChargedExists, Holders, Unpaid, Deliverable
<1> QED
  BY <1>1, <1>2, <1>3, <1>4, <1>5 DEF Next

LEMMA WithdrawalsStart == Init => WithdrawalsInv
<1> SUFFICES ASSUME Init PROVE WithdrawalsInv
  OBVIOUS
<1>1. TypeOK
  BY LedgerAssumption, ProductAssumption DEF Init, LedgerInit, TypeOK, LedgerTypeOK
<1>2. \A v : Holders(v) = {}
  BY DEF Init, LedgerInit, Holders, Unpaid, NoOrder
<1>3. \A v : Cardinality(UnitsOf(Holders(v), v)) = 0
  BY <1>2, FS_EmptySet DEF UnitsOf
<1>4. \A v \in Variants : /\ shelf[v].reserved = 0
                          /\ shelf[v].quantity = InitialStock[v]
                          /\ InitialStock[v] \in Nat
  BY LedgerAssumption DEF Init, LedgerInit
<1>5. ListedBalanced
  BY <1>1, <1>3, <1>4 DEF ListedBalanced, TypeOK
<1>6. SettledCharged /\ ChargedExists
  BY DEF Init, LedgerInit, SettledCharged, ChargedExists, Settled, NoOrder
<1> QED
  BY <1>1, <1>5, <1>6 DEF WithdrawalsInv

THEOREM WithdrawalsInvHolds == Spec => []WithdrawalsInv
<1>1. WithdrawalsInv /\ [Next]_vars => WithdrawalsInv'
  BY WithdrawalsStep
<1> QED
  BY <1>1, WithdrawalsStart, PTL DEF Spec

\* Every variable keeps its type; in particular no unpaid order whose variants
\* all exist drives a stock row below zero.
THEOREM WithdrawalsTypes == Spec => []TypeOK
<1>1. WithdrawalsInv => TypeOK
  BY DEF WithdrawalsInv
<1> QED
  BY <1>1, WithdrawalsInvHolds, PTL

\* Whatever is deleted under the orders, reserved is the stock of the unpaid
\* orders for every variant that is left, and it is on the shelf.
THEOREM ListedStockBalanced == Spec => []ListedBalanced
<1>1. WithdrawalsInv => ListedBalanced
  BY DEF WithdrawalsInv
<1> QED
  BY <1>1, WithdrawalsInvHolds, PTL

\* What was handed out was paid for, and what was paid for and not handed out
\* is on the shelf.
THEOREM MoneyMeetsGoods == Spec => []MoneyForGoods
<1>1. ASSUME WithdrawalsInv
      PROVE  MoneyForGoods
  <2>1. ASSUME NEW v \in listed
        PROVE  Cardinality(UnitsOf(Owed(v), v)) <= shelf[v].quantity
    <3>1. /\ Holders(v) \in SUBSET Keys
          /\ Owed(v) \in SUBSET Holders(v)
          /\ Owed(v) \in SUBSET Keys
      BY HoldersFinite DEF Owed
    <3>2. Cardinality(UnitsOf(Owed(v), v)) <= Cardinality(UnitsOf(Holders(v), v))
      BY <3>1, UnitsOfMonotone
    <3>3. /\ Cardinality(UnitsOf(Owed(v), v)) \in Nat
          /\ Cardinality(UnitsOf(Holders(v), v)) \in Nat
      BY <3>1, UnitsOfFinite
    <3>4. /\ shelf[v].quantity \in Nat
          /\ shelf[v].reserved = Cardinality(UnitsOf(Holders(v), v))
          /\ shelf[v].reserved <= shelf[v].quantity
      BY <1>1, ListedRow DEF WithdrawalsInv
    <3> QED
      BY <3>2, <3>3, <3>4
  <2> QED
    BY <1>1, <2>1 DEF WithdrawalsInv, SettledCharged, MoneyForGoods
<1> QED
  BY <1>1, WithdrawalsInvHolds, PTL

\* No step frees an order that has lost a variant.
LEMMA StuckStep ==
    ASSUME TypeOK, [Next]_vars, NEW k \in Keys, Stuck(k)
    PROVE  Stuck(k)' /\ ordered'[k] = ordered[k]
<1>1. orderStatus[k] = "awaiting_payment" /\ ~Deliverable(k)
  BY DEF Stuck
<1>2. SUFFICES orderStatus'[k] = orderStatus[k] /\ ordered'[k] = ordered[k]
                   /\ listed' \subseteq listed
  BY <1>1 DEF Stuck, Deliverable
<1>3. ASSUME NEW j \in Keys,
             PlaceListed(j) \/ Charge(j) \/ PayListed(j) \/ CancelListed(j)
      PROVE  orderStatus'[k] = orderStatus[k] /\ ordered'[k] = ordered[k]
                 /\ listed' \subseteq listed
  BY <1>1, <1>3 DEF PlaceListed, Charge, PayListed, CancelListed, NoOrder,
                    TypeOK, LedgerTypeOK
<1>4. ASSUME NEW j \in Keys, NEW target \in OrderStatuses,
             MoveOn(j, target), UNCHANGED <<listed, ordered, charged>>
      PROVE  orderStatus'[k] = orderStatus[k] /\ ordered'[k] = ordered[k]
                 /\ listed' \subseteq listed
  BY <1>1, <1>4 DEF MoveOn, Settled, TypeOK, LedgerTypeOK
<1>5. ASSUME NEW v \in listed, NEW delta \in Deltas,
             Correct(v, delta), UNCHANGED <<listed, ordered, charged>>
      PROVE  orderStatus'[k] = orderStatus[k] /\ ordered'[k] = ordered[k]
                 /\ listed' \subseteq listed
  BY <1>5 DEF Correct
<1>6. ASSUME NEW p \in Products, Withdraw(p)
      PROVE  orderStatus'[k] = orderStatus[k] /\ ordered'[k] = ordered[k]
                 /\ listed' \subseteq listed
  BY <1>6 DEF Withdraw
<1>7. CASE UNCHANGED vars
  BY <1>7 DEF vars
<1> QED
  BY <1>3, <1>4, <1>5, <1>6, <1>7 DEF Next

\* A withdrawal is final for the orders that it catches.
THEOREM StuckStays == Spec => StuckForGood
<1>1. TypeOK /\ [Next]_vars =>
          [\A k \in Keys : Stuck(k) => Stuck(k)' /\ ordered'[k] = ordered[k]]_vars
  BY StuckStep
<1> QED
  BY <1>1, WithdrawalsTypes, PTL DEF Spec, StuckForGood

-----------------------------------------------------------------------------
(* Without deletions the shop is that of StoreLedger.                      *)

\* The orders have bought all that their baskets name.
WholeBaskets ==
    /\ listed = Variants
    /\ \A k \in Keys : orderStatus[k] # NoOrder =>
          ordered[k] = {v \in Variants : Need(k, v) > 0}

LEMMA HeldIsNeed ==
    ASSUME WholeBaskets, NEW k \in Keys, orderStatus[k] # NoOrder,
           NEW v \in Variants
    PROVE  Held(k, v) = Need(k, v)
<1>1. Need(k, v) \in Nat
  BY NeedType
<1>2. v \in ordered[k] <=> Need(k, v) > 0
  BY DEF WholeBaskets
<1> QED
  BY <1>1, <1>2 DEF Held

LEMMA WholeKept ==
    ASSUME TypeOK, WholeBaskets, [Next]_vars, listed' = listed
    PROVE  WholeBaskets'
<1> DEFINE All(k) == {v \in Variants : Need(k, v) > 0}
<1>1. SUFFICES \A j \in Keys : orderStatus'[j] # NoOrder => ordered'[j] = All(j)
  BY DEF WholeBaskets
<1>2. ASSUME NEW k \in Keys, PlaceListed(k), NEW j \in Keys,
             orderStatus'[j] # NoOrder
      PROVE  ordered'[j] = All(j)
  <2>1. Basket(k) = All(k)
    BY DEF Basket, WholeBaskets
  <2>2. /\ ordered' = [ordered EXCEPT ![k] = Basket(k)]
        /\ orderStatus' = [orderStatus EXCEPT ![k] = "awaiting_payment"]
    BY <1>2 DEF PlaceListed
  <2>3. CASE j = k
    BY <2>1, <2>2, <2>3 DEF TypeOK
  <2>4. CASE j # k
    BY <1>2, <2>2, <2>4 DEF TypeOK, LedgerTypeOK, WholeBaskets
  <2> QED
    BY <2>3, <2>4
<1>3. ASSUME NEW k \in Keys, orderStatus[k] # NoOrder, ordered' = ordered,
             NEW target, orderStatus' = [orderStatus EXCEPT ![k] = target],
             NEW j \in Keys, orderStatus'[j] # NoOrder
      PROVE  ordered'[j] = All(j)
  BY <1>3 DEF TypeOK, LedgerTypeOK, WholeBaskets
<1>4. ASSUME NEW k \in Keys, PayListed(k) \/ CancelListed(k)
      PROVE  \A j \in Keys : orderStatus'[j] # NoOrder => ordered'[j] = All(j)
  BY <1>3, <1>4 DEF PayListed, CancelListed, NoOrder
<1>5. ASSUME NEW k \in Keys, NEW target \in OrderStatuses,
             MoveOn(k, target), UNCHANGED <<listed, ordered, charged>>
      PROVE  \A j \in Keys : orderStatus'[j] # NoOrder => ordered'[j] = All(j)
  BY <1>3, <1>5 DEF MoveOn, Settled, NoOrder
<1>6. ASSUME UNCHANGED <<orderStatus, ordered>>
      PROVE  \A j \in Keys : orderStatus'[j] # NoOrder => ordered'[j] = All(j)
  BY <1>6 DEF WholeBaskets
<1> QED
  BY <1>2, <1>4, <1>5, <1>6
     DEF Next, Charge, Correct, Withdraw, vars

\* Every step that deletes nothing is one of the atomic ledger, or none: a charge
\* moves neither orders nor stock.
LEMMA UndeletedStep ==
    ASSUME TypeOK, WholeBaskets, [Next]_vars, listed' = listed
    PROVE  [LedgerNext]_ledgerVars
<1>1. ASSUME NEW k \in Keys, PlaceListed(k)
      PROVE  Place(k)
  <2>1. \A v \in Variants : v \in Basket(k) <=> Need(k, v) > 0
    BY DEF Basket, WholeBaskets
  <2>2. ASSUME NEW v \in Variants
        PROVE  shelf'[v] = [shelf[v] EXCEPT !.reserved = @ + Need(k, v)]
    <3>1. shelf'[v] = IF v \in Basket(k)
                      THEN [shelf[v] EXCEPT !.reserved = @ + Need(k, v)]
                      ELSE shelf[v]
      BY <1>1 DEF PlaceListed
    <3>2. CASE v \in Basket(k)
      BY <3>1, <3>2
    <3>3. CASE v \notin Basket(k)
      <4>1. Need(k, v) = 0
        BY <2>1, <3>3, NeedType
      <4>2. shelf[v].reserved \in Nat
        BY RowFields
      <4>3. shelf[v].reserved + Need(k, v) = shelf[v].reserved
        BY <4>1, <4>2
      <4>4. [shelf[v] EXCEPT !.reserved = @ + Need(k, v)] = shelf[v]
        BY <4>3, RowFields
      <4> QED
        BY <3>1, <3>3, <4>4
    <3> QED
      BY <3>2, <3>3
  <2>3. shelf' = [v \in Variants |->
                     [shelf[v] EXCEPT !.reserved = @ + Need(k, v)]]
    <3>1. shelf' = [v \in Variants |-> shelf'[v]]
      BY <1>1 DEF PlaceListed
    <3> QED
      BY <2>2, <3>1
  <2> QED
    BY <1>1, <2>1, <2>3 DEF PlaceListed, Place
<1>2. ASSUME NEW k \in Keys, PayListed(k)
      PROVE  Pay(k)
  <2>1. \A v \in Variants : Held(k, v) = Need(k, v)
    BY <1>2, HeldIsNeed DEF PayListed, NoOrder
  <2> QED
    BY <1>2, <2>1 DEF PayListed, Pay
<1>3. ASSUME NEW k \in Keys, CancelListed(k)
      PROVE  Cancel(k)
  <2>1. \A v \in Variants : Held(k, v) = Need(k, v)
    BY <1>3, HeldIsNeed DEF CancelListed, NoOrder
  <2> QED
    BY <1>3, <2>1 DEF CancelListed, Cancel
<1>4. ASSUME NEW k \in Keys, Charge(k)
      PROVE  UNCHANGED ledgerVars
  BY <1>4 DEF Charge, ledgerVars
<1>5. ASSUME NEW p \in Products, Withdraw(p)
      PROVE  FALSE
  BY <1>5 DEF Withdraw
<1>6. CASE UNCHANGED vars
  BY <1>6 DEF vars, ledgerVars
<1>7. listed = Variants
  BY DEF WholeBaskets
<1> QED
  BY <1>1, <1>2, <1>3, <1>4, <1>5, <1>6, <1>7 DEF Next, LedgerNext

\* The refinement: as long as no product is deleted, a shop whose variants all
\* belong to products behaves as the atomic ledger that StoreRequests implements.
THEOREM UndeletedImplementsLedger ==
    ASSUME UNION {VariantsOf[p] : p \in Products} = Variants
    PROVE  Spec /\ [][listed' = listed]_vars => LedgerSpec
<1>1. Init => LedgerInit /\ WholeBaskets
  BY DEF Init, LedgerInit, WholeBaskets
<1>2. TypeOK /\ WholeBaskets /\ [Next]_vars /\ [listed' = listed]_vars
          => WholeBaskets' /\ [LedgerNext]_ledgerVars
  <2>1. UNCHANGED vars => listed' = listed
    BY DEF vars
  <2> QED
    BY <2>1, WholeKept, UndeletedStep
<1> QED
  BY <1>1, <1>2, WithdrawalsTypes, PTL DEF Spec, LedgerSpec

=============================================================================
