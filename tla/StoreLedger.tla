---------------------------- MODULE StoreLedger ----------------------------
(***************************************************************************)
(* What the store promises, without requests, locks or rollbacks: orders   *)
(* are placed, paid, cancelled and moved on one at a time, and each of     *)
(* these moves stock by exactly the units of the order.  StoreRequests     *)
(* implements it as long as no two requests touch one cart at a time.      *)
(***************************************************************************)
EXTENDS Baskets, Integers, OrderStatus

CONSTANTS
    InitialStock,  \* units on hand when the store opens
    Deltas,        \* the corrections an administrator may enter
    MaxStock       \* bound on the units on hand, reached by corrections only

ASSUME LedgerAssumption ==
    /\ InitialStock \in [Variants -> Nat]
    /\ Deltas \subseteq Int
    /\ MaxStock \in Nat

VARIABLES
    orderStatus,  \* the status of the order placed under each key
    cartStatus,   \* "active" or "converted"
    shelf         \* the units on hand and reserved of each variant

ledgerVars == <<orderStatus, cartStatus, shelf>>

LedgerInit ==
    /\ orderStatus = [k \in Keys |-> NoOrder]
    /\ cartStatus = [c \in Carts |-> "active"]
    /\ shelf = [v \in Variants |->
                   [quantity |-> InitialStock[v], reserved |-> 0]]

\* Checkout: all the lines are in stock, or nothing happens.
Place(k) ==
    /\ orderStatus[k] = NoOrder
    /\ cartStatus[CartOf[k]] = "active"
    /\ \A v \in Variants :
          Need(k, v) > 0 =>
              shelf[v].reserved + Need(k, v) <= shelf[v].quantity
    /\ shelf' = [v \in Variants |->
                    [shelf[v] EXCEPT !.reserved = @ + Need(k, v)]]
    /\ orderStatus' = [orderStatus EXCEPT ![k] = "awaiting_payment"]
    /\ cartStatus' = [cartStatus EXCEPT ![CartOf[k]] = "converted"]

\* Payment: the reserved units of the order leave the shelf.
Pay(k) ==
    /\ orderStatus[k] = "awaiting_payment"
    /\ shelf' = [v \in Variants |->
                    [quantity |-> shelf[v].quantity - Need(k, v),
                     reserved |-> shelf[v].reserved - Need(k, v)]]
    /\ orderStatus' = [orderStatus EXCEPT ![k] = "paid"]
    /\ UNCHANGED cartStatus

\* Cancellation: the reserved units of the order become available again.
Cancel(k) ==
    /\ orderStatus[k] = "awaiting_payment"
    /\ shelf' = [v \in Variants |->
                    [shelf[v] EXCEPT !.reserved = @ - Need(k, v)]]
    /\ orderStatus' = [orderStatus EXCEPT ![k] = "cancelled"]
    /\ UNCHANGED cartStatus

\* Fulfilment, completion and refund are bookkeeping: no stock moves.
MoveOn(k, target) ==
    /\ orderStatus[k] \in Settled
    /\ CanMove(orderStatus[k], target)
    /\ orderStatus' = [orderStatus EXCEPT ![k] = target]
    /\ UNCHANGED <<cartStatus, shelf>>

MutantCorrectAnything(v, delta) ==
    /\ shelf[v].quantity + delta <= MaxStock
    /\ shelf' = [shelf EXCEPT ![v].quantity = @ + delta]
    /\ UNCHANGED <<orderStatus, cartStatus>>

\* A manual correction never goes below what is reserved.
Correct(v, delta) ==
    /\ shelf[v].reserved <= shelf[v].quantity + delta
    /\ shelf[v].quantity + delta <= MaxStock
    /\ shelf' = [shelf EXCEPT ![v].quantity = @ + delta]
    /\ UNCHANGED <<orderStatus, cartStatus>>

LedgerNext ==
    \/ \E k \in Keys : Place(k) \/ Pay(k) \/ Cancel(k)
    \/ \E k \in Keys, target \in OrderStatuses : MoveOn(k, target)
    \/ \E v \in Variants, delta \in Deltas : Correct(v, delta)

LedgerSpec == LedgerInit /\ [][LedgerNext]_ledgerVars

-----------------------------------------------------------------------------
(* Properties.                                                             *)

\* Types of the variables.
LedgerTypeOK ==
    /\ orderStatus \in [Keys -> OrderStatuses \union {NoOrder}]
    /\ cartStatus \in [Carts -> {"active", "converted"}]
    /\ shelf \in [Variants -> [quantity : Nat, reserved : Nat]]

Unpaid == {k \in Keys : orderStatus[k] = "awaiting_payment"}

\* The promise of the inventory: reserved is the stock of the unpaid orders,
\* to the unit, and all of it is on the shelf, so that every unpaid order can
\* be paid and every cancellation gives back what its checkout took.
ShelfBalanced ==
    \A v \in Variants :
        /\ shelf[v].reserved = Cardinality(UnitsOf(Unpaid, v))
        /\ shelf[v].reserved <= shelf[v].quantity

=============================================================================
