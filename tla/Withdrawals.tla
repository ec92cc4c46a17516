---------------------------- MODULE Withdrawals ----------------------------
(***************************************************************************)
(* The ledger of StoreLedger in a shop that also deletes products.  The    *)
(* deletion takes the stock rows of the variants and the cart lines that   *)
(* name them along, and leaves the orders alone: their lines have no key   *)
(* to the catalog.  An order that has lost a variant can neither be paid   *)
(* nor cancelled, since both look for the stock row of every line.         *)
(***************************************************************************)
EXTENDS StoreLedger

CONSTANTS
    Products,   \* the products of the shop
    VariantsOf  \* the variants of each

ASSUME ProductAssumption == VariantsOf \in [Products -> SUBSET Variants]

VARIABLES
    listed,   \* the variants that exist, each with its stock row
    ordered,  \* the variants that the order of each key has bought
    charged   \* the keys whose payment the provider has confirmed

vars == <<orderStatus, cartStatus, shelf, listed, ordered, charged>>

Init ==
    /\ LedgerInit
    /\ listed = UNION {VariantsOf[p] : p \in Products}
    /\ ordered = [k \in Keys |-> {}]
    /\ charged = {}

\* The variants in the cart of a key: the lines of the others are gone.
Basket(k) == {v \in listed : Need(k, v) > 0}

\* The units of v that the order of k holds.
Held(k, v) == IF v \in ordered[k] THEN Need(k, v) ELSE 0

Deliverable(k) == ordered[k] \subseteq listed

PlaceListed(k) ==
    /\ orderStatus[k] = NoOrder
    /\ cartStatus[CartOf[k]] = "active"
    /\ Basket(k) # {}
    /\ \A v \in Basket(k) : shelf[v].reserved + Need(k, v) <= shelf[v].quantity
    /\ shelf' = [v \in Variants |->
                    IF v \in Basket(k)
                    THEN [shelf[v] EXCEPT !.reserved = @ + Need(k, v)]
                    ELSE shelf[v]]
    /\ orderStatus' = [orderStatus EXCEPT ![k] = "awaiting_payment"]
    /\ cartStatus' = [cartStatus EXCEPT ![CartOf[k]] = "converted"]
    /\ ordered' = [ordered EXCEPT ![k] = Basket(k)]
    /\ UNCHANGED <<listed, charged>>

MutantPayUnconfirmed(k) ==
    /\ orderStatus[k] = "awaiting_payment" /\ Deliverable(k)
    /\ shelf' = [v \in Variants |->
                    [quantity |-> shelf[v].quantity - Held(k, v),
                     reserved |-> shelf[v].reserved - Held(k, v)]]
    /\ orderStatus' = [orderStatus EXCEPT ![k] = "paid"]
    /\ UNCHANGED <<cartStatus, listed, ordered, charged>>

\* The provider confirms the payment of an order, whatever its status.  No
\* transaction of the shop covers that: if the status is then refused, a stock
\* row is missing, or the process dies or loses a deadlock before its commit, the
\* rest of the payment is rolled back and the order is as it was, but charged.
Charge(k) ==
    /\ orderStatus[k] # NoOrder
    /\ charged' = charged \union {k}
    /\ UNCHANGED <<orderStatus, cartStatus, shelf, listed, ordered>>

\* The commit of a payment that the provider has confirmed: the order is paid and
\* its units leave the shelf.
PayListed(k) ==
    /\ k \in charged
    /\ orderStatus[k] = "awaiting_payment" /\ Deliverable(k)
    /\ shelf' = [v \in Variants |->
                    [quantity |-> shelf[v].quantity - Held(k, v),
                     reserved |-> shelf[v].reserved - Held(k, v)]]
    /\ orderStatus' = [orderStatus EXCEPT ![k] = "paid"]
    /\ UNCHANGED <<cartStatus, listed, ordered, charged>>

MutantCancelListed(k) ==
    /\ orderStatus[k] = "awaiting_payment"
    /\ shelf' = [v \in Variants |->
                    IF v \in listed
                    THEN [shelf[v] EXCEPT !.reserved = @ - Held(k, v)]
                    ELSE shelf[v]]
    /\ orderStatus' = [orderStatus EXCEPT ![k] = "cancelled"]
    /\ UNCHANGED <<cartStatus, listed, ordered, charged>>

CancelListed(k) ==
    /\ orderStatus[k] = "awaiting_payment" /\ Deliverable(k)
    /\ shelf' = [v \in Variants |->
                    [shelf[v] EXCEPT !.reserved = @ - Held(k, v)]]
    /\ orderStatus' = [orderStatus EXCEPT ![k] = "cancelled"]
    /\ UNCHANGED <<cartStatus, listed, ordered, charged>>

\* DELETE of a product: whatever its units are promised to.
Withdraw(p) ==
    /\ VariantsOf[p] # {} /\ VariantsOf[p] \subseteq listed
    /\ listed' = listed \ VariantsOf[p]
    /\ shelf' = [v \in Variants |->
                    IF v \in VariantsOf[p] THEN [quantity |-> 0, reserved |-> 0]
                    ELSE shelf[v]]
    /\ UNCHANGED <<orderStatus, cartStatus, ordered, charged>>

Next ==
    \/ \E k \in Keys : PlaceListed(k) \/ Charge(k) \/ PayListed(k) \/ CancelListed(k)
    \/ \E k \in Keys, target \in OrderStatuses :
          MoveOn(k, target) /\ UNCHANGED <<listed, ordered, charged>>
    \/ \E v \in listed, delta \in Deltas :
          Correct(v, delta) /\ UNCHANGED <<listed, ordered, charged>>
    \/ \E p \in Products : Withdraw(p)

Spec == Init /\ [][Next]_vars

-----------------------------------------------------------------------------
(* Properties.                                                             *)

\* Types of the variables.
TypeOK ==
    /\ LedgerTypeOK
    /\ listed \subseteq Variants
    /\ ordered \in [Keys -> SUBSET Variants]
    /\ charged \subseteq Keys

\* The unpaid orders that hold units of v.
Holders(v) == {k \in Unpaid : v \in ordered[k]}

\* The promise of the inventory, as far as the shop still has the goods:
\* reserved is the stock of the unpaid orders, to the unit, also of those that
\* have lost another variant; and all of it is on the shelf.
ListedBalanced ==
    \A v \in listed :
        /\ shelf[v].reserved = Cardinality(UnitsOf(Holders(v), v))
        /\ shelf[v].reserved <= shelf[v].quantity

\* The orders that were charged for units of v and have not got them.
Owed(v) == Holders(v) \intersect charged

\* Money and goods: what was handed out was paid for; and what was paid for and
\* not handed out is on the shelf, for all such orders at once: an order whose
\* confirmation was lost with its transaction still has its goods.
MoneyForGoods ==
    /\ \A k \in Keys : orderStatus[k] \in Settled => k \in charged
    /\ \A v \in listed : Cardinality(UnitsOf(Owed(v), v)) <= shelf[v].quantity

Stuck(k) == orderStatus[k] = "awaiting_payment" /\ ~Deliverable(k)

\* A withdrawal is final: an order that waits for its payment when one of its
\* variants is deleted waits for good, and keeps every unit of its other
\* variants, which nobody else can buy: no payment, cancellation, correction or
\* further deletion frees them.
StuckForGood ==
    [][\A k \in Keys : Stuck(k) => Stuck(k)' /\ ordered'[k] = ordered[k]]_vars

=============================================================================
