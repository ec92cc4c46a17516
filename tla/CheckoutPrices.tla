--------------------------- MODULE CheckoutPrices ---------------------------
(***************************************************************************)
(* A shopper looks at the totals of a cart and checks it out while         *)
(* administrators set prices and rates change.  Both requests price the    *)
(* lines one query at a time - the price of the variant in the currency, a *)
(* rate, the inverse rate - and checkout does so twice: for the totals of  *)
(* the order, and for the lines it copies.  Base prices come with the      *)
(* variants, which are loaded once per request.                            *)
(***************************************************************************)
EXTENDS Pricing, Sequences

CONSTANTS
    Variants,
    InCurrency,  \* the variants whose base price is in the cart's currency
    Lines,       \* the lines of the cart, in order
    Amounts,     \* prices an administrator may set
    Rates        \* rates that may be stored

ASSUME PricesAssumption ==
    /\ Lines \in Seq([variant : Variants, quantity : Nat \ {0}])
    /\ Lines # <<>>
    /\ InCurrency \subseteq Variants
    /\ Amounts \subseteq Nat
    /\ Rates \subseteq Nat

VARIABLES
    explicit,  \* variant_price of each variant in the currency, or None
    base,      \* base_price of each variant's product
    rate,      \* rate to the currency of the cart, or None
    inverse,   \* rate the other way round, or None
    req,       \* the request of the shopper
    quote,     \* the totals the shopper has last seen
    order,     \* the order that was placed
    drifted,   \* did a price or rate change during the last request?
    stale      \* did one change since the request that showed the quote began?

vars == <<explicit, base, rate, inverse, req, quote, order, drifted, stale>>

-----------------------------------------------------------------------------

Nothing == [kind |-> "none"]

Idle == [kind |-> "idle"]

\* What one query on line i finds a unit of it to cost, for a request that loaded
\* base prices b: "price" looks for the variant's own price, and needs none if the
\* base price is in the currency of the cart; "rate" and "inverse" for a rate.
Found(b, i, look) ==
    LET v == Lines[i].variant
    IN  UnitPrice(IF look = "price" THEN explicit[v] ELSE None,
                  look = "price" /\ v \in InCurrency,
                  b[v],
                  IF look = "rate" THEN rate ELSE None,
                  IF look = "inverse" THEN inverse ELSE None)

Total(sums) == sums[Len(sums)]

\* Running sums start from nothing, and every line adds one.
Add(sums, unit) ==
    Append(sums, Total(sums) + unit * Lines[Len(sums)].quantity)

Init ==
    /\ explicit \in [Variants -> Amounts \union {None}]
    /\ base \in [Variants -> Amounts]
    /\ rate \in Rates \union {None}
    /\ inverse \in Rates \union {None}
    /\ req = Idle
    /\ quote = Nothing
    /\ order = Nothing
    /\ drifted = FALSE
    /\ stale = FALSE

\* GET /store/carts/{token}/totals or POST /store/checkout: the cart, its
\* region and its variants are loaded.
Begin(kind) ==
    /\ req = Idle
    /\ order = Nothing
    /\ req' = [kind |-> kind, base |-> base, priced |-> <<0>>, copied |-> <<0>>,
               look |-> "price"]
    /\ drifted' = FALSE
    /\ UNCHANGED <<explicit, base, rate, inverse, quote, order, stale>>

\* Lines are still to be priced for the totals, none is, or one is still to
\* be copied to the order.
Unpriced == req # Idle /\ Len(req.priced) <= Len(Lines)
Priced == req # Idle /\ Len(req.priced) > Len(Lines)
Copying == Priced /\ req.kind = "checkout" /\ Len(req.copied) <= Len(Lines)

\* The line that is being priced.
InWork == IF Unpriced THEN Len(req.priced) ELSE Len(req.copied)

\* What the query under way finds.
Finds == Found(req.base, InWork, req.look)

\* (A mistaken form of each definition named Mutant... stands before it.)
MutantPriceMissing ==
    /\ Unpriced
    /\ req' = [req EXCEPT !.priced = Add(@, Finds), !.look = "price"]
    /\ UNCHANGED <<explicit, base, rate, inverse, quote, order, drifted, stale>>

\* calculate: the query finds a price for the next line.
PriceLine ==
    /\ Unpriced /\ Finds # None
    /\ req' = [req EXCEPT !.priced = Add(@, Finds), !.look = "price"]
    /\ UNCHANGED <<explicit, base, rate, inverse, quote, order, drifted, stale>>

\* The totals are shown.
ShowTotals ==
    /\ Priced /\ req.kind = "totals"
    /\ quote' = Breakdown(Total(req.priced))
    /\ stale' = drifted
    /\ req' = Idle
    /\ UNCHANGED <<explicit, base, rate, inverse, order, drifted>>

MutantCopySnapshot ==
    /\ Copying
    /\ req' = [req EXCEPT !.copied =
                  Add(@, req.base[Lines[Len(@)].variant]),
                          !.look = "price"]
    /\ UNCHANGED <<explicit, base, rate, inverse, quote, order, drifted, stale>>

\* checkout: the next line of the order, priced again.
CopyLine ==
    /\ Copying /\ Finds # None
    /\ req' = [req EXCEPT !.copied = Add(@, Finds), !.look = "price"]
    /\ UNCHANGED <<explicit, base, rate, inverse, quote, order, drifted, stale>>

PlaceOrder ==
    /\ Priced /\ req.kind = "checkout"
    /\ Len(req.copied) > Len(Lines)
    /\ order' = [totals |-> Breakdown(Total(req.priced)),
                 lineTotals |-> Total(req.copied)]
    /\ req' = Idle
    /\ UNCHANGED <<explicit, base, rate, inverse, quote, drifted, stale>>

\* The query finds nothing: the next one is made ...
LookOn ==
    /\ Unpriced \/ Copying
    /\ Finds = None
    /\ req.look # "inverse"
    /\ req' = [req EXCEPT !.look = IF @ = "price" THEN "rate" ELSE "inverse"]
    /\ UNCHANGED <<explicit, base, rate, inverse, quote, order, drifted, stale>>

\* ... or, when it was the last, the request fails (EXCHANGE_RATE_UNAVAILABLE).
NoRate ==
    /\ Unpriced \/ Copying
    /\ Finds = None
    /\ req.look = "inverse"
    /\ req' = Idle
    /\ UNCHANGED <<explicit, base, rate, inverse, quote, order, drifted, stale>>

-----------------------------------------------------------------------------
(* The administrator and the worker.                                       *)

Moved ==
    /\ drifted' = TRUE
    /\ stale' = TRUE
    /\ UNCHANGED <<req, quote, order>>

\* PUT /admin/products/{id}/variants/{id}/price.
SetPrice(v, amount) ==
    /\ explicit' = [explicit EXCEPT ![v] = amount]
    /\ Moved
    /\ UNCHANGED <<base, rate, inverse>>

\* PATCH /admin/products/{id}.
SetBase(v, amount) ==
    /\ base' = [base EXCEPT ![v] = amount]
    /\ Moved
    /\ UNCHANGED <<explicit, rate, inverse>>

\* A refresh by the worker, or an administrator's rate, in either direction.
SetRate(r) ==
    /\ \/ rate' = r /\ inverse' = inverse
       \/ inverse' = r /\ rate' = rate
    /\ Moved
    /\ UNCHANGED <<explicit, base>>

Next ==
    \/ Begin("totals") \/ Begin("checkout")
    \/ PriceLine \/ ShowTotals \/ CopyLine \/ PlaceOrder
    \/ LookOn \/ NoRate
    \/ \E v \in Variants, amount \in Amounts :
          SetPrice(v, amount) \/ SetBase(v, amount)
    \/ \E r \in Rates : SetRate(r)

Spec == Init /\ [][Next]_vars

-----------------------------------------------------------------------------
(* Properties.                                                             *)

Totals == [subtotal : Nat, shippingFee : Nat, tax : Nat, total : Nat]

\* Types of the variables.
TypeOK ==
    /\ explicit \in [Variants -> Nat \union {None}]
    /\ base \in [Variants -> Nat]
    /\ rate \in Nat \union {None}
    /\ inverse \in Nat \union {None}
    /\ \/ req = Idle
       \/ /\ req \in [kind : {"totals", "checkout"}, base : [Variants -> Nat],
                      priced : Seq(Nat), copied : Seq(Nat),
                      look : {"price", "rate", "inverse"}]
          /\ Len(req.priced) \in 1 .. Len(Lines) + 1
          /\ Len(req.copied) \in 1 .. Len(Lines) + 1
    /\ quote = Nothing \/ quote \in Totals
    /\ order = Nothing \/ order \in [totals : Totals, lineTotals : Nat]
    /\ drifted \in BOOLEAN
    /\ stale \in BOOLEAN

\* The four amounts of what is shown or ordered.
Shown == {t \in {quote} : quote # Nothing} \union
         {o.totals : o \in {x \in {order} : order # Nothing}}

\* What a shopper is shown or charged adds up to the smallest unit of the
\* currency, although each amount is rounded on its own.
TotalsAddUp ==
    \A t \in Shown : t.total = t.subtotal + t.shippingFee + t.tax

\* Tax is the exact tax on goods and shipping to the nearest unit, and half a
\* unit is rounded up.
TaxIsNearest ==
    \A t \in Shown :
        LET error == t.tax * TaxScale - (t.subtotal + t.shippingFee) * TaxRate
        IN  2 * error \in (1 - Quantum * TaxScale) .. (Quantum * TaxScale)

\* What a shopper is shown or charged is right to the smallest unit of the
\* currency: the tax is the nearest there is to the exact one, and the parts,
\* each rounded on its own, still add up to the total.
TotalsAreRight == TotalsAddUp /\ TaxIsNearest

\* An order's subtotal is the sum of its lines, priced apart from it, as long
\* as no price or rate changed during the checkout.
LinesAddUp ==
    order # Nothing /\ ~drifted =>
        order.totals.subtotal = order.lineTotals

\* What cart/models.py:58 says the price kept on a cart line is for: price changes
\* never make the total of a cart jump while its shopper looks at it.  The lines
\* of this cart do not change, so that its total would stay what was shown first.
\* The run PriceMoves refutes it.
CartTotalStands == [][quote # Nothing => quote' = quote]_vars

=============================================================================
