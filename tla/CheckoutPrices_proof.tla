----------------------- MODULE CheckoutPrices_proof -----------------------
(***************************************************************************)
(* The proofs about CheckoutPrices.  First the arithmetic: rounding to     *)
(* whole units of the currency, and that the rounded parts of a breakdown  *)
(* add up.  Then the behaviour: unless a price or rate changed meanwhile,  *)
(* two requests that price the same lines go through the same sums.  That  *)
(* is an induction over their steps, which no recursion over the lines is  *)
(* needed for.                                                             *)
(***************************************************************************)
EXTENDS CheckoutPrices, TLAPS

-----------------------------------------------------------------------------
(* Arithmetic.                                                             *)

\* What \div returns.
LEMMA Division ==
    ASSUME NEW n \in Nat, NEW d \in Nat \ {0}
    PROVE  /\ n \div d \in Nat
           /\ d * (n \div d) <= n
           /\ n < d * (n \div d) + d
    OBVIOUS

\* A number that leaves a remainder below d is divided to its quotient.
LEMMA Quotient ==
    ASSUME NEW k \in Nat, NEW d \in Nat \ {0}, NEW r \in 0 .. d - 1
    PROVE  (d * k + r) \div d = k
<1>1. d * k \in Nat
    OBVIOUS
<1> DEFINE q == (d * k + r) \div d
<1>2. q \in Nat /\ d * q <= d * k + r /\ d * k + r < d * q + d
    BY <1>1, Division
<1> HIDE DEF q
<1>3. d * q - d * k = d * (q - k)
    BY <1>2
<1>4. ~(q > k)
  <2>1. SUFFICES ASSUME q - k >= 1 PROVE FALSE
      BY <1>2
  <2>2. d * (q - k) >= d
      BY <2>1, <1>2
  <2> QED
      BY <2>2, <1>1, <1>2, <1>3
<1>5. ~(q < k)
  <2>1. SUFFICES ASSUME k - q >= 1 PROVE FALSE
      BY <1>2
  <2>2. d * (k - q) >= d
      BY <2>1, <1>2
  <2> QED
      BY <2>2, <1>1, <1>2
<1>6. q = k
    BY <1>2, <1>4, <1>5
<1> QED
    BY <1>6 DEF q

\* HalfUp is off by half of d at most, and only upwards by half.
LEMMA Rounding ==
    ASSUME NEW n \in Nat, NEW d \in Nat \ {0}
    PROVE  /\ HalfUp(n, d) \in Nat
           /\ 2 * (d * HalfUp(n, d) - n) \in 1 - d .. d
<1> DEFINE m == 2 * n + d
           e == 2 * d
           q == m \div e
<1>a. m \in Nat /\ e \in Nat \ {0}
    OBVIOUS
<1>b. q \in Nat /\ e * q <= m /\ m < e * q + e
  <2> HIDE DEF m, e
  <2> QED
      BY <1>a, Division
<1>1. q \in Nat /\ (2 * d) * q <= 2 * n + d /\ 2 * n + d < (2 * d) * q + 2 * d
    BY <1>b
<1> HIDE DEF q
<1>2. (2 * d) * q = 2 * (d * q) /\ d * q \in Nat
    BY <1>1
<1>3. 2 * (d * q - n) \in 1 - d .. d
    BY <1>1, <1>2
<1> QED
    BY <1>1, <1>3 DEF q, HalfUp

\* round_money returns whole units of the currency.
LEMMA RoundMoneyType ==
    ASSUME NEW n \in Nat, NEW d \in Nat \ {0}
    PROVE  \E k \in Nat : RoundMoney(n, d) = k * Quantum
<1>1. d * Quantum \in Nat \ {0}
    BY PricingAssumption
<1>2. HalfUp(n, d * Quantum) \in Nat
    BY <1>1, Rounding
<1> QED
    BY <1>2 DEF RoundMoney

\* round_money keeps what is whole already: rounding again does nothing.
LEMMA RoundMoneyExact ==
    ASSUME NEW k \in Nat
    PROVE  RoundMoney(k * Quantum, 1) = k * Quantum
<1>1. Quantum \in Nat \ {0}
    BY PricingAssumption
<1>2. (2 * Quantum) * k + Quantum = 2 * (k * Quantum) + Quantum
    BY <1>1
<1>3. ((2 * Quantum) * k + Quantum) \div (2 * Quantum) = k
    BY <1>1, Quotient
<1>4. HalfUp(k * Quantum, Quantum) = k
    BY <1>2, <1>3 DEF HalfUp
<1> QED
    BY <1>1, <1>4 DEF RoundMoney

\* x is a number of the smallest unit of the currency.
Whole(x) == \E k \in Nat : x = k * Quantum

\* The same, with its type.
LEMMA RoundMoneyWhole ==
    ASSUME NEW n \in Nat, NEW d \in Nat \ {0}
    PROVE  RoundMoney(n, d) \in Nat /\ Whole(RoundMoney(n, d))
<1>1. PICK k \in Nat : RoundMoney(n, d) = k * Quantum
    BY RoundMoneyType
<1>2. k * Quantum \in Nat
    BY PricingAssumption
<1> QED
    BY <1>1, <1>2 DEF Whole

\* What calculate returns for any sum of lines.
LEMMA BreakdownParts ==
    ASSUME NEW sum \in Nat
    PROVE  LET t == Breakdown(sum)
               taxable == t.subtotal + t.shippingFee
           IN  /\ t \in Totals
               /\ t.total = t.subtotal + t.shippingFee + t.tax
               /\ 2 * (t.tax * TaxScale - taxable * TaxRate)
                      \in (1 - Quantum * TaxScale) .. (Quantum * TaxScale)
               /\ Whole(sum) => t.subtotal = sum
<1> DEFINE subtotal == RoundMoney(sum, 1)
           shippingFee == RoundMoney(ShippingFee(subtotal), 1)
           taxable == subtotal + shippingFee
           tax == RoundMoney(taxable * TaxRate, TaxScale)
           total == RoundMoney(subtotal + shippingFee + tax, 1)
<1>1. Breakdown(sum) = [subtotal |-> subtotal, shippingFee |-> shippingFee,
                        tax |-> tax, total |-> total]
    BY DEF Breakdown
<1>2. subtotal \in Nat /\ Whole(subtotal)
    BY RoundMoneyWhole
<1>3. ShippingFee(subtotal) \in Nat
    BY PricingAssumption DEF ShippingFee
<1>4. shippingFee \in Nat /\ Whole(shippingFee)
    BY <1>3, RoundMoneyWhole
<1>5. Whole(sum) => subtotal = sum
    BY RoundMoneyExact DEF Whole
<1> HIDE DEF subtotal, shippingFee
<1>6. taxable * TaxRate \in Nat /\ TaxScale \in Nat \ {0}
    BY <1>2, <1>4, PricingAssumption
<1>7. tax \in Nat /\ Whole(tax)
    BY <1>6, RoundMoneyWhole
<1>8. 2 * (tax * TaxScale - taxable * TaxRate)
          \in (1 - Quantum * TaxScale) .. (Quantum * TaxScale)
  <2> DEFINE n == taxable * TaxRate
             d == TaxScale * Quantum
             q == HalfUp(n, d)
  <2>1. d \in Nat \ {0} /\ d = Quantum * TaxScale
      BY PricingAssumption
  <2>2. q \in Nat /\ 2 * (d * q - n) \in 1 - d .. d
      BY <2>1, <1>6, Rounding
  <2>3. tax = q * Quantum
      BY DEF RoundMoney
  <2> HIDE DEF n, q
  <2>4. tax * TaxScale = d * q
      BY <2>2, <2>3, PricingAssumption
  <2> HIDE DEF d
  <2>5. 2 * (tax * TaxScale - n) \in 1 - d .. d
      BY <2>2, <2>4
  <2> QED
      BY <2>1, <2>5 DEF n
<1> HIDE DEF tax
<1>9. total \in Nat /\ total = subtotal + shippingFee + tax
  <2>1. PICK i \in Nat, j \in Nat, k \in Nat :
            /\ subtotal = i * Quantum
            /\ shippingFee = j * Quantum
            /\ tax = k * Quantum
      BY <1>2, <1>4, <1>7 DEF Whole
  <2>2. subtotal + shippingFee + tax = (i + j + k) * Quantum
      BY <2>1, PricingAssumption
  <2>3. RoundMoney((i + j + k) * Quantum, 1) = (i + j + k) * Quantum
      BY RoundMoneyExact
  <2> QED
      BY <1>2, <1>4, <1>7, <2>2, <2>3
<1> HIDE DEF total
<1> QED
    BY <1>1, <1>2, <1>4, <1>5, <1>7, <1>8, <1>9 DEF Totals

\* unit_price fails or returns whole units, whatever the rates are.
LEMMA UnitPriceWhole ==
    ASSUME NEW e \in Nat \union {None}, NEW same \in BOOLEAN, NEW amount \in Nat,
           NEW r \in Nat \union {None}, NEW inv \in Nat \union {None}
    PROVE  LET unit == UnitPrice(e, same, amount, r, inv)
           IN  unit = None \/ (unit \in Nat /\ Whole(unit))
<1>1. /\ RateScale \in Nat \ {0}
      /\ amount * RateScale \in Nat
      /\ r # None => amount * r \in Nat
      /\ inv \notin {None, 0} => inv \in Nat \ {0}
    BY PricingAssumption DEF None
<1>2. e # None => LET x == RoundMoney(e, 1) IN x \in Nat /\ Whole(x)
    BY RoundMoneyWhole
<1>3. LET x == RoundMoney(amount, 1) IN x \in Nat /\ Whole(x)
    BY RoundMoneyWhole
<1>4. r # None => LET x == RoundMoney(amount * r, RateScale)
                  IN  x \in Nat /\ Whole(x)
    BY <1>1, RoundMoneyWhole
<1>5. inv \notin {None, 0} => LET x == RoundMoney(amount * RateScale, inv)
                              IN  x \in Nat /\ Whole(x)
    BY <1>1, RoundMoneyWhole
<1> QED
    BY <1>2, <1>3, <1>4, <1>5 DEF UnitPrice, Convert


-----------------------------------------------------------------------------

\* The fields of a cart line.
LEMMA LinesType ==
    ASSUME NEW i \in 1 .. Len(Lines)
    PROVE  Lines[i].variant \in Variants /\ Lines[i].quantity \in Nat
<1>1. Lines[i] \in [variant : Variants, quantity : Nat \ {0}]
  <2> DEFINE S == [variant : Variants, quantity : Nat \ {0}]
  <2>1. Lines \in Seq(S)
      BY PricesAssumption
  <2> HIDE DEF S
  <2>2. Lines[i] \in S
      BY <2>1
  <2> QED
      BY <2>2 DEF S
<1> QED
    BY <1>1

\* What a unit of line i costs now: what the first query that finds something
\* finds, if nothing changes between them.
PriceNow(b, i) ==
    LET v == Lines[i].variant
    IN  UnitPrice(explicit[v], v \in InCurrency, b[v], rate, inverse)

\* What the state holds for a line, for whoever loaded the base prices b.
LEMMA LineData ==
    ASSUME TypeOK, NEW b \in [Variants -> Nat], NEW i \in 1 .. Len(Lines)
    PROVE  LET v == Lines[i].variant
           IN  /\ explicit[v] \in Nat \union {None} /\ b[v] \in Nat
               /\ rate \in Nat \union {None} /\ inverse \in Nat \union {None}
<1> DEFINE v == Lines[i].variant
<1>1. v \in Variants
    BY LinesType
<1> HIDE DEF v
<1>2. /\ explicit[v] \in Nat \union {None} /\ b[v] \in Nat
      /\ rate \in Nat \union {None} /\ inverse \in Nat \union {None}
    BY <1>1 DEF TypeOK
<1> QED
    BY <1>2 DEF v

\* A query finds a price in whole units, or none.
LEMMA FoundWhole ==
    ASSUME TypeOK, NEW b \in [Variants -> Nat], NEW i \in 1 .. Len(Lines), NEW look
    PROVE  \/ Found(b, i, look) = None
           \/ Found(b, i, look) \in Nat /\ Whole(Found(b, i, look))
<1> DEFINE v == Lines[i].variant
           e == IF look = "price" THEN explicit[v] ELSE None
           same == look = "price" /\ v \in InCurrency
           amount == b[v]
           r == IF look = "rate" THEN rate ELSE None
           inv == IF look = "inverse" THEN inverse ELSE None
<1>1. /\ e \in Nat \union {None} /\ same \in BOOLEAN /\ amount \in Nat
      /\ r \in Nat \union {None} /\ inv \in Nat \union {None}
    BY LineData
<1>2. Found(b, i, look) = UnitPrice(e, same, amount, r, inv)
    BY DEF Found
<1> HIDE DEF e, same, amount, r, inv
<1> QED
    BY <1>1, <1>2, UnitPriceWhole

\* A conversion that is made is never mistaken for none.
LEMMA RoundedIsFound ==
    ASSUME NEW n \in Nat, NEW d \in Nat \ {0}
    PROVE  RoundMoney(n, d) # None
<1>1. RoundMoney(n, d) \in Nat
    BY RoundMoneyWhole
<1> QED
    BY <1>1 DEF None

\* So does unit_price: a line costs whole units, or has no price.
LEMMA PriceNowWhole ==
    ASSUME TypeOK, NEW b \in [Variants -> Nat], NEW i \in 1 .. Len(Lines)
    PROVE  \/ PriceNow(b, i) = None
           \/ PriceNow(b, i) \in Nat /\ Whole(PriceNow(b, i))
<1> DEFINE v == Lines[i].variant
           e == explicit[v]
           same == v \in InCurrency
           amount == b[v]
<1>1. /\ e \in Nat \union {None} /\ same \in BOOLEAN /\ amount \in Nat
      /\ rate \in Nat \union {None} /\ inverse \in Nat \union {None}
    BY LineData
<1>2. PriceNow(b, i) = UnitPrice(e, same, amount, rate, inverse)
    BY DEF PriceNow
<1> HIDE DEF e, same, amount
<1> QED
    BY <1>1, <1>2, UnitPriceWhole

\* What Add appends.
LEMMA AddLine ==
    ASSUME NEW s \in Seq(Nat), Len(s) \in 1 .. Len(Lines), NEW unit \in Nat
    PROVE  /\ Add(s, unit) \in Seq(Nat)
           /\ Len(Add(s, unit)) = Len(s) + 1
           /\ \A i \in 1 .. Len(s) : Add(s, unit)[i] = s[i]
           /\ Add(s, unit)[Len(s) + 1]
                  = s[Len(s)] + unit * Lines[Len(s)].quantity
<1> DEFINE next == s[Len(s)] + unit * Lines[Len(s)].quantity
<1>1. s[Len(s)] \in Nat
    OBVIOUS
<1>2. Lines[Len(s)].quantity \in Nat
    BY LinesType
<1>3. next \in Nat
  <2>1. \A x, y, z \in Nat : x + y * z \in Nat
      OBVIOUS
  <2> QED
      BY <1>1, <1>2, <2>1
<1>4. Add(s, unit) = Append(s, next)
    BY DEF Add, Total
<1> HIDE DEF next
<1>5. /\ Append(s, next) \in Seq(Nat)
      /\ Len(Append(s, next)) = Len(s) + 1
      /\ \A i \in 1 .. Len(s) : Append(s, next)[i] = s[i]
      /\ Append(s, next)[Len(s) + 1] = next
    BY <1>3
<1> QED
    BY <1>4, <1>5 DEF next

\* Whole units times a quantity, summed, are whole.
LEMMA WholeSum ==
    ASSUME NEW x \in Nat, NEW y \in Nat, NEW q \in Nat, Whole(x), Whole(y)
    PROVE  Whole(x + y * q)
<1>1. PICK i \in Nat, j \in Nat : x = i * Quantum /\ y = j * Quantum
    BY DEF Whole
<1>2. (j * Quantum) * q = (j * q) * Quantum /\ j * q \in Nat
    BY PricingAssumption
<1>3. i * Quantum + (j * q) * Quantum = (i + j * q) * Quantum
    BY <1>2, PricingAssumption
<1>4. x + y * q = (i + j * q) * Quantum /\ i + j * q \in Nat
    BY <1>1, <1>2, <1>3
<1> QED
    BY <1>4 DEF Whole

\* The three queries, as UnitPrice sees them.
LEMMA FoundLooks ==
    ASSUME NEW b, NEW i
    PROVE  LET v == Lines[i].variant
           IN  /\ Found(b, i, "price") =
                      UnitPrice(explicit[v], v \in InCurrency, b[v], None, None)
               /\ Found(b, i, "rate") = UnitPrice(None, FALSE, b[v], rate, None)
               /\ Found(b, i, "inverse") =
                      UnitPrice(None, FALSE, b[v], None, inverse)
<1> DEFINE v == Lines[i].variant
<1>1. Found(b, i, "price") =
          UnitPrice(explicit[v], v \in InCurrency, b[v], None, None)
    BY DEF Found, UnitPrice, Convert
<1>2. Found(b, i, "rate") = UnitPrice(None, FALSE, b[v], rate, None)
    BY DEF Found, UnitPrice, Convert
<1>3. Found(b, i, "inverse") = UnitPrice(None, FALSE, b[v], None, inverse)
    BY DEF Found, UnitPrice, Convert
<1> QED
    BY <1>1, <1>2, <1>3

\* A price found after the queries before it found none is the price of now.
LEMMA FoundIsNow ==
    ASSUME TypeOK, NEW b \in [Variants -> Nat], NEW i \in 1 .. Len(Lines),
           NEW look \in {"price", "rate", "inverse"},
           look # "price" => Found(b, i, "price") = None,
           look = "inverse" => Found(b, i, "rate") = None,
           Found(b, i, look) # None
    PROVE  Found(b, i, look) = PriceNow(b, i)
<1> DEFINE v == Lines[i].variant
           e == explicit[v]
           same == v \in InCurrency
           amount == b[v]
           byPrice == UnitPrice(e, same, amount, None, None)
           byRate == UnitPrice(None, FALSE, amount, rate, None)
           byInverse == UnitPrice(None, FALSE, amount, None, inverse)
           unit == UnitPrice(e, same, amount, rate, inverse)
<1>1. /\ e \in Nat \union {None} /\ same \in BOOLEAN /\ amount \in Nat
      /\ rate \in Nat \union {None} /\ inverse \in Nat \union {None}
    BY LineData
<1>2. /\ Found(b, i, "price") = byPrice
      /\ Found(b, i, "rate") = byRate
      /\ Found(b, i, "inverse") = byInverse
      /\ PriceNow(b, i) = unit
    BY FoundLooks DEF PriceNow
<1>3. /\ byPrice # None => byPrice = unit
      /\ byPrice = None /\ byRate # None => byRate = unit
      /\ byPrice = None /\ byRate = None => byInverse = unit
  <2>1. PICK r, inv : r = rate /\ inv = inverse
      OBVIOUS
  <2>2. PICK x, y, z : x = e /\ y = same /\ z = amount
      OBVIOUS
  <2>3. /\ x \in Nat \union {None} /\ y \in BOOLEAN /\ z \in Nat
        /\ r \in Nat \union {None} /\ inv \in Nat \union {None}
      BY <1>1, <2>1, <2>2
  <2>4. /\ x # None => RoundMoney(x, 1) # None
        /\ RoundMoney(z, 1) # None
      BY <2>3, RoundedIsFound
  <2>5. r # None => RoundMoney(z * r, RateScale) # None
    <3>1. r # None => z * r \in Nat
        BY <2>3
    <3> QED
        BY <3>1, RoundedIsFound, PricingAssumption
  <2>6. /\ UnitPrice(x, y, z, None, None) # None
              => UnitPrice(x, y, z, None, None) = UnitPrice(x, y, z, r, inv)
        /\ UnitPrice(x, y, z, None, None) = None
                /\ UnitPrice(None, FALSE, z, r, None) # None
              => UnitPrice(None, FALSE, z, r, None) = UnitPrice(x, y, z, r, inv)
        /\ UnitPrice(x, y, z, None, None) = None
                /\ UnitPrice(None, FALSE, z, r, None) = None
              => UnitPrice(None, FALSE, z, None, inv) = UnitPrice(x, y, z, r, inv)
      BY <2>3, <2>4, <2>5 DEF UnitPrice, Convert
  <2> QED
      BY <2>1, <2>2, <2>6
<1> HIDE DEF byPrice, byRate, byInverse, unit
<1> QED
    BY <1>2, <1>3

-----------------------------------------------------------------------------

\* s holds the running sums of the first lines at the prices of now.
Running(s) ==
    /\ s[1] = 0
    /\ \A i \in 1 .. Len(s) - 1 :
          /\ PriceNow(base, i) # None
          /\ s[i + 1] = s[i] + PriceNow(base, i) * Lines[i].quantity

\* A request has summed whole units only, and copies after it priced.
SumsWhole ==
    req # Idle =>
        /\ req.priced[1] = 0 /\ req.copied[1] = 0
        /\ \A i \in 1 .. Len(req.priced) : Whole(req.priced[i])
        /\ Len(req.copied) > 1 => Len(req.priced) = Len(Lines) + 1

\* Unless something changed meanwhile, it works at the prices of now.
Steady ==
    req # Idle /\ ~drifted =>
        /\ req.base = base
        /\ Running(req.priced)
        /\ \A i \in 1 .. Len(req.copied) :
              i <= Len(req.priced) /\ req.copied[i] = req.priced[i]

\* Unless something changed meanwhile, the queries already made for the line in
\* work would find nothing now either.
Asked ==
    req # Idle /\ ~drifted =>
        /\ req.look # "price" => Found(req.base, InWork, "price") = None
        /\ req.look = "inverse" => Found(req.base, InWork, "rate") = None

\* Unless something changed since, what was quoted is what the lines cost
\* now, and a request that runs now is on the way to the same sums.
Quoted ==
    quote # Nothing /\ ~stale =>
        \E s \in Seq(Nat) :
            /\ Len(s) = Len(Lines) + 1
            /\ Running(s)
            /\ quote = Breakdown(s[Len(Lines) + 1])
            /\ req # Idle =>
                  \A i \in 1 .. Len(req.priced) : req.priced[i] = s[i]

\* A change makes the quote stale as well, and checkout is over once placed.
Progress ==
    /\ drifted => stale
    /\ order # Nothing => req = Idle

\* The number shown in the cart is the number the order is created with, as
\* long as no price or rate changed since the cart was priced.
QuoteHonoured ==
    order # Nothing /\ quote # Nothing /\ ~stale => order.totals = quote

PricesInv ==
    /\ TypeOK
    /\ SumsWhole
    /\ Steady
    /\ Asked
    /\ Quoted
    /\ Progress
    /\ TotalsAddUp
    /\ TaxIsNearest
    /\ LinesAddUp
    /\ QuoteHonoured


-----------------------------------------------------------------------------

\* What does not change while prices and rates stay.
LEMMA SamePrices ==
    ASSUME UNCHANGED <<explicit, base, rate, inverse>>
    PROVE  /\ \A i : PriceNow(base, i)' = PriceNow(base, i)
           /\ \A s : Running(s)' <=> Running(s)
<1>1. \A i : PriceNow(base, i)' = PriceNow(base, i)
    BY DEF PriceNow
<1>2. ASSUME NEW s
      PROVE  Running(s)' <=> Running(s)
    BY <1>1 DEF Running
<1> QED
    BY <1>1, <1>2

\* A line added at the price of now keeps the sums running.
LEMMA RunningAdd ==
    ASSUME TypeOK, NEW s \in Seq(Nat), Len(s) \in 1 .. Len(Lines), Running(s),
           PriceNow(base, Len(s)) # None
    PROVE  Running(Add(s, PriceNow(base, Len(s))))
<1> DEFINE unit == PriceNow(base, Len(s))
           t == Add(s, unit)
<1>1. unit \in Nat
    BY PriceNowWhole DEF TypeOK
<1> HIDE DEF unit
<1>2. /\ t \in Seq(Nat)
      /\ Len(t) = Len(s) + 1
      /\ \A i \in 1 .. Len(s) : t[i] = s[i]
      /\ t[Len(s) + 1] = s[Len(s)] + unit * Lines[Len(s)].quantity
    BY <1>1, AddLine
<1> HIDE DEF t
<1>3. t[1] = 0
    BY <1>2 DEF Running
<1>4. ASSUME NEW i \in 1 .. Len(t) - 1
      PROVE  /\ PriceNow(base, i) # None
             /\ t[i + 1] = t[i] + PriceNow(base, i) * Lines[i].quantity
  <2>1. CASE i = Len(s)
      BY <2>1, <1>2 DEF unit
  <2>2. CASE i # Len(s)
    <3>1. i \in 1 .. Len(s) - 1 /\ i + 1 \in 1 .. Len(s)
        BY <2>2, <1>2
    <3> QED
        BY <3>1, <1>2 DEF Running
  <2> QED
      BY <2>1, <2>2
<1>5. Running(t)
    BY <1>3, <1>4 DEF Running
<1> QED
    BY <1>5 DEF t, unit

-----------------------------------------------------------------------------

\* It holds at first.
LEMMA InitInv == Init => PricesInv
<1>1. Init => TypeOK
    BY PricesAssumption DEF Init, TypeOK
<1> QED
    BY <1>1 DEF Init, PricesInv, SumsWhole, Steady, Asked, Quoted, Progress,
        TotalsAddUp, TaxIsNearest, Shown, LinesAddUp, QuoteHonoured, Idle, Nothing

\* A request in service is not the mark of none.
LEMMA IdleIsNone == \A k, b, p, c, l :
    [kind |-> k, base |-> b, priced |-> p, copied |-> c, look |-> l] # Idle
    BY DEF Idle


\* The checks of what was shown last while nothing is shown.
LEMMA ShownKept ==
    ASSUME TotalsAddUp, TaxIsNearest, UNCHANGED <<quote, order>>
    PROVE  TotalsAddUp' /\ TaxIsNearest'
    BY DEF TotalsAddUp, TaxIsNearest, Shown

\* One lemma for each action: a request begins ...
LEMMA StepBegin ==
    ASSUME PricesInv, NEW kind \in {"totals", "checkout"}, Begin(kind)
    PROVE  PricesInv'
<1> USE DEF PricesInv
<1>1. /\ req' = [kind |-> kind, base |-> base, priced |-> <<0>>, copied |-> <<0>>,
                 look |-> "price"]
      /\ req' # Idle
    BY IdleIsNone DEF Begin
<1>2. /\ req'.base = base /\ req'.priced = <<0>> /\ req'.copied = <<0>>
      /\ req'.look = "price"
      /\ UNCHANGED <<explicit, base, rate, inverse, quote, order, stale>>
      /\ drifted' = FALSE /\ order = Nothing
    BY <1>1 DEF Begin
<1>3. /\ <<0>> \in Seq(Nat) /\ Len(<<0>>) = 1 /\ <<0>>[1] = 0
      /\ 1 \in 1 .. Len(Lines) + 1
    BY PricesAssumption
<1>4. TypeOK'
  <2>1. req' \in [kind : {"totals", "checkout"}, base : [Variants -> Nat],
                  priced : Seq(Nat), copied : Seq(Nat),
                  look : {"price", "rate", "inverse"}]
      BY <1>1, <1>3 DEF TypeOK
  <2> QED
      BY <1>2, <1>3, <2>1 DEF TypeOK
<1>5. SumsWhole'
  <2>1. Whole(0)
      BY PricingAssumption DEF Whole
  <2> QED
      BY <1>2, <1>3, <2>1 DEF SumsWhole
<1>6. Steady'
  <2>1. Running(<<0>>)
      BY <1>3 DEF Running
  <2>2. Running(<<0>>)'
      BY <1>2, <2>1, SamePrices
  <2> QED
      BY <1>2, <1>3, <2>2 DEF Steady
<1>7. Quoted'
  <2>1. SUFFICES ASSUME quote # Nothing, ~stale PROVE Quoted'
      BY <1>2 DEF Quoted
  <2>2. PICK s \in Seq(Nat) :
            /\ Len(s) = Len(Lines) + 1
            /\ Running(s)
            /\ quote = Breakdown(s[Len(Lines) + 1])
      BY <2>1 DEF Quoted
  <2>3. Running(s)'
      BY <1>2, <2>2, SamePrices
  <2>4. \A i \in 1 .. Len(req'.priced) : req'.priced[i] = s[i]
      BY <1>2, <1>3, <2>2 DEF Running
  <2> QED
      BY <1>2, <2>2, <2>3, <2>4 DEF Quoted
<1>8. Asked' /\ Progress' /\ LinesAddUp' /\ QuoteHonoured'
    BY <1>2 DEF Asked, Progress, LinesAddUp, QuoteHonoured
<1>9. TotalsAddUp' /\ TaxIsNearest'
    BY <1>2, ShownKept
<1> QED
    BY <1>4, <1>5, <1>6, <1>7, <1>8, <1>9

\* The parts of a request in service.
LEMMA ReqParts ==
    ASSUME TypeOK, req # Idle
    PROVE  /\ req = [kind |-> req.kind, base |-> req.base,
                     priced |-> req.priced, copied |-> req.copied,
                     look |-> req.look]
           /\ req.look \in {"price", "rate", "inverse"}
           /\ req.kind \in {"totals", "checkout"}
           /\ req.base \in [Variants -> Nat]
           /\ req.priced \in Seq(Nat) /\ Len(req.priced) \in 1 .. Len(Lines) + 1
           /\ req.copied \in Seq(Nat) /\ Len(req.copied) \in 1 .. Len(Lines) + 1
    BY DEF TypeOK

\* The cart has a line.
LEMMA LinesLength == Len(Lines) \in Nat /\ Len(Lines) > 0
<1> DEFINE S == [variant : Variants, quantity : Nat \ {0}]
<1>1. Lines \in Seq(S) /\ Lines # <<>>
    BY PricesAssumption
<1> HIDE DEF S
<1> QED
    BY <1>1

\* ... a line is priced ...
LEMMA StepPriceLine ==
    ASSUME PricesInv, PriceLine
    PROVE  PricesInv'
<1> USE DEF PricesInv
<1> DEFINE p == req.priced
           k == Len(p)
           unit == Found(req.base, k, req.look)
<1>0. PICK t : t = Add(p, unit)
    OBVIOUS
<1>1. /\ req # Idle /\ k <= Len(Lines) /\ unit # None
      /\ req' = [req EXCEPT !.priced = t, !.look = "price"]
      /\ InWork = k
      /\ UNCHANGED <<explicit, base, rate, inverse, quote, order, drifted, stale>>
    BY <1>0 DEF PriceLine, Unpriced, InWork, Finds
<1>2. k \in 1 .. Len(Lines) /\ p \in Seq(Nat) /\ Len(Lines) \in Nat
    BY <1>1, ReqParts, LinesLength
<1>3. unit \in Nat /\ Whole(unit)
    BY <1>1, <1>2, ReqParts, FoundWhole
<1>4. /\ req' = [kind |-> req.kind, base |-> req.base, priced |-> t,
                 copied |-> req.copied, look |-> "price"]
      /\ req' # Idle
    BY <1>1, ReqParts, IdleIsNone
<1>5. /\ t \in Seq(Nat) /\ Len(t) = k + 1
      /\ \A i \in 1 .. k : t[i] = p[i]
      /\ t[k + 1] = p[k] + unit * Lines[k].quantity
  <2> HIDE DEF unit
  <2> QED
      BY <1>0, <1>2, <1>3, AddLine
<1>6. /\ req'.base = req.base /\ req'.priced = t /\ req'.copied = req.copied
      /\ req.priced = p /\ req'.look = "price"
    BY <1>4
<1>7. Len(req.copied) = 1
  <2>1. Len(req.priced) # Len(Lines) + 1
      BY <1>2
  <2>2. ~(Len(req.copied) > 1)
      BY <1>1, <2>1 DEF SumsWhole
  <2>3. Len(req.copied) \in 1 .. Len(Lines) + 1
      BY <1>1, ReqParts
  <2>4. \A n \in Nat : n >= 1 /\ ~(n > 1) => n = 1
      OBVIOUS
  <2>5. Len(req.copied) \in Nat /\ Len(req.copied) >= 1
      BY <2>3, <1>2
  <2> QED
      BY ONLY <2>2, <2>4, <2>5, Zenon
<1>8. ASSUME ~drifted
      PROVE  req.base = base /\ unit = PriceNow(base, k) /\ Running(p)
  <2>1. req.base = base /\ Running(p)
      BY <1>1, <1>8 DEF Steady
  <2>2. /\ req.look # "price" => Found(req.base, k, "price") = None
        /\ req.look = "inverse" => Found(req.base, k, "rate") = None
      BY <1>1, <1>8 DEF Asked
  <2>3. unit = PriceNow(req.base, k)
      BY <1>1, <1>2, <2>2, ReqParts, FoundIsNow
  <2> QED
      BY <2>1, <2>3
<1> HIDE DEF unit
<1>9. TypeOK'
  <2>1. req' \in [kind : {"totals", "checkout"}, base : [Variants -> Nat],
                  priced : Seq(Nat), copied : Seq(Nat),
                  look : {"price", "rate", "inverse"}]
      BY <1>1, <1>4, <1>5, ReqParts
  <2>2. Len(t) \in 1 .. Len(Lines) + 1
      BY <1>2, <1>5
  <2> QED
      BY <1>1, <1>6, <2>1, <2>2, ReqParts DEF TypeOK
<1>10. SumsWhole'
  <2>1. Whole(p[k]) /\ p[k] \in Nat
      BY <1>1, <1>2 DEF SumsWhole
  <2>2. Lines[k].quantity \in Nat
      BY <1>2, LinesType
  <2>3. Whole(t[k + 1])
      BY <1>3, <1>5, <2>1, <2>2, WholeSum
  <2>4. ASSUME NEW i \in 1 .. Len(t) PROVE Whole(t[i])
    <3>1. i \in 1 .. k \/ i = k + 1
        BY <1>2, <1>5
    <3> QED
        BY <1>1, <1>5, <2>3, <3>1 DEF SumsWhole
  <2>5. t[1] = 0 /\ req.copied[1] = 0
    <3>1. p[1] = 0 /\ req.copied[1] = 0
        BY <1>1 DEF SumsWhole
    <3>2. 1 \in 1 .. k
        BY <1>2
    <3> QED
        BY <1>5, <3>1, <3>2
  <2> QED
      BY <1>6, <1>7, <2>4, <2>5 DEF SumsWhole
<1>11. Steady'
  <2>1. SUFFICES ASSUME ~drifted PROVE Steady'
      BY <1>1 DEF Steady
  <2>2. Running(t)
    <3>1. unit = PriceNow(base, k) /\ Running(p) /\ PriceNow(base, k) # None
        BY <1>1, <1>8, <2>1
    <3>2. Running(Add(p, PriceNow(base, k)))
        BY <1>2, <3>1, RunningAdd
    <3> QED
        BY <1>0, <3>1, <3>2
  <2>3. Running(t)'
      BY <1>1, <2>2, SamePrices
  <2>4. \A i \in 1 .. Len(req.copied) : i <= Len(t) /\ req.copied[i] = t[i]
    <3>1. p[1] = 0 /\ req.copied[1] = 0
        BY <1>1 DEF SumsWhole
    <3>2. t[1] = p[1] /\ 1 <= Len(t)
        BY <1>2, <1>5
    <3> QED
        BY <1>7, <3>1, <3>2
  <2> QED
      BY <1>1, <1>6, <1>8, <2>1, <2>3, <2>4 DEF Steady
<1>12. Quoted'
  <2>1. SUFFICES ASSUME quote # Nothing, ~stale PROVE Quoted'
      BY <1>1 DEF Quoted
  <2>2. PICK s \in Seq(Nat) :
            /\ Len(s) = Len(Lines) + 1
            /\ Running(s)
            /\ quote = Breakdown(s[Len(Lines) + 1])
            /\ \A i \in 1 .. k : p[i] = s[i]
      BY <1>1, <2>1 DEF Quoted
  <2>3. unit = PriceNow(base, k)
      BY <1>8, <2>1 DEF Progress
  <2>4. s[k + 1] = s[k] + unit * Lines[k].quantity
      BY <1>2, <2>2, <2>3 DEF Running
  <2>5. ASSUME NEW i \in 1 .. Len(t) PROVE t[i] = s[i]
    <3>1. i \in 1 .. k \/ i = k + 1
        BY <1>2, <1>5
    <3>2. CASE i \in 1 .. k
        BY <1>5, <2>2, <3>2
    <3>3. CASE i = k + 1
      <4>1. k \in 1 .. k
          BY <1>2
      <4>2. p[k] = s[k]
          BY <2>2, <4>1
      <4> QED
          BY <1>5, <2>4, <3>3, <4>2
    <3> QED
        BY <3>1, <3>2, <3>3
  <2>6. Running(s)'
      BY <1>1, <2>2, SamePrices
  <2> QED
    <3>1. quote' = Breakdown(s[Len(Lines) + 1])
        BY <1>1, <2>2
    <3>2. \A i \in 1 .. Len(req'.priced) : req'.priced[i] = s[i]
        BY <1>6, <2>5
    <3> QED
        BY <2>2, <2>6, <3>1, <3>2 DEF Quoted
<1>13. Asked' /\ Progress' /\ LinesAddUp' /\ QuoteHonoured'
    BY <1>1, <1>6 DEF Asked, Progress, LinesAddUp, QuoteHonoured
<1>14. TotalsAddUp' /\ TaxIsNearest'
    BY <1>1, ShownKept
<1> QED
    BY <1>9, <1>10, <1>11, <1>12, <1>13, <1>14


\* ... a line is copied to the order ...
LEMMA StepCopyLine ==
    ASSUME PricesInv, CopyLine
    PROVE  PricesInv'
<1> USE DEF PricesInv
<1> DEFINE c == req.copied
           k == Len(c)
           unit == Found(req.base, k, req.look)
<1>0. PICK t : t = Add(c, unit)
    OBVIOUS
<1>1. /\ req # Idle /\ k <= Len(Lines) /\ unit # None
      /\ Len(req.priced) > Len(Lines)
      /\ req' = [req EXCEPT !.copied = t, !.look = "price"]
      /\ UNCHANGED <<explicit, base, rate, inverse, quote, order, drifted, stale>>
  <2>1. InWork = k
    <3>1. ~Unpriced
        BY ReqParts, LinesLength DEF CopyLine, Copying, Priced, Unpriced
    <3> QED
        BY <3>1 DEF InWork
  <2> QED
      BY <1>0, <2>1 DEF CopyLine, Copying, Priced, Finds
<1>2. /\ k \in 1 .. Len(Lines) /\ c \in Seq(Nat) /\ Len(Lines) \in Nat
      /\ InWork = k
    BY <1>1, ReqParts, LinesLength DEF InWork, Unpriced
<1>3. unit \in Nat
    BY <1>1, <1>2, ReqParts, FoundWhole
<1>4. /\ req' = [kind |-> req.kind, base |-> req.base, priced |-> req.priced,
                 copied |-> t, look |-> "price"]
      /\ req' # Idle
    BY <1>1, ReqParts, IdleIsNone
<1>5. /\ t \in Seq(Nat) /\ Len(t) = k + 1
      /\ \A i \in 1 .. k : t[i] = c[i]
      /\ t[k + 1] = c[k] + unit * Lines[k].quantity
  <2> HIDE DEF unit
  <2> QED
      BY <1>0, <1>2, <1>3, AddLine
<1>6. /\ req'.base = req.base /\ req'.priced = req.priced /\ req'.copied = t
      /\ req.copied = c /\ req'.look = "price"
    BY <1>4
<1>7. Len(req.priced) = Len(Lines) + 1
    BY <1>1, <1>2, ReqParts
<1>8. ASSUME ~drifted
      PROVE  unit = PriceNow(base, k)
  <2>1. req.base = base
      BY <1>1, <1>8 DEF Steady
  <2>2. /\ req.look # "price" => Found(req.base, k, "price") = None
        /\ req.look = "inverse" => Found(req.base, k, "rate") = None
      BY <1>1, <1>2, <1>8 DEF Asked
  <2>3. unit = PriceNow(req.base, k)
      BY <1>1, <1>2, <2>2, ReqParts, FoundIsNow
  <2> QED
      BY <2>1, <2>3
<1> HIDE DEF unit
<1>14. TypeOK'
  <2>1. req' \in [kind : {"totals", "checkout"}, base : [Variants -> Nat],
                  priced : Seq(Nat), copied : Seq(Nat),
                  look : {"price", "rate", "inverse"}]
      BY <1>1, <1>4, <1>5, ReqParts
  <2>2. Len(t) \in 1 .. Len(Lines) + 1
      BY <1>2, <1>5
  <2> QED
      BY <1>1, <1>6, <2>1, <2>2, ReqParts DEF TypeOK
<1>9. SumsWhole'
  <2>1. req.priced[1] = 0 /\ c[1] = 0
      BY <1>1 DEF SumsWhole
  <2>2. t[1] = 0
    <3>1. 1 \in 1 .. k
        BY <1>2
    <3> QED
        BY <1>5, <2>1, <3>1
  <2>3. \A i \in 1 .. Len(req.priced) : Whole(req.priced[i])
      BY <1>1 DEF SumsWhole
  <2> QED
      BY <1>6, <1>7, <2>1, <2>2, <2>3 DEF SumsWhole
<1>10. Steady'
  <2>1. SUFFICES ASSUME ~drifted PROVE Steady'
      BY <1>1 DEF Steady
  <2>2. /\ req.base = base /\ Running(req.priced)
        /\ \A i \in 1 .. k : c[i] = req.priced[i]
      BY <1>1, <2>1 DEF Steady
  <2>3. req.priced[k + 1] = req.priced[k] + unit * Lines[k].quantity
    <3>1. unit = PriceNow(base, k)
        BY <1>8, <2>1
    <3> QED
        BY <1>2, <1>7, <2>2, <3>1 DEF Running
  <2>4. ASSUME NEW i \in 1 .. Len(t)
        PROVE  i <= Len(req.priced) /\ t[i] = req.priced[i]
    <3>1. i \in 1 .. k \/ i = k + 1
        BY <1>2, <1>5
    <3>2. t[i] = req.priced[i]
      <4>1. CASE i \in 1 .. k
          BY <1>5, <2>2, <4>1
      <4>2. CASE i = k + 1
        <5>1. k \in 1 .. k
            BY <1>2
        <5>2. c[k] = req.priced[k]
            BY <2>2, <5>1
        <5> QED
            BY <1>5, <2>3, <4>2, <5>2
      <4> QED
          BY <3>1, <4>1, <4>2
    <3>3. i <= Len(req.priced)
        BY <1>2, <1>5, <1>7
    <3> QED
        BY <3>2, <3>3
  <2>5. PICK p : p = req.priced
      OBVIOUS
  <2>6. Running(p)'
      BY <1>1, <2>2, <2>5, SamePrices
  <2>7. Running(req.priced)'
      BY <1>6, <2>5, <2>6
  <2> QED
      BY <1>1, <1>6, <2>2, <2>4, <2>7 DEF Steady
<1>11. Quoted'
  <2>1. SUFFICES ASSUME quote # Nothing, ~stale PROVE Quoted'
      BY <1>1 DEF Quoted
  <2>2. PICK s \in Seq(Nat) :
            /\ Len(s) = Len(Lines) + 1
            /\ Running(s)
            /\ quote = Breakdown(s[Len(Lines) + 1])
            /\ \A i \in 1 .. Len(req.priced) : req.priced[i] = s[i]
      BY <1>1, <2>1 DEF Quoted
  <2>3. Running(s)'
      BY <1>1, <2>2, SamePrices
  <2> QED
      BY <1>1, <1>6, <2>2, <2>3 DEF Quoted
<1>12. Asked' /\ Progress' /\ LinesAddUp' /\ QuoteHonoured'
    BY <1>1, <1>6 DEF Asked, Progress, LinesAddUp, QuoteHonoured
<1>13. TotalsAddUp' /\ TaxIsNearest'
    BY <1>1, ShownKept
<1> QED
    BY <1>9, <1>10, <1>11, <1>12, <1>13, <1>14

\* What the totals of a priced request are.
LEMMA PricedSum ==
    ASSUME TypeOK, SumsWhole, Priced
    PROVE  /\ Len(req.priced) = Len(Lines) + 1
           /\ Total(req.priced) = req.priced[Len(Lines) + 1]
           /\ Total(req.priced) \in Nat /\ Whole(Total(req.priced))
<1>1. /\ req # Idle /\ Len(req.priced) = Len(Lines) + 1
      /\ req.priced \in Seq(Nat)
    BY ReqParts, LinesLength DEF Priced
<1>2. Total(req.priced) = req.priced[Len(Lines) + 1]
    BY <1>1 DEF Total
<1>3. Len(Lines) + 1 \in 1 .. Len(req.priced)
    BY <1>1, LinesLength
<1> QED
    BY <1>1, <1>2, <1>3 DEF SumsWhole

\* Both checks hold of totals once they are a Breakdown.
GoodTotals(t) ==
    /\ t.total = t.subtotal + t.shippingFee + t.tax
    /\ 2 * (t.tax * TaxScale - (t.subtotal + t.shippingFee) * TaxRate)
          \in (1 - Quantum * TaxScale) .. (Quantum * TaxScale)

\* The two invariants, as one predicate of what was shown.
LEMMA ShownGood ==
    (\A t \in Shown : GoodTotals(t)) <=> TotalsAddUp /\ TaxIsNearest
    BY DEF GoodTotals, TotalsAddUp, TaxIsNearest

\* It holds of every breakdown.
LEMMA BreakdownGood ==
    ASSUME NEW sum \in Nat
    PROVE  /\ Breakdown(sum) \in Totals /\ Breakdown(sum) # Nothing
           /\ GoodTotals(Breakdown(sum))
<1>1. Breakdown(sum) # Nothing
    BY DEF Breakdown, Nothing
<1> QED
    BY <1>1, BreakdownParts DEF GoodTotals

\* ... totals are shown ...
LEMMA StepShowTotals ==
    ASSUME PricesInv, ShowTotals
    PROVE  PricesInv'
<1> USE DEF PricesInv
<1>0. PICK p : p = req.priced
    OBVIOUS
<1>1. /\ Priced /\ req # Idle /\ req' = Idle /\ stale' = drifted
      /\ quote' = Breakdown(Total(p))
      /\ UNCHANGED <<explicit, base, rate, inverse, order, drifted>>
    BY <1>0 DEF ShowTotals, Priced
<1>2. order = Nothing
    BY <1>1 DEF Progress
<1>3. /\ Len(p) = Len(Lines) + 1 /\ Total(p) = p[Len(Lines) + 1]
      /\ Total(p) \in Nat /\ p \in Seq(Nat)
    BY <1>0, <1>1, PricedSum, ReqParts
<1>4. quote' \in Totals /\ quote' # Nothing /\ GoodTotals(quote')
    BY <1>1, <1>3, BreakdownGood
<1>5. TypeOK'
    BY <1>1, <1>4 DEF TypeOK
<1>6. /\ SumsWhole' /\ Steady' /\ Asked' /\ LinesAddUp' /\ QuoteHonoured'
      /\ Progress'
    BY <1>1, <1>2 DEF SumsWhole, Steady, Asked, LinesAddUp, QuoteHonoured, Progress
<1>7. Quoted'
  <2>1. SUFFICES ASSUME ~drifted PROVE Quoted'
      BY <1>1 DEF Quoted
  <2>2. Running(p)
      BY <1>0, <1>1, <2>1 DEF Steady
  <2>3. Running(p)'
      BY <1>1, <2>2, SamePrices
  <2> QED
      BY <1>1, <1>3, <2>3 DEF Quoted
<1>8. TotalsAddUp' /\ TaxIsNearest'
  <2>1. \A t \in Shown' : GoodTotals(t)
      BY <1>1, <1>2, <1>4 DEF Shown
  <2>2. (\A t \in Shown : GoodTotals(t))'
      BY <2>1 DEF GoodTotals
  <2> QED
      BY <2>2, ShownGood, PTL
<1> QED
    BY <1>5, <1>6, <1>7, <1>8

\* ... an order is placed ...
LEMMA StepPlaceOrder ==
    ASSUME PricesInv, PlaceOrder
    PROVE  PricesInv'
<1> USE DEF PricesInv
<1>0. PICK p : p = req.priced
    OBVIOUS
<1>1. /\ Priced /\ req # Idle /\ req' = Idle
      /\ Len(req.copied) > Len(Lines)
      /\ order' = [totals |-> Breakdown(Total(p)),
                   lineTotals |-> Total(req.copied)]
      /\ UNCHANGED <<explicit, base, rate, inverse, quote, drifted, stale>>
    BY <1>0 DEF PlaceOrder, Priced
<1>2. /\ Len(p) = Len(Lines) + 1 /\ Total(p) = p[Len(Lines) + 1]
      /\ Total(p) \in Nat /\ Whole(Total(p))
    BY <1>0, <1>1, PricedSum
<1>3. /\ Len(req.copied) = Len(Lines) + 1
      /\ Total(req.copied) = req.copied[Len(Lines) + 1]
      /\ Total(req.copied) \in Nat
  <2>1. /\ req.copied \in Seq(Nat) /\ Len(req.copied) = Len(Lines) + 1
      BY <1>1, ReqParts, LinesLength
  <2>2. Total(req.copied) = req.copied[Len(Lines) + 1]
      BY <2>1 DEF Total
  <2>3. Len(Lines) + 1 \in 1 .. Len(req.copied)
      BY <2>1, LinesLength
  <2> QED
      BY <2>1, <2>2, <2>3
<1>4. order'.totals = Breakdown(Total(p)) /\ order'.lineTotals = Total(req.copied)
    BY <1>1
<1>5. order'.totals \in Totals /\ GoodTotals(order'.totals)
    BY <1>2, <1>4, BreakdownGood
<1>6. TypeOK'
    BY <1>1, <1>3, <1>4, <1>5 DEF TypeOK
<1>7. SumsWhole' /\ Steady' /\ Asked' /\ Progress'
    BY <1>1 DEF SumsWhole, Steady, Asked, Progress
<1>8. Quoted'
  <2>1. SUFFICES ASSUME quote # Nothing, ~stale PROVE Quoted'
      BY <1>1 DEF Quoted
  <2>2. PICK s \in Seq(Nat) :
            /\ Len(s) = Len(Lines) + 1
            /\ Running(s)
            /\ quote = Breakdown(s[Len(Lines) + 1])
      BY <2>1 DEF Quoted
  <2>3. Running(s)'
      BY <1>1, <2>2, SamePrices
  <2> QED
      BY <1>1, <2>2, <2>3 DEF Quoted
<1>9. LinesAddUp'
  <2>1. SUFFICES ASSUME ~drifted PROVE LinesAddUp'
      BY <1>1 DEF LinesAddUp
  <2>2. Len(Lines) + 1 \in 1 .. Len(req.copied)
      BY <1>3, LinesLength
  <2>3. Total(req.copied) = Total(p)
      BY <1>0, <1>1, <1>2, <1>3, <2>1, <2>2 DEF Steady
  <2>4. Breakdown(Total(p)).subtotal = Total(p)
      BY <1>2, BreakdownParts
  <2> QED
      BY <1>4, <2>3, <2>4 DEF LinesAddUp
<1>10. QuoteHonoured'
  <2>1. SUFFICES ASSUME quote # Nothing, ~stale PROVE QuoteHonoured'
      BY <1>1 DEF QuoteHonoured
  <2>2. PICK s \in Seq(Nat) :
            /\ quote = Breakdown(s[Len(Lines) + 1])
            /\ \A i \in 1 .. Len(p) : p[i] = s[i]
      BY <1>0, <1>1, <2>1 DEF Quoted
  <2>3. Len(Lines) + 1 \in 1 .. Len(p)
      BY <1>2, LinesLength
  <2>4. quote = Breakdown(Total(p))
      BY <1>2, <2>2, <2>3
  <2> QED
      BY <1>1, <1>4, <2>4 DEF QuoteHonoured
<1>11. TotalsAddUp' /\ TaxIsNearest'
  <2>1. \A t \in Shown' : GoodTotals(t)
    <3>1. \A t \in Shown : GoodTotals(t)
        BY ShownGood
    <3>2. ASSUME NEW t \in Shown' PROVE t \in Shown \/ t = order'.totals
        BY <1>1 DEF Shown
    <3> QED
        BY <1>5, <3>1, <3>2
  <2>2. (\A t \in Shown : GoodTotals(t))'
      BY <2>1 DEF GoodTotals
  <2> QED
      BY <2>2, ShownGood, PTL
<1> QED
    BY <1>6, <1>7, <1>8, <1>9, <1>10, <1>11


\* ... a query finds nothing and the next one is made ...
LEMMA StepLookOn ==
    ASSUME PricesInv, LookOn
    PROVE  PricesInv'
<1> USE DEF PricesInv
<1>0. PICK p, c, b : p = req.priced /\ c = req.copied /\ b = req.base
    OBVIOUS
<1>1. PICK next \in {"rate", "inverse"} :
          /\ req' = [req EXCEPT !.look = next]
          /\ next = "inverse" => req.look = "rate"
          /\ next = "rate" => req.look = "price"
    BY ReqParts DEF LookOn, Unpriced, Copying, Priced
<1>2. /\ req # Idle /\ Found(req.base, InWork, req.look) = None
      /\ UNCHANGED <<explicit, base, rate, inverse, quote, order, drifted, stale>>
    BY DEF LookOn, Unpriced, Copying, Priced, Finds
<1>3. /\ req' = [kind |-> req.kind, base |-> b, priced |-> p, copied |-> c,
                 look |-> next]
      /\ req' # Idle
    BY <1>0, <1>1, <1>2, ReqParts, IdleIsNone
<1>4. /\ req'.base = b /\ req'.priced = p /\ req'.copied = c
      /\ req'.look = next
    BY <1>3
<1>5. TypeOK'
  <2>1. req' \in [kind : {"totals", "checkout"}, base : [Variants -> Nat],
                  priced : Seq(Nat), copied : Seq(Nat),
                  look : {"price", "rate", "inverse"}]
      BY <1>0, <1>2, <1>3, ReqParts
  <2> QED
      BY <1>0, <1>2, <1>4, <2>1, ReqParts DEF TypeOK
<1>6. SumsWhole'
    BY <1>0, <1>2, <1>4 DEF SumsWhole
<1>7. Steady'
  <2>1. SUFFICES ASSUME ~drifted PROVE Steady'
      BY <1>2 DEF Steady
  <2>2. Running(p)'
      BY <1>0, <1>2, <2>1, SamePrices DEF Steady
  <2> QED
      BY <1>0, <1>2, <1>4, <2>1, <2>2 DEF Steady
<1>8. Asked'
  <2>1. SUFFICES ASSUME ~drifted PROVE Asked'
      BY <1>2 DEF Asked
  <2>2. PICK i : i = InWork
      OBVIOUS
  <2>3. InWork' = i
      BY <1>0, <1>2, <1>3, <1>4, <2>2 DEF InWork, Unpriced
  <2>4. /\ Found(b, i, "price")' = Found(b, i, "price")
        /\ Found(b, i, "rate")' = Found(b, i, "rate")
      BY <1>2 DEF Found
  <2>5. /\ Found(b, i, "price") = None
        /\ next = "inverse" => Found(b, i, "rate") = None
    <3>1. CASE next = "rate"
        BY <1>0, <1>1, <1>2, <2>2, <3>1
    <3>2. CASE next = "inverse"
        BY <1>0, <1>1, <1>2, <2>1, <2>2, <3>2 DEF Asked
    <3> QED
        BY <3>1, <3>2
  <2> QED
      BY <1>4, <2>3, <2>4, <2>5 DEF Asked
<1>9. Quoted'
  <2>1. SUFFICES ASSUME quote # Nothing, ~stale PROVE Quoted'
      BY <1>2 DEF Quoted
  <2>2. PICK s \in Seq(Nat) :
            /\ Len(s) = Len(Lines) + 1
            /\ Running(s)
            /\ quote = Breakdown(s[Len(Lines) + 1])
            /\ \A i \in 1 .. Len(p) : p[i] = s[i]
      BY <1>0, <1>2, <2>1 DEF Quoted
  <2>3. Running(s)'
      BY <1>2, <2>2, SamePrices
  <2> QED
      BY <1>2, <1>4, <2>2, <2>3 DEF Quoted
<1>10. Progress' /\ LinesAddUp' /\ QuoteHonoured'
    BY <1>2 DEF Progress, LinesAddUp, QuoteHonoured
<1>11. TotalsAddUp' /\ TaxIsNearest'
    BY <1>2, ShownKept
<1> QED
    BY <1>5, <1>6, <1>7, <1>8, <1>9, <1>10, <1>11

\* ... there is no rate ...
LEMMA StepNoRate ==
    ASSUME PricesInv, NoRate
    PROVE  PricesInv'
<1> USE DEF PricesInv
<1>1. /\ req' = Idle
      /\ UNCHANGED <<explicit, base, rate, inverse, quote, order, drifted, stale>>
    BY DEF NoRate
<1>2. /\ TypeOK' /\ SumsWhole' /\ Steady' /\ Asked' /\ Progress'
      /\ LinesAddUp' /\ QuoteHonoured'
    BY <1>1 DEF TypeOK, SumsWhole, Steady, Asked, Progress, LinesAddUp, QuoteHonoured
<1>3. Quoted'
  <2>1. SUFFICES ASSUME quote # Nothing, ~stale PROVE Quoted'
      BY <1>1 DEF Quoted
  <2>2. PICK s \in Seq(Nat) :
            /\ Len(s) = Len(Lines) + 1
            /\ Running(s)
            /\ quote = Breakdown(s[Len(Lines) + 1])
      BY <2>1 DEF Quoted
  <2>3. Running(s)'
      BY <1>1, <2>2, SamePrices
  <2> QED
      BY <1>1, <2>2, <2>3 DEF Quoted
<1>4. TotalsAddUp' /\ TaxIsNearest'
    BY <1>1, ShownKept
<1> QED
    BY <1>2, <1>3, <1>4

\* A price or a rate changes.
LEMMA StepMoved ==
    ASSUME PricesInv, Moved,
           explicit' \in [Variants -> Nat \union {None}],
           base' \in [Variants -> Nat],
           rate' \in Nat \union {None}, inverse' \in Nat \union {None}
    PROVE  PricesInv'
<1> USE DEF PricesInv
<1>1. drifted' = TRUE /\ stale' = TRUE /\ UNCHANGED <<req, quote, order>>
    BY DEF Moved
<1>2. TypeOK'
    BY <1>1 DEF TypeOK
<1>3. /\ SumsWhole' /\ Steady' /\ Asked' /\ Quoted' /\ Progress'
      /\ LinesAddUp' /\ QuoteHonoured'
    BY <1>1 DEF SumsWhole, Steady, Asked, Quoted, Progress, LinesAddUp, QuoteHonoured
<1>4. TotalsAddUp' /\ TaxIsNearest'
    BY <1>1, ShownKept
<1> QED
    BY <1>2, <1>3, <1>4

\* ... and nothing changes.
LEMMA StepStutter ==
    ASSUME PricesInv, UNCHANGED vars
    PROVE  PricesInv'
<1> USE DEF PricesInv, vars
<1>1. TypeOK' /\ SumsWhole' /\ Asked' /\ Progress' /\ LinesAddUp' /\ QuoteHonoured'
    BY DEF TypeOK, SumsWhole, Asked, Found, InWork, Unpriced, Progress, LinesAddUp,
           QuoteHonoured
<1>2. Steady'
  <2>1. PICK p : p = req.priced
      OBVIOUS
  <2>2. Running(p)' <=> Running(p)
      BY SamePrices
  <2>3. Running(req.priced)' <=> Running(req.priced)
      BY <2>1, <2>2
  <2> QED
      BY <2>3 DEF Steady
<1>3. Quoted'
  <2>1. SUFFICES ASSUME quote # Nothing, ~stale PROVE Quoted'
      BY DEF Quoted
  <2>2. PICK s \in Seq(Nat) :
            /\ Len(s) = Len(Lines) + 1
            /\ Running(s)
            /\ quote = Breakdown(s[Len(Lines) + 1])
            /\ req # Idle =>
                  \A i \in 1 .. Len(req.priced) : req.priced[i] = s[i]
      BY <2>1 DEF Quoted
  <2>3. Running(s)'
      BY <2>2, SamePrices
  <2> QED
      BY <2>2, <2>3 DEF Quoted
<1>4. TotalsAddUp' /\ TaxIsNearest'
    BY ShownKept
<1> QED
    BY <1>1, <1>2, <1>3, <1>4

\* Every step keeps the invariant.
LEMMA StepInv == PricesInv /\ [Next]_vars => PricesInv'
<1> SUFFICES ASSUME PricesInv, [Next]_vars PROVE PricesInv'
    OBVIOUS
<1>t. /\ explicit \in [Variants -> Nat \union {None}]
      /\ base \in [Variants -> Nat]
      /\ rate \in Nat \union {None} /\ inverse \in Nat \union {None}
    BY DEF PricesInv, TypeOK
<1>1. CASE Begin("totals") \/ Begin("checkout")
    BY <1>1, StepBegin
<1>2. CASE PriceLine
    BY <1>2, StepPriceLine
<1>3. CASE ShowTotals
    BY <1>3, StepShowTotals
<1>4. CASE CopyLine
    BY <1>4, StepCopyLine
<1>5. CASE PlaceOrder
    BY <1>5, StepPlaceOrder
<1>6. CASE NoRate
    BY <1>6, StepNoRate
<1>7. ASSUME NEW v \in Variants, NEW amount \in Amounts, SetPrice(v, amount)
      PROVE  PricesInv'
  <2>1. amount \in Nat
      BY PricesAssumption
  <2> QED
      BY <1>7, <1>t, <2>1, StepMoved DEF SetPrice
<1>8. ASSUME NEW v \in Variants, NEW amount \in Amounts, SetBase(v, amount)
      PROVE  PricesInv'
  <2>1. amount \in Nat
      BY PricesAssumption
  <2> QED
      BY <1>8, <1>t, <2>1, StepMoved DEF SetBase
<1>9. ASSUME NEW r \in Rates, SetRate(r)
      PROVE  PricesInv'
  <2>1. r \in Nat
      BY PricesAssumption
  <2> QED
      BY <1>9, <1>t, <2>1, StepMoved DEF SetRate
<1>10. CASE UNCHANGED vars
    BY <1>10, StepStutter
<1>11. CASE LookOn
    BY <1>11, StepLookOn
<1> QED
    BY <1>1, <1>2, <1>3, <1>4, <1>5, <1>6, <1>7, <1>8, <1>9, <1>10, <1>11 DEF Next

-----------------------------------------------------------------------------

\* The inductive invariant.
THEOREM PricesInvariant == Spec => []PricesInv
    BY InitInv, StepInv, PTL DEF Spec

\* The variables of CheckoutPrices keep their types: no sum ever misses a
\* price, whatever rate is missing.
THEOREM PricesTypeCorrect == Spec => []TypeOK
<1>1. PricesInv => TypeOK
    BY DEF PricesInv
<1> QED
    BY <1>1, PricesInvariant, PTL

\* Whatever the precision of the currency and the rate of the tax, the four
\* amounts that calculate returns add up.
THEOREM RoundedTotalsAddUp == Spec => []TotalsAddUp
<1>1. PricesInv => TotalsAddUp
    BY DEF PricesInv
<1> QED
    BY <1>1, PricesInvariant, PTL

\* The tax that calculate returns is the nearest amount there is to the
\* exact tax, halves going up.
THEOREM TaxRoundedOnce == Spec => []TaxIsNearest
<1>1. PricesInv => TaxIsNearest
    BY DEF PricesInv
<1> QED
    BY <1>1, PricesInvariant, PTL

\* What calculate returns is right in both respects, for every precision,
\* rate and tax.
THEOREM TotalsRight == Spec => []TotalsAreRight
<1>1. TotalsAddUp /\ TaxIsNearest => TotalsAreRight
    BY DEF TotalsAreRight
<1> QED
    BY <1>1, RoundedTotalsAddUp, TaxRoundedOnce, PTL

\* checkout prices a basket twice, and the lines of the order add up to its
\* subtotal unless a price or rate changed between the two.
THEOREM OrderLinesAddUp == Spec => []LinesAddUp
<1>1. PricesInv => LinesAddUp
    BY DEF PricesInv
<1> QED
    BY <1>1, PricesInvariant, PTL

\* The cart page and checkout price a basket apart, and come to the same
\* totals unless a price or rate changed since.
THEOREM OrderCostsItsQuote == Spec => []QuoteHonoured
<1>1. PricesInv => QuoteHonoured
    BY DEF PricesInv
<1> QED
    BY <1>1, PricesInvariant, PTL

=============================================================================
