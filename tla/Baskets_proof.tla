--------------------------- MODULE Baskets_proof ---------------------------
(***************************************************************************)
(* Facts about the units of a basket: how many they are, line by line, and *)
(* that no two orders share one.                                           *)
(***************************************************************************)
EXTENDS Baskets, FiniteSetTheorems, FunctionTheorems, TLAPS

\* A basket is a nonempty sequence of lines of a positive number of units.
LEMMA LinesType ==
    ASSUME NEW k \in Keys
    PROVE  /\ Lines(k) \in Seq(Line)
           /\ Len(Lines(k)) \in Nat
           /\ \A i \in 1 .. Len(Lines(k)) :
                 /\ Lines(k)[i].variant \in Variants
                 /\ Lines(k)[i].quantity \in Nat \ {0}
<1>1. Lines(k) \in Seq(Line)
  BY BasketAssumption DEF Lines
<1>2. Len(Lines(k)) \in Nat /\ \A i \in 1 .. Len(Lines(k)) : Lines(k)[i] \in Line
  BY <1>1
<1> QED
  BY <1>1, <1>2 DEF Line

\* A line stands for as many units as its quantity says.
LEMMA UnitsOfLineCount ==
    ASSUME NEW k \in Keys, NEW i \in 1 .. Len(Lines(k))
    PROVE  /\ IsFiniteSet(UnitsOfLine(k, i))
           /\ Cardinality(UnitsOfLine(k, i)) = Lines(k)[i].quantity
<1> DEFINE q == Lines(k)[i].quantity
<1>1. q \in Nat \ {0}
  BY LinesType
<1> HIDE DEF q
<1>2. IsFiniteSet(1 .. q) /\ Cardinality(1 .. q) = q
  <2>1. Cardinality(1 .. q) = IF 1 > q THEN 0 ELSE q - 1 + 1
    BY <1>1, FS_Interval
  <2>2. IsFiniteSet(1 .. q)
    BY <1>1, FS_Interval
  <2> QED
    BY <1>1, <2>1, <2>2
<1>3. IsFiniteSet({<<k, i>>}) /\ Cardinality({<<k, i>>}) = 1
  BY FS_Singleton
<1>4. /\ IsFiniteSet({<<k, i>>} \X (1 .. q))
      /\ Cardinality({<<k, i>>} \X (1 .. q)) =
             Cardinality({<<k, i>>}) * Cardinality(1 .. q)
  <2> DEFINE S == {<<k, i>>}
             T == 1 .. q
  <2>1. IsFiniteSet(S) /\ IsFiniteSet(T)
    BY <1>2, <1>3
  <2> HIDE DEF S, T
  <2>2. IsFiniteSet(S \X T) /\ Cardinality(S \X T) = Cardinality(S) * Cardinality(T)
    BY <2>1, FS_Product
  <2> QED
    BY <2>2 DEF S, T
<1>5. Cardinality({<<k, i>>} \X (1 .. q)) = q
  BY <1>1, <1>2, <1>3, <1>4
<1> QED
  BY <1>4, <1>5 DEF UnitsOfLine, q

\* Some lines of a basket hold finitely many units of a variant.
LEMMA UnitsFinite ==
    ASSUME NEW k \in Keys, NEW v, NEW J \in SUBSET (1 .. Len(Lines(k)))
    PROVE  IsFiniteSet(UnitsIn(k, v, J))
<1> DEFINE I == {j \in J : Lines(k)[j].variant = v}
           T == {UnitsOfLine(k, i) : i \in I}
           f == [i \in I |-> UnitsOfLine(k, i)]
<1>1. Len(Lines(k)) \in Nat
  BY LinesType
<1>2. IsFiniteSet(1 .. Len(Lines(k)))
  BY <1>1, FS_Interval
<1>3. IsFiniteSet(I)
  BY <1>2, FS_Subset
<1>4. f \in Surjection(I, T)
  <2>1. f \in [I -> T] /\ \A t \in T : \E i \in I : f[i] = t
    OBVIOUS
  <2> QED
    BY <2>1, Fun_IsSurj
<1>5. IsFiniteSet(T)
  BY <1>3, <1>4, FS_Surjection
<1>6. \A t \in T : IsFiniteSet(t)
  BY <1>1, UnitsOfLineCount
<1>7. IsFiniteSet(UNION T)
  BY <1>5, <1>6, FS_UNION
<1> QED
  BY <1>7 DEF UnitsIn

\* No lines have no units; the units of some lines are among those of the
\* basket; a unit tells the key it belongs to.
LEMMA UnitsBasics ==
    ASSUME NEW k \in Keys, NEW v, NEW J \in SUBSET (1 .. Len(Lines(k)))
    PROVE  /\ UnitsIn(k, v, {}) = {}
           /\ UnitsIn(k, v, J) \subseteq Units(k, v)
           /\ IsFiniteSet(Units(k, v))
           /\ \A u \in Units(k, v) : u[1][1] = k
<1>1. UnitsIn(k, v, {}) = {}
  BY DEF UnitsIn
<1>2. UnitsIn(k, v, J) \subseteq Units(k, v)
  BY DEF UnitsIn, Units
<1>3. IsFiniteSet(Units(k, v))
  BY UnitsFinite DEF Units
<1>4. \A u \in Units(k, v) : u[1][1] = k
  BY DEF Units, UnitsIn, UnitsOfLine
<1> QED
  BY <1>1, <1>2, <1>3, <1>4

\* One more line adds its quantity to the units of its variant, and nothing
\* to those of any other.
LEMMA UnitsNextLine ==
    ASSUME NEW k \in Keys, NEW v, NEW J \in SUBSET (1 .. Len(Lines(k))),
           NEW n \in (1 .. Len(Lines(k))) \ J
    PROVE  Cardinality(UnitsIn(k, v, J \union {n})) =
               Cardinality(UnitsIn(k, v, J)) +
               (IF Lines(k)[n].variant = v THEN Lines(k)[n].quantity ELSE 0)
<1> DEFINE before == UnitsIn(k, v, J)
           here == UnitsOfLine(k, n)
<1>2. IsFiniteSet(before) /\ Cardinality(before) \in Nat
  BY UnitsFinite, FS_CardinalityType
<1>3. CASE Lines(k)[n].variant = v
  <2>1. UnitsIn(k, v, J \union {n}) = before \union here
    <3>1. {j \in J \union {n} : Lines(k)[j].variant = v} =
              {j \in J : Lines(k)[j].variant = v} \union {n}
      BY <1>3
    <3> QED
      BY <3>1 DEF UnitsIn
  <2>2. before \intersect here = {}
    <3>1. \A u \in here : u[1][2] = n
      BY DEF UnitsOfLine
    <3>2. \A u \in before : u[1][2] \in J
      BY DEF UnitsIn, UnitsOfLine
    <3> QED
      BY <3>1, <3>2
  <2>3. IsFiniteSet(here) /\ Cardinality(here) = Lines(k)[n].quantity
    BY UnitsOfLineCount
  <2>4. Cardinality(before \union here) =
            Cardinality(before) + Cardinality(here) - Cardinality({})
    BY <1>2, <2>2, <2>3, FS_Union
  <2>5. Lines(k)[n].quantity \in Nat
    BY LinesType
  <2>6. Cardinality(before \union here) =
            Cardinality(before) + Lines(k)[n].quantity
    <3> HIDE DEF before, here
    <3> QED
      BY <1>2, <2>3, <2>4, <2>5, FS_EmptySet
  <2> QED
    BY <1>3, <2>1, <2>6
<1>4. CASE Lines(k)[n].variant # v
  <2>1. {j \in J \union {n} : Lines(k)[j].variant = v} =
            {j \in J : Lines(k)[j].variant = v}
    BY <1>4
  <2>2. UnitsIn(k, v, J \union {n}) = before
    BY <2>1 DEF UnitsIn
  <2> QED
    BY <1>2, <1>4, <2>2
<1> QED
  BY <1>3, <1>4

\* A basket without a line of the variant has none of its units.
LEMMA NoLineNoUnits ==
    ASSUME NEW k \in Keys, NEW v,
           \A i \in 1 .. Len(Lines(k)) : Lines(k)[i].variant # v
    PROVE  Units(k, v) = {}
BY DEF Units, UnitsIn

\* A set of keys has finitely many units of a variant.
LEMMA UnitsOfFinite ==
    ASSUME NEW K \in SUBSET Keys, NEW v
    PROVE  /\ IsFiniteSet(UnitsOf(K, v))
           /\ Cardinality(UnitsOf(K, v)) \in Nat
<1> DEFINE T == {Units(k, v) : k \in K}
           f == [k \in K |-> Units(k, v)]
<1>1. IsFiniteSet(K)
  BY BasketAssumption, FS_Subset
<1>2. f \in Surjection(K, T)
  <2>1. f \in [K -> T] /\ \A t \in T : \E k \in K : f[k] = t
    OBVIOUS
  <2> QED
    BY <2>1, Fun_IsSurj
<1>3. IsFiniteSet(T)
  BY <1>1, <1>2, FS_Surjection
<1>4. \A t \in T : IsFiniteSet(t)
  <2>1. ASSUME NEW k \in K PROVE IsFiniteSet(Units(k, v))
    <3>1. k \in Keys /\ {} \in SUBSET (1 .. Len(Lines(k)))
      OBVIOUS
    <3> QED
      BY <3>1, UnitsBasics
  <2> QED
    BY <2>1
<1>5. IsFiniteSet(UNION T)
  BY <1>3, <1>4, FS_UNION
<1>6. IsFiniteSet(UnitsOf(K, v))
  BY <1>5 DEF UnitsOf
<1> QED
  BY <1>6, FS_CardinalityType

\* One more key adds the units of its basket.
LEMMA UnitsOfMore ==
    ASSUME NEW K \in SUBSET Keys, NEW k \in Keys \ K, NEW v
    PROVE  /\ Need(k, v) \in Nat
           /\ Cardinality(UnitsOf(K \union {k}, v)) =
                  Cardinality(UnitsOf(K, v)) + Need(k, v)
<1> DEFINE S == UnitsOf(K, v)
           T == Units(k, v)
<1>1. UnitsOf(K \union {k}, v) = S \union T
  BY DEF UnitsOf
<1>2. \A j \in Keys : /\ IsFiniteSet(Units(j, v))
                      /\ \A u \in Units(j, v) : u[1][1] = j
  <2>1. ASSUME NEW j \in Keys PROVE {} \in SUBSET (1 .. Len(Lines(j)))
    OBVIOUS
  <2> QED
    BY <2>1, UnitsBasics
<1>3. S \intersect T = {}
  <2>1. \A u \in S : u[1][1] \in K
    BY <1>2 DEF UnitsOf
  <2> QED
    BY <1>2, <2>1
<1>4. IsFiniteSet(S) /\ Cardinality(S) \in Nat
  BY UnitsOfFinite
<1>5. IsFiniteSet(T) /\ Cardinality(T) \in Nat
  BY <1>2, FS_CardinalityType
<1> HIDE DEF S, T
<1>6. Cardinality(S \union T) =
          Cardinality(S) + Cardinality(T) - Cardinality(S \intersect T)
  BY <1>4, <1>5, FS_Union
<1>7. Cardinality(S \union T) = Cardinality(S) + Cardinality(T)
  BY <1>3, <1>4, <1>5, <1>6, FS_EmptySet
<1> QED
  BY <1>1, <1>5, <1>7 DEF Need, S, T

\* The units walked over in a basket are among those of any set of keys it
\* belongs to.
LEMMA UnitsOfCovers ==
    ASSUME NEW K \in SUBSET Keys, NEW k \in K, NEW v,
           NEW J \in SUBSET (1 .. Len(Lines(k)))
    PROVE  Cardinality(UnitsIn(k, v, J)) <= Cardinality(UnitsOf(K, v))
<1>1. UnitsIn(k, v, J) \subseteq UnitsOf(K, v)
  BY UnitsBasics DEF UnitsOf
<1> QED
  BY <1>1, UnitsOfFinite, FS_Subset

\* More keys have more units...
LEMMA UnitsOfMonotone ==
    ASSUME NEW L \in SUBSET Keys, NEW K \in SUBSET L, NEW v
    PROVE  Cardinality(UnitsOf(K, v)) <= Cardinality(UnitsOf(L, v))
<1>1. UnitsOf(K, v) \subseteq UnitsOf(L, v)
  BY DEF UnitsOf
<1> QED
  BY <1>1, UnitsOfFinite, FS_Subset

\* ... and one key more has no more than those of its basket, be it new or not.
LEMMA UnitsOfJoin ==
    ASSUME NEW K \in SUBSET Keys, NEW k \in Keys, NEW v
    PROVE  /\ Need(k, v) \in Nat
           /\ Cardinality(UnitsOf(K \union {k}, v)) <=
                  Cardinality(UnitsOf(K, v)) + Need(k, v)
<1>1. Need(k, v) \in Nat
  <2>1. {} \in SUBSET Keys /\ k \in Keys \ {}
    OBVIOUS
  <2> QED
    BY <2>1, UnitsOfMore
<1>2. Cardinality(UnitsOf(K, v)) \in Nat
  BY UnitsOfFinite
<1>3. CASE k \in K
  <2>1. K \union {k} = K
    BY <1>3
  <2>2. Cardinality(UnitsOf(K \union {k}, v)) = Cardinality(UnitsOf(K, v))
    BY <2>1
  <2> QED
    BY <1>1, <1>2, <2>2
<1>4. CASE k \notin K
  <2>1. Cardinality(UnitsOf(K \union {k}, v)) =
            Cardinality(UnitsOf(K, v)) + Need(k, v)
    BY <1>4, UnitsOfMore
  <2> QED
    BY <1>1, <1>2, <2>1
<1> QED
  BY <1>1, <1>3, <1>4

=============================================================================
