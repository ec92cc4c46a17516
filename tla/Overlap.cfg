SPECIFICATION FairSpec
CONSTANTS
    c1 = c1
    c2 = c2
    c3 = c3
    k1 = k1
    k2 = k2
    k3 = k3
    k4 = k4
    a = a
    b = b
    NoSession = NoSession
    Variants = {a, b}
    Keys = {k1, k2}
    Carts = {c1}
    Sessions = {s1, s2}
    CartOf <- SameCart
    CartLines <- OneBasket
    InitialStock <- TwoOfA
    Deltas <- MinusOne
    MaxStock = 2
    OverlapAllowed = TRUE
INVARIANTS NeverOversold NoStrandedStock SettledIsCharged EveryMoveIsBooked DeadlockNeedsCrossing OverlapInv
PROPERTIES EveryRequestAnswered
