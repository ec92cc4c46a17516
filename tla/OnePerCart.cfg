SPECIFICATION Spec
CONSTANTS
    c1 = c1
    c2 = c2
    c3 = c3
    k1 = k1
    k2 = k2
    k3 = k3
    k4 = k4
    a = a
    b = b
    NoSession = NoSession
    Variants = {a, b}
    Keys = {k1, k2, k3, k4}
    Carts = {c1, c2, c3}
    Sessions = {s1, s2, s3}
    CartOf <- FourAttempts
    CartLines <- RingLines
    InitialStock <- TwoOfA
    Deltas <- MinusOne
    MaxStock = 2
    OverlapAllowed = FALSE
SYMMETRY AnySession
INVARIANTS ReservedIsHeld SoldOnce OneOrderPerCart LedgerExplainsStock
PROPERTIES LawfulMoves ImplementsLedger
