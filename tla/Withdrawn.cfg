SPECIFICATION Spec
CONSTANTS
    c1 = c1
    c2 = c2
    c3 = c3
    k1 = k1
    k2 = k2
    k3 = k3
    k4 = k4
    a = a
    b = b
    d = d
    p = p
    q = q
    Variants = {a, b, d}
    Keys = {k1, k2, k3, k4}
    Carts = {c1, c2, c3}
    CartOf <- FourAttempts
    CartLines <- ThreeBaskets
    Products = {p, q}
    VariantsOf <- TwoProducts
    InitialStock <- FourOfA
    Deltas <- PlusMinusOne
    MaxStock = 4
INVARIANTS TypeOK ListedBalanced 
PROPERTIES StuckForGood
CHECK_DEADLOCK FALSE
