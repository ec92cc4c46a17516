SPECIFICATION Spec
CONSTANTS
    Variants = {a, b}
    LineIds = {l1, l2, l3}
    Sessions = {s1, s2}
    NoSession = NoSession
    MaxQuantity = 2
SYMMETRY AnyName
CHECK_DEADLOCK FALSE
INVARIANTS TypeOK RemovedStaysRemoved OneLinePerVariant SoldIsFrozen
PROPERTIES EditsTakeEffect
