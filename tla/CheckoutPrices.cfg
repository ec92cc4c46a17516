SPECIFICATION Spec
CONSTANTS
    a = a
    b = b
    Variants = {a, b}
    InCurrency = {b}
    Lines <- TwoLines
    Amounts = {30150, 199950}
    Rates = {0, 725}
    Quantum = 100
    RateScale = 100
    TaxScale = 100
    TaxRate = 7
    Threshold = 1000000
    Flat = 99000
INVARIANTS TypeOK TotalsAreRight LinesAddUp
