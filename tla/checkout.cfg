SPECIFICATION Spec
CONSTANTS
    Users = {u1, u2}
    Products = {x1, x2}
    Keys = {k1, k2}
    Procs = {p1, p2}
    Seller <- MCSeller
    Prices = {5}
    Quantities = {1}
    Stocks = {1}
    Managed = {x1}
    MaxSupply = 2
    None = None
SYMMETRY Symmetry
INVARIANTS UnitsAccounted NeverOversold SplitIsWhole
PROPERTIES OrderedFromSale OneOrderPerKey
CHECK_DEADLOCK FALSE
