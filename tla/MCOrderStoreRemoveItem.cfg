CONSTANTS
    Orders = {o1, o2}
    Items = {i1, i2}
    Rows = {r1, r2}
    d1 = d1
    s1 = s1
    OrderData = {d1}
    OrderKeys = {s1}
    OrderExtract <- MCOrderExtract
    NoData = NoData
    i1 = i1
    i2 = i2
    ItemOrder <- MCItemOrder
    GivenLines <- MCGivenLines
    MaxCrashes = 0
SPECIFICATION Spec
SYMMETRY IdSymmetry
INVARIANT
    RemoveItemAnswered
