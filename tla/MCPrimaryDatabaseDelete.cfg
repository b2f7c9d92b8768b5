CONSTANTS
    Keys = {k1, k2}
    d1 = d1
    d2 = d2
    s1 = s1
    s2 = s2
    Data = {d1, d2}
    SKeys = {s1, s2}
    N = 2
    Extract <- MCExtract
    NoData = NoData
SPECIFICATION Spec
SYMMETRY KeySymmetry
INVARIANT
    DeleteErrorsReported
