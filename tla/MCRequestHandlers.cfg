CONSTANTS
    Documents <- MCDocuments
    IndexOrder <- MCIndexOrder
    NoRequest = NoRequest
    MaxRequests = 2
SPECIFICATION Spec
INVARIANTS
    TypeOK
    ConfigExact
    DaoReachedExactly
    FlushedInOrder
