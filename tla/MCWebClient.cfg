CONSTANTS
    u1 = u1  u2 = u2  o1 = o1  o2 = o2 
    Users = {u1, u2}
    Orders = {o1, o2}
    Items = {i1}
    Owner <- TwoOrders
    NoUser = NoUser  NoOrder = NoOrder  NoItem = NoItem  NoTable = NoTable
    NoAnswer = NoAnswer
    InOrder = TRUE
    MaxPending = 2
    MaxLines = 1
    MaxLost = 1
SPECIFICATION Spec
INVARIANTS TypeOK TablesAgree NothingMissing PoolWhileEditing HighlightedIsShown
PROPERTY SelectedOrderAppears
