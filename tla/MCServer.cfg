CONSTANTS
    c1 = c1  c2 = c2
    Clients <- TheClients
    Silent <- TheSilent
    NoClient = NoClient
    Backlog = 1
SPECIFICATION Spec
INVARIANTS
    TypeOK
    NoLeakedConnection
    OnlyWholeExecuted
    WholeRequestAnswered
PROPERTIES
    ImplementsService
    EveryClientReleased
