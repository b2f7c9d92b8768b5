CONSTANTS
    c1 = c1  c2 = c2
    Clients <- TheClients
    Silent = {}
    NoClient = NoClient
    Backlog = 1
SPECIFICATION Spec
INVARIANT ErrorAnswered
