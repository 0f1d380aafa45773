CONSTANTS
    c1 = c1
    c2 = c2
    NoClient = NoClient
    Clients <- MCClients
    Fds <- MCFds
    Env <- BadRequests

SPECIFICATION FairSpec

INVARIANTS
    TypeOK
    DescriptorsOwned

PROPERTY ClientsServed
