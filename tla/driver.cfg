CONSTANTS
    Servers <- ThreeServers
    Clients <- TwoClients
    Files <- SomeFiles
    MaxCommands = 4
SPECIFICATION Spec
INVARIANTS
    DriverTypeOK
    SetsAsWritten
    NoneForgotten
    NothingLeftRunning
    ServersOfTheSet
    OneSetPerClient
CHECK_DEADLOCK FALSE
