\* Three requests of one browser, over one deploy, one slot of the address.
SPECIFICATION Spec
CONSTANTS
    nginx = nginx
    home = home
    cafe = cafe
    a = a
    b = b
    c = c
    NoAddress = NoAddress
    NoCookie = NoCookie
    NoRow = NoRow
    NoSeen = NoSeen
    Requests = {a, b, c}
    Forms <- SomeForms
    Servers <- SomeServers
    FirstServer <- OldServer
    Addresses = {nginx, home, cafe}
    TrustedPeers = {nginx}
    DailyLimit = 1
    MaxDeploys = 1
    MaxSessions = 2
SYMMETRY RequestSymmetry
INVARIANTS
    OnlyTheEntitledAreChecked
    CountedWhereItCameFrom
PROPERTIES
    AcceptanceOutlivesRefusals
    BrowserStaysOneUser
CHECK_DEADLOCK FALSE
