\* Three web checks behind one address, two of them from one browser.
SPECIFICATION FairSpec
CONSTANTS
    a = a
    b = b
    c = c
    alice = alice
    browser = browser
    phone = phone
    home = home
    NoIp = NoIp
    NoCheck = NoCheck
    Checks = {a, b, c}
    UserKeys = {browser, phone}
    IpKeys = {home}
    UserOf <- WebUserOf
    IpOf <- WebIpOf
    LimitOf <- LimitTwo
    Deleters = {}
    MaxDay = 1
    MaxFaults = 1
INVARIANTS
    CountsMatchCharges
    AdmittedWithinLimit
    NoLockAcrossExternalWork
    SlotsAreSettled
PROPERTIES
    RejectedOnlyWhenFull
    ImplementsLedger
    EveryCheckEnds
CHECK_DEADLOCK FALSE
