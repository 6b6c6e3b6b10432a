\* Three messages of one Telegram user, who may delete his data meanwhile.
SPECIFICATION Spec
CONSTANTS
    a = a
    b = b
    c = c
    alice = alice
    browser = browser
    phone = phone
    home = home
    NoIp = NoIp
    NoCheck = NoCheck
    Checks = {a, b, c}
    UserKeys = {alice}
    IpKeys = {}
    UserOf <- BotUserOf
    IpOf <- BotIpOf
    LimitOf <- LimitOne
    Deleters = {alice}
    MaxDay = 1
    MaxFaults = 1
SYMMETRY BotSymmetry
INVARIANTS
    CountsMatchCharges
CHECK_DEADLOCK FALSE
