\* Two operator requests on two rules, beside the scheduled refresh.
SPECIFICATION FairSpec
CONSTANTS
    a = a
    b = b
    c = c
    otp = otp
    link = link
    p = p
    q = q
    NoGate = NoGate
    Job = Job
    Requests = {a, b}
    Columns <- RuleColumns
    Drafts <- RuleDrafts
    YamlPack <- Shipped
    Merge <- MergeRulePack
    Acceptable <- RequiresOnlyUngated
    MaxFaults = 1
    MaxClock = 0
INVARIANTS
    InForceIsAcceptable
PROPERTIES
    InForceConverges
