\* An edit is refused, and stored.
SPECIFICATION Spec
CONSTANTS
    a = a
    b = b
    c = c
    otp = otp
    link = link
    p = p
    q = q
    NoGate = NoGate
    Job = Job
    Requests = {a, b, c}
    Columns <- RuleColumns
    Drafts <- RuleDrafts
    YamlPack <- Shipped
    Merge <- MergeRulePack
    Acceptable <- RequiresOnlyUngated
    MaxFaults = 0
    MaxClock = 0
INVARIANTS
    RefusedEditsLeaveNoTrace
