\* Three operator requests on two cards over two seconds.
SPECIFICATION Spec
CONSTANTS
    a = a
    b = b
    c = c
    shipped = shipped
    added = added
    old = old
    new = new
    Job = Job
    Requests = {a, b, c}
    Columns <- CardColumns
    Drafts <- CardDrafts
    YamlCards <- Shipped
    Merge <- MergeKnowledgeBase
    Acceptable <- AnyBase
    MaxFaults = 1
    MaxClock = 1
SYMMETRY RequestSymmetry
INVARIANTS
    RefusedEditsLeaveNoTrace
PROPERTIES
    AcceptedEditsArePublished
    NoRowComesBack
    VersionFollowsEdits
