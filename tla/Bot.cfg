\* A user and a bystander, two updates at a time, two checks; the notice changes once or a day passes.
SPECIFICATION Spec
CONSTANTS
    None = None
    Users = {u}
    Bystanders = {other}
    Tasks = {t1, t2}
    Checks = {c1, c2}
    Languages = {ru}
    Usefulness = {yes}
    NextAction = {verify}
    CheckDays = 0
    FeedbackDays = 0
    ConsentDays = 0
    MaxDay = 1
    MaxVersion = 1
    MaxChanges = 1
SYMMETRY Interchangeable
INVARIANTS
    ConsentIsKept
    ErasedStaysErased
    FeedbackIsWhatWasSaid
    OrphansWereOvertaken
