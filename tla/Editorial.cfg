\* Three saves of up to two articles, overlapping as they may, and one reader.
SPECIFICATION Spec
CONSTANTS
    a = a
    b = b
    c = c
    post1 = post1
    post2 = post2
    here = here
    there = there
    None = None
    Saves = {a, b, c}
    Posts = {post1, post2}
    Slugs = {here, there}
    Forms <- SomeForms
    SessionTicks = 2
    MaxNow = 4
SYMMETRY Symmetry
INVARIANTS
    PublishedIsStamped
    DraftsStayPrivate
    KeptCoversAreCurrent
PROPERTIES
    SavedAsSubmitted
CHECK_DEADLOCK FALSE
