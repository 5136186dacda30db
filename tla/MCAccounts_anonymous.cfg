\* Somebody signs in and out.
SPECIFICATION MCSpec
CONSTANTS
    Exercised = {"header"}
    SignIns = {s1, s2}
    Identities = {i1}
    Emails = {e1, e2}
    Nobody = nobody
    Overlapping = TRUE
    MaxChanges = 1
    Creates = {c1}
    Issues = {}
    NoHolder = noholder
    MaxActive = 1
    Tabs = {tab1, tab2}
    Slots = {1}
    People = {anas}
    NoPicture = NoPicture
    PictureOf <- OwnPicture
    MaxSessions = 1
    MaxLoads = 3
SYMMETRY Symmetry
INVARIANT AnonymousSeeNoControl
CHECK_DEADLOCK FALSE
