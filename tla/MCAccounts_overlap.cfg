\* Two overlapping first sign-ins of one identity, and a change of its email between them.
SPECIFICATION MCSpec
CONSTANTS
    Exercised = {"sign-in"}
    SignIns = {s1, s2}
    Identities = {i1}
    Emails = {e1, e2}
    Nobody = nobody
    Overlapping = TRUE
    MaxChanges = 1
    Creates = {c1}
    Issues = {}
    NoHolder = noholder
    MaxActive = 1
    Tabs = {tab1, tab2}
    Slots = {1}
    People = {anas, badr}
    NoPicture = NoPicture
    PictureOf <- OwnPicture
    MaxSessions = 2
    MaxLoads = 2
SYMMETRY Symmetry
PROPERTY IdentityKeepsItsAccount
CHECK_DEADLOCK FALSE
