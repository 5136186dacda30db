\* Three sign-ins of two identities, whose emails change at any time; and three creates and
\* two issue-key runs against a ceiling of two;
\* and two tabs in which two people sign in and out.
SPECIFICATION MCSpec
CONSTANTS
    Exercised = {"sign-in", "keys", "header"}
    SignIns = {s1, s2, s3}
    Identities = {i1, i2}
    Emails = {e1, e2}
    Nobody = nobody
    Overlapping = FALSE
    MaxChanges = 3
    Creates = {c1, c2, c3}
    Issues = {k1, k2}
    NoHolder = noholder
    MaxActive = 2
    Tabs = {tab1, tab2}
    Slots = {1}
    People = {anas, badr}
    NoPicture = NoPicture
    PictureOf <- OwnPicture
    MaxSessions = 2
    MaxLoads = 2
SYMMETRY Symmetry
INVARIANTS
    OneAccountPerEmail
    EveryAccountCanBeReached
    SessionsShowTheirAccount
    CeilingHolds
    OnePerson
    HandedOutKeysAreStored
PROPERTIES
    IdentityKeepsItsAccount
    PortalKeepsTheCeiling
CHECK_DEADLOCK FALSE
