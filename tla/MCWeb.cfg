\* The parts of the site, each by itself.
SPECIFICATION MCSpec
CONSTANTS
    Exercised = {"search", "menu", "queries", "random", "settings", "account", "site"}
    NetworkRetries = 0
    OtherRetries = 0
    MaxActs = 2
    Totals = {0, 2}
    Links <- MCLinks
    Typed <- MCTyped
    Options <- MCOptions
    Transliterated <- MCTransliterated
    OverFiftyUnits <- MCOverFiftyUnits
    Decimals <- MCDecimals
    DefaultEras <- MCDefaultEras
    SelectOptions <- MCSelectOptions
    EveryMode = {TRUE, FALSE}
    MaxPresses = 5
    Attempts = 3
    AttemptTimeout = 3
    Budget = 7
    MaxClicks = 2
    SettingsTabs = {1, 2}
    Legacy = {"none", "dark"}
    MaxChanges = 3
    FontScaleMin = 9
    Stored <- MCStored
    FontScaleMax = 11
    t1 = t1
    t2 = t2
    PageTabs = {t1, t2}
    Providers = {"google", "github"}
    Configured = {"google", "github"}
    Claims <- MCClaims
    MaxStates = 2
    MaxKeys = 1
    Corpora <- MCCorpora
    PerPage = 2
    MaxPages = 3
    Pages = {1, 2, 3, 4}
    Retries = 1
    MaxVisits = 1
INVARIANTS
    ShownIsThisSearch
    MenuIsRight
    QueriesAreUnderstood
    PageIsNeverRejected
    AsksWithinBudget
    SettingsAgree
    AccountPagesAreTrue
    PagesTellTheTruth
PROPERTIES
    VisitsAreAnswered
CHECK_DEADLOCK FALSE
