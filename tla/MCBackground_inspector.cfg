\* The supervisor alone, with and without --verbose.
SPECIFICATION MCSpec
CONSTANTS
    Exercised = {"dev"}
    Codes = {0, 1, 3}
    MaxSignals = 2
    p1 = p1
    p2 = p2
    Processes = {p1, p2}
    Rows = {row1, row2}
    Nobody = nobody
    MaxRecords = 4
    MaxFaults = 1
    r1 = r1
    Runs = {r1}
    Pages = 2
    MaxVersion = 3
    MaxBody = 2
    MaxLaunches = 3
    CiTasks = {lint, format, types, audit, knip, stack}
    Limits = {0, 1, 2}
    lint = lint
    format = format
    types = types
    audit = audit
    knip = knip
    stack = stack
    home = home
    search = search
    hourly = hourly
    keyed = keyed
    etag = etag
    Concurrency = 2
    MaxInterrupts = 2
    PageSize = 2
    MaxSnapshots = 2
    Aliases <- PoemsThenPoets
    Generations <- Restored
    Window = 4
    Requests = 3
    Burst = 1
    Callers = {"anonymous", "key", "unlimited"}
    Count = 2
    DrainCeiling = 2
    DrainRetries = 1
    BurstRetrySeconds = 2
    MaxNow = 8
    Labels = {"amudi", "majhul", "hurr"}
    MaxEdits = 1
    Corpus <- CorpusBodies
    PageFiles <- PageFilesOfTwoShapes
    Preferred <- GuRyFirst
    LinkLists <- LinksOfAPage
    Sentinels <- Placeholders
    MaxFetches = 5
    MaxReports = 1
    RollOrder <- ApiThenWeb
    Phases <- CiPhases
    Groups <- SmokeGroups
    Suites <- SuiteFilters
    ProbeOn <- SurfacesOf
    Expectation <- Expected
    Skippable <- Conditional
    MaxDeploys = 3
    MaxContainers = 8
PROPERTY InspectorFollowsTheWeb
CHECK_DEADLOCK FALSE
