SPECIFICATION Spec
CONSTANTS
    Managed = {"PST_HOST", "UB_PASSWORD"}
    Unmanaged = {"LISTEN"}
    Secrets = {"UB_PASSWORD"}
    SettingValues = {"a", "b", "bad"}
    BadValues = {"bad"}
    Savers = {1}
    MaxSaves = 1
    MaxRestarts = 2
    Headings = {0, 10}
    SettleErrors = {1}
    ModeMax = 2
    MaxRequests = 2
    MaxOutages = 1
    MaxTunes = 2
    MaxBeamEvents = 2
    MaxRigEvents = 2
    PsClients = {p1}
    PsRates = {0, 8}
    PsSnrs <- MCPsSnrs
    PsMeans = {0, 4}
    PsKps = {3, 7}
    PsSfis = {200}
    PsBuffer = 1
    PsMaxWrites = 2
    PsMaxFails = 1
    PsMaxConnects = 2
INVARIANTS QSYReportHonest LinksShown
PROPERTIES RestartApplies ModeRecovers FastPollingEnds StreamCatchesUp
CHECK_DEADLOCK FALSE
