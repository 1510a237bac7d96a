SPECIFICATION PsSpec
CONSTANTS
    PsClients = {p1}
    PsRates = {0, 8}
    PsSnrs = {0}
    PsMeans = {0, 4}
    PsKps = {3, 7}
    PsSfis = {200}
    PsBuffer = 1
    PsMaxWrites = 2
    PsMaxFails = 1
    PsMaxConnects = 1
INVARIANT LatestSampleWins
CHECK_DEADLOCK FALSE
