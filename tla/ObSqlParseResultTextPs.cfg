\* The ObSqlParseResult.cfg instance, checking that a copy's text ps name is
\* its source's.
CONSTANTS
    Results = {p1, p2}
    Names = {"n1", "n2"}
    NameLen <- MCNameLen
    Zero = Zero
    Blocks = {k1, k2}
    Servers = {s1, s2}
    TraceIds <- MCTraceIds
    TextPsNames <- MCTextPsNames
    RouteAddrs <- MCRouteAddrs
    Null = Null
    ArenaFreeReleases = {FALSE}
    ServerAllocMayFail = TRUE
    MaxCalls = 4
INIT Init
NEXT Next
INVARIANT
    TextPsNameFollowsCopy
