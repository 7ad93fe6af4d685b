\* Two parse results, two names, two arena blocks and two route servers;
\* four calls, enough to copy a result and then reload its source.
CONSTANTS
    Results = {p1, p2}
    Names = {"n1", "n2"}
    NameLen <- MCNameLen
    Zero = Zero
    Blocks = {k1, k2}
    Servers = {s1, s2}
    TraceIds <- MCTraceIds
    TextPsNames <- MCTextPsNames
    RouteAddrs <- MCRouteAddrs
    Null = Null
    ArenaFreeReleases = {FALSE}
    ServerAllocMayFail = TRUE
    MaxCalls = 4
INIT Init
NEXT Next
INVARIANTS
    TargetServersOwned
    CopiesAreIndependent
    TextPsNameInLiveMemory
