CONSTANTS
    Threads = {t1, t2}
    Vips = {v1}
    Ops = {"get", "set", "update", "count", "destroy"}
    MaxCalls = 3
    None = None
SPECIFICATION Spec
INVARIANTS
    TypeOK
    NoTenantReadAfterDestroy
    MapsHoldOnlyLiveTenants
    LiveMapFresh
PROPERTIES
    CallsReturn
