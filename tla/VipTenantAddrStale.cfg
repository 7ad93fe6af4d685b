\* Setter calls on one ObVipAddr and one ObVipTenant: a VPC address set
\* and then an address set from a NULL ip.
CONSTANTS
    Null = Null
    NoAddr = NoAddr
    Ips <- MCIps
    Parseable = {"10.0.0.1"}
    Ports <- MCPorts
    Vids <- MCVids
    VpcInfos <- MCVpcInfos
    InitTypes = {"VTOA_VIP_ADDR", "VPC_VIP_ADDR"}
    NameLens = {0, 1, 3}
    OB_MAX_TENANT_NAME_LENGTH = 2
    OB_PROXY_MAX_CLUSTER_NAME_LENGTH = 2
    InvalidRequestType = 0
    RequestFollower = 2
    InvalidRWType = 0
    ReadWrite = 2
    AllocMayFail = TRUE
    MaxCalls = 3
INIT Init
NEXT Next
INVARIANT ValidAddrIsLastSet
