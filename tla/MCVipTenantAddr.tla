--------------------------- MODULE MCVipTenantAddr ---------------------------
EXTENDS VipTenantAddr

MCIps == {Null, "", "10.0.0.1", "bad"}
\* one negative port; vid -1 names a VPC address
MCPorts == {-1, 2883}
MCVids == {-1, 0}
MCVpcInfos == {<<>>, <<"vpc-1">>}
====
