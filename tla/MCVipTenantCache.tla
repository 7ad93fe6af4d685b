--------------------------- MODULE MCVipTenantCache ---------------------------
EXTENDS VipTenantCache, TLC
====
