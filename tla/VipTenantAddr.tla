---------------------------- MODULE VipTenantAddr ----------------------------
(***************************************************************************)
(* ObVipAddr and ObVipTenant, the key and the value of the VIP tenant     *)
(* cache (src/obproxy/obutils/ob_vip_tenant_cache.cpp, lines 25-186): the *)
(* setters of an address, its copy, is_valid, and the setters of a tenant *)
(* that copies an address in.  An ObAddr is a pair <<ip, port>> or NoAddr; *)
(* a vpc_info_ buffer is a byte string (a model value or <<>>).           *)
(*                                                                         *)
(* The header is not in the repository: the enum values, the name length  *)
(* limits and the initial (reset) object are constants, and whether       *)
(* ObAddr::set_ip_addr / set_ipv4_addr accept an input is given by        *)
(* Parseable and a nondeterministic choice.                               *)
(***************************************************************************)
EXTENDS Integers, Sequences

CONSTANTS
    Ips,              \* ip strings passed to set(ip, port, vid); Null and "" among them
    Null,             \* the NULL pointer
    Parseable,        \* the ips ObAddr::set_ip_addr accepts
    Ports,            \* ports, one negative
    Vids,             \* vids, -1 among them
    VpcInfos,         \* ObString values for set(vpc_info); <<>> among them
    NoAddr,           \* ObAddr after reset()
    InitTypes,        \* vip_addr_type_ values reset() may leave
    NameLens,         \* lengths of the tenant and cluster names passed in
    OB_MAX_TENANT_NAME_LENGTH,
    OB_PROXY_MAX_CLUSTER_NAME_LENGTH,
    InvalidRequestType, RequestFollower,  \* ends of ObVipTenantRequestType
    InvalidRWType, ReadWrite,             \* ends of ObVipTenantRWType
    AllocMayFail,     \* whether vpc_info_.init may fail to allocate
    MaxCalls          \* bound on the setter calls

VARIABLES
    va,     \* the ObVipAddr being set
    vt,     \* an ObVipTenant
    given,  \* {the identity the last address setter was handed}, or {}
    calls   \* setter calls made

vars == <<va, vt, given, calls>>

VTOA == "VTOA_VIP_ADDR"
VPC == "VPC_VIP_ADDR"

\* ip strings as the vpc_info_ bytes: strlen(ip) > 0 for every ip but "".
Str(ip) == <<ip>>

ResetAddr(t) == [addr |-> NoAddr, vid |-> -1, type |-> t, vpc |-> <<>>]

\* is_valid(): a VTOA address with a valid ObAddr and vid >= 0, or a VPC
\* address with vpc info.
is_valid(a) ==
    \/ a.type = VTOA /\ a.addr # NoAddr /\ a.vid >= 0
    \/ a.type = VPC /\ a.vpc # <<>>

\* The identity a valid address stands for.
Identity(a) ==
    IF a.type = VPC THEN [vpc |-> a.vpc] ELSE [addr |-> a.addr, vid |-> a.vid]

Step == calls < MaxCalls /\ calls' = calls + 1

\* set(ip, port, vid): reset the address on bad input; vid -1 names a VPC
\* address by the ip string; else parse the ip.
SetIp(ip, port, vid) ==
    /\ Step
    /\ CASE ip \in {Null, ""} \/ port < 0 ->
              va' = [va EXCEPT !.addr = NoAddr] /\ given' = {}
         [] vid = -1 ->
              /\ \E allocated \in IF AllocMayFail THEN BOOLEAN ELSE {TRUE} :
                   va' = IF allocated
                         THEN [va EXCEPT !.addr = NoAddr, !.vpc = Str(ip), !.type = VPC]
                         ELSE [va EXCEPT !.addr = NoAddr, !.vpc = <<>>]
              /\ given' = {[vpc |-> Str(ip)]}
         [] ip \notin Parseable ->
              va' = [va EXCEPT !.addr = NoAddr] /\ given' = {}
         [] OTHER ->
              /\ va' = [va EXCEPT !.type = VTOA, !.vid = vid, !.addr = <<ip, port>>]
              /\ given' = {[addr |-> <<ip, port>>, vid |-> vid]}
    /\ UNCHANGED vt

\* set_ipv4(ip, port, vid): vip_addr_type_ is left as it was.
SetIpv4(ip, port, vid) ==
    /\ Step
    /\ \E ok \in BOOLEAN :
         va' = IF ok THEN [va EXCEPT !.vpc = <<>>, !.addr = <<ip, port>>, !.vid = vid]
               ELSE [va EXCEPT !.vpc = <<>>, !.addr = NoAddr]
    /\ given' = {[addr |-> <<ip, port>>, vid |-> vid]}
    /\ UNCHANGED vt

\* set(sockaddr, vid)
SetSockaddr(ip, port, vid) ==
    /\ Step
    /\ va' = [va EXCEPT !.vpc = <<>>, !.type = VTOA, !.addr = <<ip, port>>, !.vid = vid]
    /\ given' = {[addr |-> <<ip, port>>, vid |-> vid]}
    /\ UNCHANGED vt

\* set(vpc_info)
SetVpc(info) ==
    /\ Step
    /\ va' = IF info # <<>> THEN [va EXCEPT !.vpc = info, !.addr = NoAddr, !.type = VPC]
             ELSE [va EXCEPT !.vpc = <<>>, !.addr = NoAddr]
    /\ given' = IF info # <<>> THEN {[vpc |-> info]} ELSE {}
    /\ UNCHANGED vt

-----------------------------------------------------------------------------
(* ObVipTenant                                                             *)

set_tenant_cluster_ok(tl, cl) ==
    ~(tl = 0 \/ tl > OB_MAX_TENANT_NAME_LENGTH
      \/ cl = 0 \/ cl > OB_PROXY_MAX_CLUSTER_NAME_LENGTH)

InRange(x, lo, hi) == ~(x > hi \/ x < lo)

\* operator=: the fields, and vpc_info_ reset and rewritten when the source
\* has any.
AssignAddr(a) == [a EXCEPT !.vpc = IF Len(a.vpc) > 0 THEN a.vpc ELSE <<>>]

\* set(vip_addr, tenant_name, cluster_name, request_target_type, rw_type):
\* the names are checked, then the address is copied (operator=) with the
\* two types.
SetTenant(tl, cl, rt, rw) ==
    /\ Step
    /\ vt' = IF set_tenant_cluster_ok(tl, cl)
             THEN [vip |-> AssignAddr(va), tenant |-> tl, cluster |-> cl, rtt |-> rt, rw |-> rw]
             ELSE vt
    /\ UNCHANGED <<va, given>>

\* set_tenant_cluster, set_request_target_type, set_rw_type on their own.
SetTenantCluster(tl, cl) ==
    /\ Step
    /\ vt' = IF set_tenant_cluster_ok(tl, cl) THEN [vt EXCEPT !.tenant = tl, !.cluster = cl]
             ELSE vt
    /\ UNCHANGED <<va, given>>

SetRequestTargetType(x) ==
    /\ Step
    /\ vt' = IF InRange(x, InvalidRequestType, RequestFollower) THEN [vt EXCEPT !.rtt = x]
             ELSE vt
    /\ UNCHANGED <<va, given>>

SetRwType(x) ==
    /\ Step
    /\ vt' = IF InRange(x, InvalidRWType, ReadWrite) THEN [vt EXCEPT !.rw = x] ELSE vt
    /\ UNCHANGED <<va, given>>

\* reset()
ResetTenant(t) ==
    /\ Step
    /\ vt' = [vip |-> ResetAddr(t), tenant |-> 0, cluster |-> 0,
              rtt |-> InvalidRequestType, rw |-> InvalidRWType]
    /\ UNCHANGED <<va, given>>

-----------------------------------------------------------------------------

Init ==
    /\ \E t \in InitTypes :
         /\ va = ResetAddr(t)
         /\ vt = [vip |-> ResetAddr(t), tenant |-> 0, cluster |-> 0,
                  rtt |-> InvalidRequestType, rw |-> InvalidRWType]
    /\ given = {}
    /\ calls = 0

\* The int64_t values passed to set_request_target_type / set_rw_type.
Types(lo, hi) == lo - 1 .. hi + 1

Next ==
    \/ \E ip \in Ips, port \in Ports, vid \in Vids : SetIp(ip, port, vid)
    \/ \E ip \in Parseable, port \in Ports, vid \in Vids :
         SetIpv4(ip, port, vid) \/ SetSockaddr(ip, port, vid)
    \/ \E info \in VpcInfos : SetVpc(info)
    \/ \E tl, cl \in NameLens :
         \/ SetTenantCluster(tl, cl)
         \/ \E rt \in InvalidRequestType..RequestFollower, rw \in InvalidRWType..ReadWrite :
              SetTenant(tl, cl, rt, rw)
    \/ \E x \in Types(InvalidRequestType, RequestFollower) : SetRequestTargetType(x)
    \/ \E x \in Types(InvalidRWType, ReadWrite) : SetRwType(x)
    \/ \E t \in InitTypes : ResetTenant(t)
    \/ calls = MaxCalls /\ UNCHANGED vars

Spec == Init /\ [][Next]_vars

-----------------------------------------------------------------------------

\* An address that is_valid() stands for what its last setter was handed:
\* set(ip, port, vid) with a NULL or empty ip, a negative port or an ip
\* that does not parse leaves no valid address behind, so that
\* ObVipTenantCache::get refuses it instead of looking up an earlier one.
ValidAddrIsLastSet == is_valid(va) => given = {Identity(va)}

====
