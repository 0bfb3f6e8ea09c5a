------------------------------ MODULE MCAccess ------------------------------
(***************************************************************************)
(* A small instance of Access with a client of ConnectFlow: one device     *)
(* without a plan, two with one, one session per entitlement, and a term   *)
(* of one tick on a clock of two.                                          *)
(***************************************************************************)
EXTENDS ConnectFlow, TLC

CONSTANTS u1, u2, e1, d1, d2, s1, s2, n1, plan, asia, other, wireguard, unknown

MCMaxBoundDevices == [p \in Plans |-> 2]
MCMaxConcurrentSessions == [p \in Plans |-> 1]
MCDuration == [p \in Plans |-> 1]
MCPlanGroups == [p \in Plans |-> {asia}]
MCPlanProtocols == [p \in Plans |-> {wireguard}]
MCGroupOf == [n \in Nodes |-> asia]

Ids == Permutations(DeviceIds) \cup Permutations(SessionIds)
=============================================================================
