--------------------------- MODULE MCControlPlane ---------------------------
(***************************************************************************)
(* A small instance of ControlPlane: two people with an email each, tokens *)
(* for two of them to be logged in and to refresh, a small and a large     *)
(* plan, and one of everything else that can be bought or used.            *)
(***************************************************************************)
EXTENDS ControlPlane, TLC

CONSTANTS u1, u2, a1, a2, pw1, t1, t2, t3, c1, o1, g1, g2, e1, e2, d1, s1, n1, no1,
          plan, family, asia, wireguard

MCPrice == [p \in Plans |-> IF p = plan THEN 1 ELSE 2]
MCPointInputs == {2}
MCMaxBoundDevices == [p \in Plans |-> 1]
MCMaxConcurrentSessions == [p \in Plans |-> 1]
MCDuration == [p \in Plans |-> 0]
MCPlanGroups == [p \in Plans |-> {asia}]
MCPlanProtocols == [p \in Plans |-> {wireguard}]
MCGroupOf == [n \in Nodes |-> asia]

Saved ==
    /\ accountsRow = A!Snapshot
    /\ walletRow = W!Memory
    /\ accessRow = X!Memory

(* Bound: memory is at most one operation ahead of the row. *)
OneUnsaved == (UNCHANGED Row /\ ~UNCHANGED Memory) => Saved

BoundedSpec == PlaneInit /\ [][PlaneNext /\ OneUnsaved]_planeVars

Ids == Permutations(Tokens) \cup Permutations(Emails) \cup Permutations(UserIds)
         \cup Permutations(EntIds) \cup Permutations(GrantIds)
=============================================================================
