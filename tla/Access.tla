------------------------------- MODULE Access -------------------------------
(***************************************************************************)
(* Who may connect from where: entitlements with their term and limits,    *)
(* bound devices, sessions and the status of nodes, in memory and in the   *)
(* stored snapshot.  Every operation runs under the write lock from its    *)
(* checks to its save.                                                     *)
(***************************************************************************)
EXTENDS Integers, FiniteSets, Maps

CONSTANTS
    Users, Plans, Nodes, Groups, Protocols,
    EntIds, DeviceIds, SessionIds,  \* what NewID can return
    MaxBoundDevices,                \* of each plan
    MaxConcurrentSessions,          \* of each plan
    Duration,                       \* of each plan, in ticks of the clock
    PlanGroups, PlanProtocols,      \* of each plan
    GroupOf,                        \* of each node
    NodeStatuses,                   \* what heartbeats may carry: any text will do
    BaseDeviceLimit,                \* devices without an entitlement
    MaxTime,                        \* bound on the clock
    SaveOutcomes                    \* how saving a snapshot can end

ASSUME AccessConstants ==
    /\ IsFiniteSet(SessionIds) /\ IsFiniteSet(DeviceIds)
    /\ MaxBoundDevices \in [Plans -> Nat]
    /\ MaxConcurrentSessions \in [Plans -> Nat]
    /\ Duration \in [Plans -> Nat]
    /\ PlanGroups \in [Plans -> SUBSET Groups]
    /\ PlanProtocols \in [Plans -> SUBSET Protocols]
    /\ GroupOf \in [Nodes -> Groups]
    /\ "online" \in NodeStatuses
    /\ BaseDeviceLimit \in Nat /\ MaxTime \in Nat
    /\ SaveOutcomes \subseteq {"ok", "failed", "unsure"}

VARIABLES
    entitlements,   \* s.entitlements; limits and lists are those of the plan
    devices,        \* s.devices: the owner of each
    sessions,       \* s.sessions
    nodes,          \* s.nodes: the status of each
    now,            \* the clock
    disk            \* the snapshot a restart would load

stateVars == <<entitlements, devices, sessions, nodes>>
vars == <<entitlements, devices, sessions, nodes, now, disk>>

Entitlement == [user : Users, plan : Plans, endsAt : Nat]
Session == [user : Users, device : DeviceIds, entitlement : EntIds, node : Nodes,
            status : {"connected", "disconnected"}]

Memory == [entitlements |-> entitlements, devices |-> devices,
           sessions |-> sessions, nodes |-> nodes]

saveLocked(saved) == disk' = IF saved = "failed" THEN disk ELSE Memory'

Init ==
    /\ entitlements = EmptyMap
    /\ devices = EmptyMap
    /\ sessions = EmptyMap
    /\ nodes = [n \in Nodes |-> "online"]
    /\ now = 0
    /\ disk = Memory

-----------------------------------------------------------------------------
(* Redeem, as far as access is concerned: its payment is the wallet's part. *)
Redeem(u, p, e, saved) ==
    /\ e \notin DOMAIN entitlements
    /\ entitlements' = Put(entitlements, e,
                           [user |-> u, plan |-> p, endsAt |-> now + Duration[p]])
    /\ UNCHANGED <<devices, sessions, nodes, now>>
    /\ saveLocked(saved)

BoundDevices(m, u) == {d \in DOMAIN m.devices : m.devices[d] = u}

(* Mutant: anybody's entitlement raises the limit. *)
RaisesAnyLimit(e, u) == now < entitlements[e].endsAt

(* deviceLimitLocked counts an entitlement strictly before its end only. *)
RaisesDeviceLimit(e, u) == entitlements[e].user = u /\ now < entitlements[e].endsAt

(* count < deviceLimitLocked(u), the largest limit that counts. *)
BelowDeviceLimit(u, count) ==
    \/ count < BaseDeviceLimit
    \/ \E e \in DOMAIN entitlements :
          /\ RaisesDeviceLimit(e, u)
          /\ count < MaxBoundDevices[entitlements[e].plan]

(* Devices are the one kind of record that is deleted: one that is only gone *)
(* from memory still has its id.                                             *)
NewDeviceId(d) == d \notin DOMAIN devices \cup DOMAIN disk.devices

BindDevice(u, d, saved) ==
    /\ NewDeviceId(d)
    /\ BelowDeviceLimit(u, Cardinality(BoundDevices(Memory, u)))
    /\ devices' = Put(devices, d, u)
    /\ UNCHANGED <<entitlements, sessions, nodes, now>>
    /\ saveLocked(saved)

(* Mutants: no session is looked at, or the stored ones in place of memory's. *)
InUseIgnored(d) == FALSE

InUseStored(d) ==
    \E s \in DOMAIN disk.sessions :
        disk.sessions[s].device = d /\ disk.sessions[s].status = "connected"

InUse(d) ==
    \E s \in DOMAIN sessions : sessions[s].device = d /\ sessions[s].status = "connected"

UnbindDevice(u, d, saved) ==
    /\ d \in DOMAIN devices
    /\ devices[d] = u
    /\ ~InUse(d)
    /\ devices' = Remove(devices, d)
    /\ UNCHANGED <<entitlements, sessions, nodes, now>>
    /\ saveLocked(saved)

Connected(m, e) ==
    {s \in DOMAIN m.sessions : /\ m.sessions[s].entitlement = e
                               /\ m.sessions[s].status = "connected"}

(* Connect counts an entitlement until and at its end. *)
EntitlementUsable(u, e) ==
    /\ e \in DOMAIN entitlements
    /\ entitlements[e].user = u
    /\ now <= entitlements[e].endsAt

NodeUsable(e, n, protocol) ==
    /\ nodes[n] = "online"
    /\ protocol \in PlanProtocols[entitlements[e].plan]
    /\ GroupOf[n] \in PlanGroups[entitlements[e].plan]

OwnsDevice(u, d) == d \in DOMAIN devices /\ devices[d] = u

(* Mutant: off by one. *)
HasFreeSlotOrOne(e) ==
    Cardinality(Connected(Memory, e)) <= MaxConcurrentSessions[entitlements[e].plan]

HasFreeSlot(e) ==
    Cardinality(Connected(Memory, e)) < MaxConcurrentSessions[entitlements[e].plan]

Connect(u, e, d, n, protocol, s, saved) ==
    /\ s \notin DOMAIN sessions
    /\ EntitlementUsable(u, e)
    /\ OwnsDevice(u, d)
    /\ NodeUsable(e, n, protocol)
    /\ HasFreeSlot(e)
    /\ sessions' = Put(sessions, s, [user |-> u, device |-> d, entitlement |-> e,
                                     node |-> n, status |-> "connected"])
    /\ UNCHANGED <<entitlements, devices, nodes, now>>
    /\ saveLocked(saved)

(* A session that is disconnected already may be disconnected again. *)
Disconnect(u, s, saved) ==
    /\ s \in DOMAIN sessions
    /\ sessions[s].user = u
    /\ sessions' = [sessions EXCEPT ![s].status = "disconnected"]
    /\ UNCHANGED <<entitlements, devices, nodes, now>>
    /\ saveLocked(saved)

-----------------------------------------------------------------------------
(* A node's agent: bootstrap, with the right token, puts the node online;  *)
(* a heartbeat may carry a status.                                         *)
AgentBootstrap(n, saved) ==
    /\ nodes' = [nodes EXCEPT ![n] = "online"]
    /\ UNCHANGED <<entitlements, devices, sessions, now>>
    /\ saveLocked(saved)

(* Mutant: a heartbeat without a status blanks the node's. *)
HeartbeatBlanks(n, status, saved) ==
    /\ nodes' = [nodes EXCEPT ![n] = ""]
    /\ UNCHANGED <<entitlements, devices, sessions, now>>
    /\ saveLocked(saved)

AgentHeartbeat(n, status, saved) ==
    /\ nodes' = [nodes EXCEPT ![n] = status]
    /\ UNCHANGED <<entitlements, devices, sessions, now>>
    /\ saveLocked(saved)

(* Another component's operation, or a heartbeat without a status, saves. *)
SaveByOthers(saved) ==
    /\ UNCHANGED <<stateVars, now>>
    /\ saveLocked(saved)

Tick ==
    /\ now < MaxTime
    /\ now' = now + 1
    /\ UNCHANGED <<stateVars, disk>>

(* Mutant: applySnapshot forgets the sessions. *)
RestartWithoutSessions ==
    /\ entitlements' = disk.entitlements
    /\ devices' = disk.devices
    /\ sessions' = EmptyMap
    /\ nodes' = disk.nodes
    /\ UNCHANGED <<now, disk>>

CrashRestart ==
    /\ entitlements' = disk.entitlements
    /\ devices' = disk.devices
    /\ sessions' = disk.sessions
    /\ nodes' = disk.nodes
    /\ UNCHANGED <<now, disk>>

(* Every step that clients are not told of, as far as devices and sessions go. *)
Unasked ==
    \/ \E saved \in SaveOutcomes :
        \/ \E u \in Users, p \in Plans, e \in EntIds : Redeem(u, p, e, saved)
        \/ \E n \in Nodes : \/ AgentBootstrap(n, saved)
                            \/ \E status \in NodeStatuses : AgentHeartbeat(n, status, saved)
        \/ SaveByOthers(saved)
    \/ Tick
    \/ CrashRestart

Next ==
    \/ Unasked
    \/ \E saved \in SaveOutcomes, u \in Users :
        \/ \E d \in DeviceIds : BindDevice(u, d, saved) \/ UnbindDevice(u, d, saved)
        \/ \E e \in EntIds, d \in DeviceIds, n \in Nodes, protocol \in Protocols,
              s \in SessionIds : Connect(u, e, d, n, protocol, s, saved)
        \/ \E s \in SessionIds : Disconnect(u, s, saved)

Spec == Init /\ [][Next]_vars

-----------------------------------------------------------------------------
WellFormed(m) ==
    /\ IsMap(m.entitlements, EntIds, Entitlement)
    /\ IsMap(m.devices, DeviceIds, Users)
    /\ IsMap(m.sessions, SessionIds, Session)
    /\ m.nodes \in [Nodes -> NodeStatuses]

(* Memory and the snapshot are well formed. *)
TypeOK ==
    /\ WellFormed(Memory) /\ WellFormed(disk)
    /\ now \in 0..MaxTime

WithinSlots(m) ==
    \A e \in DOMAIN m.entitlements :
        Cardinality(Connected(m, e)) <= MaxConcurrentSessions[m.entitlements[e].plan]

WithinDeviceLimits(m) ==
    \A u \in Users :
        \/ Cardinality(BoundDevices(m, u)) <= BaseDeviceLimit
        \/ \E e \in DOMAIN m.entitlements :
              /\ m.entitlements[e].user = u
              /\ Cardinality(BoundDevices(m, u)) <= MaxBoundDevices[m.entitlements[e].plan]

SessionsRooted(m) ==
    \A s \in DOMAIN m.sessions :
        LET x == m.sessions[s]
        IN  /\ x.entitlement \in DOMAIN m.entitlements
            /\ m.entitlements[x.entitlement].user = x.user
            /\ x.status = "connected" => x.device \in DOMAIN m.devices
                                         /\ m.devices[x.device] = x.user

(* No entitlement ever has more sessions connected than its plan allows, in   *)
(* memory or in what a restart would load (Connect's count).                  *)
ConcurrencyCapped == WithinSlots(Memory) /\ WithinSlots(disk)

(* Nobody has more devices bound than the free limit or the plan of some      *)
(* entitlement of theirs, current or expired, allows (BindDevice).            *)
DevicesCapped == WithinDeviceLimits(Memory) /\ WithinDeviceLimits(disk)

(* A session is its entitlement owner's, and while it is connected its device *)
(* stays bound to that owner, so its profile can be fetched (UnbindDevice     *)
(* against Connect, GetProfile).                                              *)
ConnectedDeviceBound == SessionsRooted(Memory) /\ SessionsRooted(disk)

(* A stored session is never dropped or moved to another user, device,        *)
(* entitlement or node, and once stored as ended it stays ended, across       *)
(* restarts and repeated calls (Connect, Disconnect, applySnapshot).          *)
StoredSessionsKept ==
    [][\A s \in DOMAIN disk.sessions :
          /\ s \in DOMAIN disk'.sessions
          /\ disk'.sessions[s] \in {disk.sessions[s],
                                    [disk.sessions[s] EXCEPT !.status = "disconnected"]}]_vars
=============================================================================
