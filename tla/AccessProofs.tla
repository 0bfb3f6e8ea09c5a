---------------------------- MODULE AccessProofs ----------------------------
(***************************************************************************)
(* Access's invariants, for any users, plans with their limits, nodes, ids *)
(* and outcomes of saving: each operation keeps them of memory, and the    *)
(* snapshot is what it was or a copy of memory.                            *)
(***************************************************************************)
EXTENDS ConnectFlow, MapsProofs, FiniteSetTheorems, TLAPS

USE AccessConstants

(* What is claimed of one copy of the state. *)
Sound(m) ==
    /\ WellFormed(m)
    /\ WithinSlots(m)
    /\ WithinDeviceLimits(m)
    /\ SessionsRooted(m)

(* m has the sessions of n, as they were or ended. *)
KeepsSessions(m, n) ==
    \A s \in DOMAIN n.sessions :
        /\ s \in DOMAIN m.sessions
        /\ m.sessions[s] \in {n.sessions[s],
                              [n.sessions[s] EXCEPT !.status = "disconnected"]}

AccessInv ==
    /\ Sound(Memory) /\ Sound(disk) /\ KeepsSessions(Memory, disk)
    /\ now \in 0..MaxTime

-----------------------------------------------------------------------------
(* Both counts are of finite sets of ids. *)
LEMMA Counts ==
    ASSUME NEW m, WellFormed(m)
    PROVE  /\ \A e : IsFiniteSet(Connected(m, e)) /\ Cardinality(Connected(m, e)) \in Nat
           /\ \A u : IsFiniteSet(BoundDevices(m, u)) /\ Cardinality(BoundDevices(m, u)) \in Nat
<1>1. \A e : Connected(m, e) \subseteq SessionIds
  BY DEF Connected, WellFormed, IsMap
<1>2. \A u : BoundDevices(m, u) \subseteq DeviceIds
  BY DEF BoundDevices, WellFormed, IsMap
<1> QED BY <1>1, <1>2, FS_Subset, FS_CardinalityType

LEMMA SessionsKeptItself == ASSUME NEW m PROVE KeepsSessions(m, m)
BY DEF KeepsSessions

(* An ended session stays ended. *)
LEMMA SessionsKeptTransitive ==
    ASSUME NEW l, NEW m, NEW n, WellFormed(n), KeepsSessions(l, m), KeepsSessions(m, n)
    PROVE  KeepsSessions(l, n)
<1> SUFFICES ASSUME NEW s \in DOMAIN n.sessions
             PROVE  /\ s \in DOMAIN l.sessions
                    /\ l.sessions[s] \in {n.sessions[s],
                              [n.sessions[s] EXCEPT !.status = "disconnected"]}
  BY DEF KeepsSessions
<1>1. n.sessions[s] \in Session  BY DEF WellFormed, IsMap
<1>2. [[n.sessions[s] EXCEPT !.status = "disconnected"] EXCEPT !.status = "disconnected"]
        = [n.sessions[s] EXCEPT !.status = "disconnected"]
  BY <1>1 DEF Session
<1> QED BY <1>2 DEF KeepsSessions

(* The slots of a plan are not exceeded where no entitlement got a session    *)
(* that it had not: a new entitlement has none.                               *)
LEMMA SlotsKept ==
    ASSUME NEW m, NEW n, WellFormed(m), WellFormed(n), WithinSlots(m), SessionsRooted(m),
           \A e : Connected(n, e) \subseteq Connected(m, e),
           \A e \in DOMAIN m.entitlements : n.entitlements[e] = m.entitlements[e]
    PROVE  WithinSlots(n)
<1> SUFFICES ASSUME NEW e \in DOMAIN n.entitlements
             PROVE  Cardinality(Connected(n, e))
                      <= MaxConcurrentSessions[n.entitlements[e].plan]
  BY DEF WithinSlots
<1>1. MaxConcurrentSessions[n.entitlements[e].plan] \in Nat
  BY DEF WellFormed, IsMap, Entitlement
<1>2. /\ Cardinality(Connected(n, e)) <= Cardinality(Connected(m, e))
      /\ Cardinality(Connected(m, e)) \in Nat /\ Cardinality(Connected(n, e)) \in Nat
  BY Counts, FS_Subset
<1>3. CASE e \in DOMAIN m.entitlements
  BY <1>1, <1>2, <1>3 DEF WithinSlots
<1>4. CASE e \notin DOMAIN m.entitlements
  <2>1. Connected(m, e) = {}  BY <1>4 DEF SessionsRooted, Connected
  <2>2. Cardinality(Connected(m, e)) = 0  BY <2>1, FS_EmptySet
  <2> QED BY <1>1, <1>2, <2>2
<1> QED BY <1>3, <1>4

(* Nobody's devices exceed their limits where nobody got another device. *)
LEMMA DeviceLimitsKept ==
    ASSUME NEW m, NEW n, WellFormed(m), WellFormed(n), WithinDeviceLimits(m),
           \A u : BoundDevices(n, u) \subseteq BoundDevices(m, u),
           \A e \in DOMAIN m.entitlements : /\ e \in DOMAIN n.entitlements
                                            /\ n.entitlements[e] = m.entitlements[e]
    PROVE  WithinDeviceLimits(n)
<1> SUFFICES ASSUME NEW u \in Users
             PROVE  \/ Cardinality(BoundDevices(n, u)) <= BaseDeviceLimit
                    \/ \E e \in DOMAIN n.entitlements :
                          /\ n.entitlements[e].user = u
                          /\ Cardinality(BoundDevices(n, u))
                               <= MaxBoundDevices[n.entitlements[e].plan]
  BY DEF WithinDeviceLimits
<1>1. /\ Cardinality(BoundDevices(n, u)) <= Cardinality(BoundDevices(m, u))
      /\ Cardinality(BoundDevices(m, u)) \in Nat /\ Cardinality(BoundDevices(n, u)) \in Nat
  BY Counts, FS_Subset
<1>2. CASE Cardinality(BoundDevices(m, u)) <= BaseDeviceLimit
  BY <1>1, <1>2
<1>3. ASSUME NEW e \in DOMAIN m.entitlements, m.entitlements[e].user = u,
             Cardinality(BoundDevices(m, u)) <= MaxBoundDevices[m.entitlements[e].plan]
      PROVE  \E x \in DOMAIN n.entitlements :
                 /\ n.entitlements[x].user = u
                 /\ Cardinality(BoundDevices(n, u))
                      <= MaxBoundDevices[n.entitlements[x].plan]
  <2>1. MaxBoundDevices[m.entitlements[e].plan] \in Nat
    BY DEF WellFormed, IsMap, Entitlement
  <2> QED BY <1>1, <1>3, <2>1
<1> QED BY <1>2, <1>3 DEF WithinDeviceLimits

-----------------------------------------------------------------------------
(* Redeem adds an entitlement that has no session yet. *)
LEMMA RedeemKeeps ==
    ASSUME Sound(Memory), NEW u \in Users, NEW p \in Plans, NEW e \in EntIds,
           now \in 0..MaxTime, NEW saved, Redeem(u, p, e, saved)
    PROVE  Sound(Memory') /\ KeepsSessions(Memory', Memory)
<1> DEFINE new == [user |-> u, plan |-> p, endsAt |-> now + Duration[p]]
<1>1. /\ e \notin DOMAIN entitlements /\ entitlements' = Put(entitlements, e, new)
      /\ devices' = devices /\ sessions' = sessions /\ nodes' = nodes
  BY DEF Redeem
<1>2. new \in Entitlement  BY DEF Entitlement
<1>3. IsMap(entitlements, EntIds, Entitlement)  BY DEF Sound, WellFormed, Memory
<1> HIDE DEF new
<1>4. /\ IsMap(entitlements', EntIds, Entitlement)
      /\ DOMAIN entitlements' = DOMAIN entitlements \cup {e}
      /\ \A x \in DOMAIN entitlements : entitlements'[x] = entitlements[x]
  BY <1>1, <1>2, <1>3 DEF IsMap, Put
<1>5. WellFormed(Memory')  BY <1>1, <1>4 DEF Sound, WellFormed, Memory
<1>6. \A x : /\ Connected(Memory', x) \subseteq Connected(Memory, x)
             /\ BoundDevices(Memory', x) \subseteq BoundDevices(Memory, x)
  BY <1>1 DEF Connected, BoundDevices, Memory
<1>7. \A x \in DOMAIN Memory.entitlements :
          /\ x \in DOMAIN Memory'.entitlements
          /\ Memory'.entitlements[x] = Memory.entitlements[x]
  BY <1>4 DEF Memory
<1>8. WithinSlots(Memory')  BY <1>5, <1>6, <1>7, SlotsKept DEF Sound
<1>9. WithinDeviceLimits(Memory')  BY <1>5, <1>6, <1>7, DeviceLimitsKept DEF Sound
<1>10. SessionsRooted(Memory')  BY <1>1, <1>4 DEF Sound, SessionsRooted, Memory
<1>11. KeepsSessions(Memory', Memory)  BY <1>1 DEF KeepsSessions, Memory
<1> QED BY <1>5, <1>8, <1>9, <1>10, <1>11 DEF Sound

(* BindDevice adds a device within the limit that holds now. *)
LEMMA BindDeviceKeeps ==
    ASSUME Sound(Memory), NEW u \in Users, NEW d \in DeviceIds, NEW saved,
           BindDevice(u, d, saved)
    PROVE  Sound(Memory') /\ KeepsSessions(Memory', Memory)
<1>1. /\ d \notin DOMAIN devices /\ devices' = Put(devices, d, u)
      /\ entitlements' = entitlements /\ sessions' = sessions /\ nodes' = nodes
      /\ BelowDeviceLimit(u, Cardinality(BoundDevices(Memory, u)))
  BY DEF BindDevice, NewDeviceId
<1>2. IsMap(devices, DeviceIds, Users)  BY DEF Sound, WellFormed, Memory
<1>3. /\ IsMap(devices', DeviceIds, Users) /\ DOMAIN devices' = DOMAIN devices \cup {d}
      /\ devices'[d] = u /\ \A x \in DOMAIN devices : devices'[x] = devices[x]
  BY <1>1, <1>2 DEF IsMap, Put
<1>4. WellFormed(Memory')  BY <1>1, <1>3 DEF Sound, WellFormed, Memory
<1>5. WithinSlots(Memory')
  BY <1>1 DEF Sound, WithinSlots, Connected, Memory
<1>6. SessionsRooted(Memory')  BY <1>1, <1>3 DEF Sound, SessionsRooted, Memory
<1>7. WithinDeviceLimits(Memory')
  <2> SUFFICES ASSUME NEW v \in Users
               PROVE  \/ Cardinality(BoundDevices(Memory', v)) <= BaseDeviceLimit
                      \/ \E e \in DOMAIN entitlements :
                            /\ entitlements[e].user = v
                            /\ Cardinality(BoundDevices(Memory', v))
                                 <= MaxBoundDevices[entitlements[e].plan]
    BY <1>1 DEF WithinDeviceLimits, Memory
  <2>1. CASE v # u
    <3>1. BoundDevices(Memory', v) = BoundDevices(Memory, v)
      BY <1>1, <1>3, <2>1 DEF BoundDevices, Memory
    <3> QED BY <3>1 DEF Sound, WithinDeviceLimits, Memory
  <2>2. CASE v = u
    <3> DEFINE count == Cardinality(BoundDevices(Memory, u))
    <3>1. BoundDevices(Memory', u) = BoundDevices(Memory, u) \cup {d}
      BY <1>1, <1>3 DEF BoundDevices, Memory
    <3>2. IsFiniteSet(BoundDevices(Memory, u)) /\ count \in Nat
      BY Counts DEF Sound
    <3>3. Cardinality(BoundDevices(Memory', u)) <= count + 1
      <4>1. Cardinality(BoundDevices(Memory, u) \cup {d}) \in {count, count + 1}
        BY <3>2, FS_AddElement
      <4> HIDE DEF count
      <4> QED BY <3>1, <3>2, <4>1
    <3>4. Cardinality(BoundDevices(Memory', u)) \in Nat  BY <1>4, Counts
    <3> HIDE DEF count
    <3>5. CASE count < BaseDeviceLimit  BY <2>2, <3>2, <3>3, <3>4, <3>5
    <3>6. ASSUME NEW e \in DOMAIN entitlements, RaisesDeviceLimit(e, u),
                 count < MaxBoundDevices[entitlements[e].plan]
          PROVE  /\ entitlements[e].user = u
                 /\ Cardinality(BoundDevices(Memory', u))
                      <= MaxBoundDevices[entitlements[e].plan]
      <4>1. MaxBoundDevices[entitlements[e].plan] \in Nat
        BY DEF Sound, WellFormed, IsMap, Entitlement, Memory
      <4> QED BY <3>2, <3>3, <3>4, <3>6, <4>1 DEF RaisesDeviceLimit
    <3> QED BY <1>1, <2>2, <3>5, <3>6 DEF BelowDeviceLimit, count
  <2> QED BY <2>1, <2>2
<1>8. KeepsSessions(Memory', Memory)  BY <1>1 DEF KeepsSessions, Memory
<1> QED BY <1>4, <1>5, <1>6, <1>7, <1>8 DEF Sound

(* UnbindDevice takes away a device that no connected session has. *)
LEMMA UnbindDeviceKeeps ==
    ASSUME Sound(Memory), NEW u \in Users, NEW d, NEW saved, UnbindDevice(u, d, saved)
    PROVE  Sound(Memory') /\ KeepsSessions(Memory', Memory)
<1>1. /\ ~InUse(d) /\ devices' = Remove(devices, d)
      /\ entitlements' = entitlements /\ sessions' = sessions /\ nodes' = nodes
  BY DEF UnbindDevice
<1>2. IsMap(devices, DeviceIds, Users)  BY DEF Sound, WellFormed, Memory
<1>3. /\ IsMap(devices', DeviceIds, Users) /\ DOMAIN devices' = DOMAIN devices \ {d}
      /\ \A x \in DOMAIN devices' : devices'[x] = devices[x]
  BY <1>1, <1>2, Removed, RemoveIsMap
<1>4. WellFormed(Memory')  BY <1>1, <1>3 DEF Sound, WellFormed, Memory
<1>5. WithinSlots(Memory')  BY <1>1 DEF Sound, WithinSlots, Connected, Memory
<1>6. SessionsRooted(Memory')  BY <1>1, <1>3 DEF Sound, SessionsRooted, InUse, Memory
<1>7. \A x : BoundDevices(Memory', x) \subseteq BoundDevices(Memory, x)
  BY <1>3 DEF BoundDevices, Memory
<1>8. WithinDeviceLimits(Memory')
  <2>1. Memory'.entitlements = Memory.entitlements  BY <1>1 DEF Memory
  <2> QED BY <1>4, <1>7, <2>1, DeviceLimitsKept DEF Sound
<1>9. KeepsSessions(Memory', Memory)  BY <1>1 DEF KeepsSessions, Memory
<1> QED BY <1>4, <1>5, <1>6, <1>8, <1>9 DEF Sound

(* Connect adds a session to an entitlement with a free slot. *)
LEMMA ConnectKeeps ==
    ASSUME Sound(Memory), NEW u \in Users, NEW e \in EntIds, NEW d \in DeviceIds,
           NEW n \in Nodes, NEW protocol, NEW s \in SessionIds, NEW saved,
           Connect(u, e, d, n, protocol, s, saved)
    PROVE  Sound(Memory') /\ KeepsSessions(Memory', Memory)
<1> DEFINE new == [user |-> u, device |-> d, entitlement |-> e, node |-> n,
                   status |-> "connected"]
<1>1. /\ s \notin DOMAIN sessions /\ sessions' = Put(sessions, s, new)
      /\ entitlements' = entitlements /\ devices' = devices /\ nodes' = nodes
      /\ EntitlementUsable(u, e) /\ OwnsDevice(u, d) /\ HasFreeSlot(e)
  BY DEF Connect
<1>2. /\ new \in Session /\ new.entitlement = e /\ new.user = u /\ new.device = d
  BY DEF Session
<1>3. IsMap(sessions, SessionIds, Session)  BY DEF Sound, WellFormed, Memory
<1> HIDE DEF new
<1>4. /\ IsMap(sessions', SessionIds, Session) /\ DOMAIN sessions' = DOMAIN sessions \cup {s}
      /\ sessions'[s] = new /\ \A x \in DOMAIN sessions : sessions'[x] = sessions[x]
  BY <1>1, <1>2, <1>3 DEF IsMap, Put
<1>5. WellFormed(Memory')  BY <1>1, <1>4 DEF Sound, WellFormed, Memory
<1>6. WithinSlots(Memory')
  <2> SUFFICES ASSUME NEW x \in DOMAIN entitlements
               PROVE  Cardinality(Connected(Memory', x))
                        <= MaxConcurrentSessions[entitlements[x].plan]
    BY <1>1 DEF WithinSlots, Memory
  <2>1. CASE x # e
    <3>1. Connected(Memory', x) = Connected(Memory, x)
      BY <1>2, <1>4, <2>1 DEF Connected, Memory
    <3> QED BY <3>1 DEF Sound, WithinSlots, Memory
  <2>2. CASE x = e
    <3> DEFINE count == Cardinality(Connected(Memory, e))
    <3>1. Connected(Memory', e) \subseteq Connected(Memory, e) \cup {s}
      BY <1>4 DEF Connected, Memory
    <3>2. IsFiniteSet(Connected(Memory, e)) /\ count \in Nat  BY Counts DEF Sound
    <3>3. /\ IsFiniteSet(Connected(Memory, e) \cup {s})
          /\ Cardinality(Connected(Memory, e) \cup {s}) \in {count, count + 1}
      BY <3>2, FS_AddElement
    <3>4. Cardinality(Connected(Memory', e)) <= Cardinality(Connected(Memory, e) \cup {s})
      BY <3>1, <3>3, FS_Subset
    <3>5. Cardinality(Connected(Memory', e)) \in Nat  BY <1>5, Counts
    <3>6. /\ count < MaxConcurrentSessions[entitlements[e].plan]
          /\ MaxConcurrentSessions[entitlements[e].plan] \in Nat
      BY <1>1 DEF HasFreeSlot, EntitlementUsable, Sound, WellFormed, IsMap, Entitlement,
                  Memory
    <3> HIDE DEF count
    <3> QED BY <2>2, <3>2, <3>3, <3>4, <3>5, <3>6
  <2> QED BY <2>1, <2>2
<1>7. WithinDeviceLimits(Memory')
  BY <1>1 DEF Sound, WithinDeviceLimits, BoundDevices, Memory
<1>8. SessionsRooted(Memory')
  BY <1>1, <1>2, <1>4 DEF EntitlementUsable, OwnsDevice, Sound, SessionsRooted, Memory
<1>9. KeepsSessions(Memory', Memory)  BY <1>4 DEF KeepsSessions, Memory
<1> QED BY <1>5, <1>6, <1>7, <1>8, <1>9 DEF Sound

(* Disconnect ends a session, if it had not ended already. *)
LEMMA DisconnectKeeps ==
    ASSUME Sound(Memory), NEW u, NEW s, NEW saved, Disconnect(u, s, saved)
    PROVE  Sound(Memory') /\ KeepsSessions(Memory', Memory)
<1>1. /\ s \in DOMAIN sessions
      /\ sessions' = [sessions EXCEPT ![s].status = "disconnected"]
      /\ entitlements' = entitlements /\ devices' = devices /\ nodes' = nodes
  BY DEF Disconnect
<1>2. sessions \in [DOMAIN sessions -> Session] /\ DOMAIN sessions \subseteq SessionIds
  BY DEF Sound, WellFormed, IsMap, Memory
<1>3. /\ sessions' \in [DOMAIN sessions -> Session]
      /\ sessions'[s] = [sessions[s] EXCEPT !.status = "disconnected"]
      /\ sessions'[s].status = "disconnected"
      /\ \A x \in DOMAIN sessions : x # s => sessions'[x] = sessions[x]
      /\ \A x \in DOMAIN sessions : /\ sessions'[x].entitlement = sessions[x].entitlement
                                    /\ sessions'[x].user = sessions[x].user
                                    /\ sessions'[x].device = sessions[x].device
  BY <1>1, <1>2 DEF Session
<1>4. WellFormed(Memory')  BY <1>1, <1>2, <1>3 DEF Sound, WellFormed, IsMap, Memory
<1>5. WithinSlots(Memory')
  <2>1. \A e : Connected(Memory', e) \subseteq Connected(Memory, e)
    BY <1>3 DEF Connected, Memory
  <2>2. Memory'.entitlements = Memory.entitlements  BY <1>1 DEF Memory
  <2> QED BY <1>4, <2>1, <2>2, SlotsKept DEF Sound
<1>6. WithinDeviceLimits(Memory')
  BY <1>1 DEF Sound, WithinDeviceLimits, BoundDevices, Memory
<1>7. SessionsRooted(Memory')  BY <1>1, <1>3 DEF Sound, SessionsRooted, Memory
<1>8. KeepsSessions(Memory', Memory)  BY <1>3 DEF KeepsSessions, Memory
<1> QED BY <1>4, <1>5, <1>6, <1>7, <1>8 DEF Sound

(* The status of nodes is nobody's limit. *)
LEMMA NodesChange ==
    ASSUME Sound(Memory), entitlements' = entitlements, devices' = devices,
           sessions' = sessions, nodes' \in [Nodes -> NodeStatuses]
    PROVE  Sound(Memory') /\ KeepsSessions(Memory', Memory)
<1>1. WellFormed(Memory')  BY DEF Sound, WellFormed, Memory
<1>2. WithinSlots(Memory') /\ WithinDeviceLimits(Memory')
  BY DEF Sound, WithinSlots, WithinDeviceLimits, Connected, BoundDevices, Memory
<1>3. SessionsRooted(Memory') /\ KeepsSessions(Memory', Memory)
  BY DEF Sound, SessionsRooted, KeepsSessions, Memory
<1> QED BY <1>1, <1>2, <1>3 DEF Sound

-----------------------------------------------------------------------------
LEMMA AccessInitially == Init => AccessInv
<1> SUFFICES ASSUME Init PROVE AccessInv  OBVIOUS
<1>1. /\ Memory.entitlements = EmptyMap /\ Memory.devices = EmptyMap
      /\ Memory.sessions = EmptyMap /\ Memory.nodes \in [Nodes -> NodeStatuses]
  BY DEF Init, Memory
<1>2. DOMAIN EmptyMap = {} /\ \A V : EmptyMap \in [{} -> V]  BY DEF EmptyMap
<1>3. WellFormed(Memory)  BY <1>1, <1>2 DEF WellFormed, IsMap
<1>4. WithinSlots(Memory) /\ SessionsRooted(Memory)
  BY <1>1, <1>2 DEF WithinSlots, SessionsRooted
<1>5. WithinDeviceLimits(Memory)
  <2>1. \A u : BoundDevices(Memory, u) = {}  BY <1>1, <1>2 DEF BoundDevices
  <2>2. Cardinality({}) <= BaseDeviceLimit
    <3>1. Cardinality({}) = 0 /\ BaseDeviceLimit \in Nat  BY FS_EmptySet
    <3> QED BY <3>1
  <2>3. \A u : Cardinality(BoundDevices(Memory, u)) <= BaseDeviceLimit
    BY <2>1, <2>2, Zenon
  <2> QED BY <2>3 DEF WithinDeviceLimits
<1>6. disk = Memory /\ now \in 0..MaxTime  BY DEF Init
<1> QED BY <1>3, <1>4, <1>5, <1>6, SessionsKeptItself DEF AccessInv, Sound

(* A step keeps memory sound and then saves it or not, or is a crash. *)
Advance ==
    /\ Sound(Memory') /\ KeepsSessions(Memory', Memory)
    /\ disk' \in {disk, Memory'}

LEMMA StepForms ==
    ASSUME Sound(Memory), now \in 0..MaxTime, Next
    PROVE  /\ Advance \/ CrashRestart
           /\ now' \in 0..MaxTime
<1>1. CASE CrashRestart  BY <1>1 DEF CrashRestart
<1>2. CASE Tick
  <2>1. Sound(Memory') /\ KeepsSessions(Memory', Memory)
    BY <1>2, NodesChange DEF Tick, stateVars, Sound, WellFormed, Memory
  <2> QED BY <1>2, <2>1 DEF Tick, Advance
<1>3. ASSUME NEW saved \in SaveOutcomes, NEW u \in Users, NEW p \in Plans,
             NEW e \in EntIds, Redeem(u, p, e, saved)
      PROVE  Advance /\ now' = now
  BY <1>3, RedeemKeeps DEF Redeem, saveLocked, Advance
<1>4. ASSUME NEW saved \in SaveOutcomes, NEW n \in Nodes, NEW status \in NodeStatuses,
             AgentBootstrap(n, saved) \/ AgentHeartbeat(n, status, saved)
      PROVE  Advance /\ now' = now
  <2>1. /\ entitlements' = entitlements /\ devices' = devices /\ sessions' = sessions
        /\ nodes' \in [Nodes -> NodeStatuses]
    BY <1>4 DEF AgentBootstrap, AgentHeartbeat, Sound, WellFormed, Memory
  <2> QED BY <1>4, <2>1, NodesChange DEF AgentBootstrap, AgentHeartbeat, saveLocked, Advance
<1>5. ASSUME NEW saved \in SaveOutcomes, SaveByOthers(saved)
      PROVE  Advance /\ now' = now
  <2>1. Sound(Memory') /\ KeepsSessions(Memory', Memory)
    BY <1>5, NodesChange DEF SaveByOthers, stateVars, Sound, WellFormed, Memory
  <2> QED BY <1>5, <2>1 DEF SaveByOthers, saveLocked, Advance
<1>6. ASSUME NEW saved \in SaveOutcomes, NEW u \in Users, NEW d \in DeviceIds,
             BindDevice(u, d, saved)
      PROVE  Advance /\ now' = now
  BY <1>6, BindDeviceKeeps DEF BindDevice, saveLocked, Advance
<1>7. ASSUME NEW saved \in SaveOutcomes, NEW u \in Users, NEW d \in DeviceIds,
             UnbindDevice(u, d, saved)
      PROVE  Advance /\ now' = now
  BY <1>7, UnbindDeviceKeeps DEF UnbindDevice, saveLocked, Advance
<1>8. ASSUME NEW saved \in SaveOutcomes, NEW u \in Users, NEW e \in EntIds,
             NEW d \in DeviceIds, NEW n \in Nodes, NEW protocol \in Protocols,
             NEW s \in SessionIds, Connect(u, e, d, n, protocol, s, saved)
      PROVE  Advance /\ now' = now
  BY <1>8, ConnectKeeps DEF Connect, saveLocked, Advance
<1>9. ASSUME NEW saved \in SaveOutcomes, NEW u \in Users, NEW s \in SessionIds,
             Disconnect(u, s, saved)
      PROVE  Advance /\ now' = now
  BY <1>9, DisconnectKeeps DEF Disconnect, saveLocked, Advance
<1>10. "online" \in NodeStatuses  OBVIOUS
<1> QED BY <1>1, <1>2, <1>3, <1>4, <1>5, <1>6, <1>7, <1>8, <1>9, <1>10 DEF Next, Unasked

LEMMA AccessStep ==
    ASSUME AccessInv, [Next]_vars
    PROVE  AccessInv' /\ KeepsSessions(disk', disk)
<1> USE DEF AccessInv
<1>1. CASE UNCHANGED vars
  <2>1. Memory' = Memory /\ disk' = disk /\ now' = now  BY <1>1 DEF vars, Memory
  <2> QED BY <2>1, SessionsKeptItself
<1>2. CASE Next /\ CrashRestart
  <2>1. /\ Memory' = [entitlements |-> disk.entitlements, devices |-> disk.devices,
                      sessions |-> disk.sessions, nodes |-> disk.nodes]
        /\ disk' = disk
    BY <1>2 DEF CrashRestart, Memory
  <2>2. Sound(Memory')
    BY <2>1 DEF Sound, WellFormed, WithinSlots, WithinDeviceLimits, SessionsRooted,
                Connected, BoundDevices
  <2>3. KeepsSessions(Memory', disk)  BY <2>1 DEF KeepsSessions
  <2> QED BY <1>2, <2>1, <2>2, <2>3, SessionsKeptItself, StepForms
<1>3. CASE Next /\ Advance
  <2>1. KeepsSessions(Memory', disk)
    BY <1>3, SessionsKeptTransitive DEF Advance, Sound
  <2>2. now' \in 0..MaxTime  BY <1>3, StepForms
  <2>3. CASE disk' = disk  BY <1>3, <2>1, <2>2, <2>3, SessionsKeptItself DEF Advance
  <2>4. CASE disk' = Memory'
    BY <1>3, <2>1, <2>2, <2>4, SessionsKeptItself DEF Advance
  <2> QED BY <1>3, <2>3, <2>4 DEF Advance
<1> QED BY <1>1, <1>2, <1>3, StepForms

LEMMA AccessAlways == Spec => []AccessInv
BY AccessInitially, AccessStep, PTL DEF Spec

-----------------------------------------------------------------------------
(* Entitlements, devices, sessions and nodes are well formed in both copies. *)
THEOREM AccessTyped == Spec => []TypeOK
<1>1. AccessInv => TypeOK  BY DEF AccessInv, Sound, TypeOK
<1> QED BY <1>1, AccessAlways, PTL

(* No plan ever has more sessions than it allows, whichever saves fail and    *)
(* whatever a restart brings back: Connect.                                   *)
THEOREM SlotsNeverExceeded == Spec => []ConcurrencyCapped
<1>1. AccessInv => ConcurrencyCapped  BY DEF AccessInv, Sound, ConcurrencyCapped
<1> QED BY <1>1, AccessAlways, PTL

(* Nobody ever has more devices than some entitlement of theirs allows:       *)
(* BindDevice, deviceLimitLocked.                                             *)
THEOREM DeviceLimitsNeverExceeded == Spec => []DevicesCapped
<1>1. AccessInv => DevicesCapped  BY DEF AccessInv, Sound, DevicesCapped
<1> QED BY <1>1, AccessAlways, PTL

(* A connected session has its device, in both copies: UnbindDevice, Connect. *)
THEOREM ConnectedKeepDevice == Spec => []ConnectedDeviceBound
<1>1. AccessInv => ConnectedDeviceBound  BY DEF AccessInv, Sound, ConnectedDeviceBound
<1> QED BY <1>1, AccessAlways, PTL

(* Stored sessions stay, and those that ended stay so: Connect, Disconnect,   *)
(* applySnapshot.                                                             *)
THEOREM SessionsKept == Spec => StoredSessionsKept
<1>1. AccessInv /\ [Next]_vars =>
        [\A s \in DOMAIN disk.sessions :
            /\ s \in DOMAIN disk'.sessions
            /\ disk'.sessions[s] \in {disk.sessions[s],
                  [disk.sessions[s] EXCEPT !.status = "disconnected"]}]_vars
  BY AccessStep DEF KeepsSessions
<1> QED BY <1>1, AccessAlways, PTL DEF Spec, StoredSessionsKept

-----------------------------------------------------------------------------
(* A client's calls are calls of Access, and what it keeps changes nothing.   *)
LEMMA FlowStepForms ==
    ASSUME Client \in Users, [FlowNext]_flowVars  PROVE [Next]_vars
<1>1. ASSUME NEW saved \in SaveOutcomes, NEW heard \in BOOLEAN, NEW e \in EntIds,
             NEW d \in DeviceIds, NEW n \in Nodes, NEW protocol \in Protocols,
             NEW s \in SessionIds, ClientConnects(e, d, n, protocol, s, saved, heard)
      PROVE  Next
  BY <1>1 DEF ClientConnects, ConnectAnswered, Next
<1>2. CASE ClientGetsProfile \/ ProfileLost  BY <1>2 DEF ClientGetsProfile, ProfileLost
<1>3. CASE Elsewhere
  BY <1>3 DEF Elsewhere, BindAnswered, UnbindAnswered, ConnectAnswered,
              DisconnectAnswered, Next
<1> QED BY <1>1, <1>2, <1>3 DEF FlowNext, flowVars, vars

(* The clients add nothing to what the server does (handleConnect, GetProfile): *)
(* what is shown of Access holds with them.                                     *)
THEOREM FlowImplementsAccess == ASSUME Client \in Users  PROVE FlowSpec => Spec
<1>1. FlowInit => Init  BY DEF FlowInit
<1>2. [FlowNext]_flowVars => [Next]_vars  BY FlowStepForms
<1> QED BY <1>1, <1>2, PTL DEF FlowSpec, Spec

(* A device that a client was told is gone is in neither copy: the row alone   *)
(* would not do, as the next save copies memory.                               *)
ToldTyped ==
    told = [connected |-> told.connected, disconnected |-> told.disconnected,
            bound |-> told.bound, unbound |-> told.unbound]

UnboundGone == told.unbound \cap (DOMAIN devices \cup DOMAIN disk.devices) = {}

DevicesTold ==
    /\ told.bound \cap DOMAIN devices \subseteq DOMAIN disk.devices
    /\ UnboundGone

SessionsTold ==
    /\ told.connected \subseteq DOMAIN disk.sessions
    /\ \A s \in told.disconnected :
         s \in DOMAIN disk.sessions /\ disk.sessions[s].status = "disconnected"

(* What was told of sessions is not taken back by any step. *)
LEMMA EndedStayEnded ==
    ASSUME AccessInv, KeepsSessions(disk', disk)
    PROVE  \A s \in DOMAIN disk.sessions :
              /\ s \in DOMAIN disk'.sessions
              /\ disk.sessions[s].status = "disconnected"
                   => disk'.sessions[s].status = "disconnected"
<1>1. disk.sessions \in [DOMAIN disk.sessions -> Session]
  BY DEF AccessInv, Sound, WellFormed, IsMap
<1>2. \A s \in DOMAIN disk.sessions :
         [disk.sessions[s] EXCEPT !.status = "disconnected"].status = "disconnected"
  BY <1>1 DEF Session
<1> QED BY <1>2 DEF KeepsSessions

(* An answer that adds to what was told is given for a state that is stored. *)
LEMMA Told ==
    ASSUME ToldTyped, NEW saved, NEW id,
           NEW kind \in {"connected", "disconnected", "bound", "unbound"},
           Tell(saved, kind, id)
    PROVE  /\ ToldTyped'
           /\ \A k \in {"connected", "disconnected", "bound", "unbound"} :
                 told'[k] = IF saved = "ok" /\ k = kind THEN told[k] \cup {id} ELSE told[k]
BY DEF Tell, ToldTyped

ToldInv == ToldTyped /\ DevicesTold /\ SessionsTold

(* A call that is not about devices, and whether it is one about sessions that *)
(* was answered.                                                               *)
LEMMA ConnectTold ==
    ASSUME AccessInv, ToldInv, NEW u, NEW e, NEW d, NEW n, NEW protocol, NEW s, NEW saved,
           KeepsSessions(disk', disk), ConnectAnswered(u, e, d, n, protocol, s, saved)
    PROVE  ToldInv'
<1>1. /\ s \in DOMAIN sessions' /\ devices' = devices
      /\ disk' = IF saved = "failed" THEN disk ELSE Memory'
  BY DEF ConnectAnswered, Connect, saveLocked, Put
<1>2. /\ ToldTyped' /\ told'.bound = told.bound /\ told'.unbound = told.unbound
      /\ told'.disconnected = told.disconnected
      /\ told'.connected = IF saved = "ok" THEN told.connected \cup {s} ELSE told.connected
  BY Told DEF ConnectAnswered, ToldInv, ToldTyped
<1>3. DevicesTold'
  BY <1>1, <1>2 DEF ToldInv, DevicesTold, UnboundGone, Memory
<1>4. SessionsTold'
  <2>1. \A x \in DOMAIN disk.sessions :
           /\ x \in DOMAIN disk'.sessions
           /\ disk.sessions[x].status = "disconnected"
                => disk'.sessions[x].status = "disconnected"
    BY EndedStayEnded
  <2>2. saved = "ok" => s \in DOMAIN disk'.sessions  BY <1>1 DEF Memory
  <2> QED BY <1>2, <2>1, <2>2 DEF ToldInv, SessionsTold
<1> QED BY <1>2, <1>3, <1>4 DEF ToldInv

LEMMA DisconnectTold ==
    ASSUME AccessInv, ToldInv, NEW u, NEW s, NEW saved, KeepsSessions(disk', disk),
           DisconnectAnswered(u, s, saved)
    PROVE  ToldInv'
<1>1. /\ s \in DOMAIN sessions /\ devices' = devices
      /\ sessions' = [sessions EXCEPT ![s].status = "disconnected"]
      /\ disk' = IF saved = "failed" THEN disk ELSE Memory'
  BY DEF DisconnectAnswered, Disconnect, saveLocked
<1>2. /\ ToldTyped' /\ told'.bound = told.bound /\ told'.unbound = told.unbound
      /\ told'.connected = told.connected
      /\ told'.disconnected =
            IF saved = "ok" THEN told.disconnected \cup {s} ELSE told.disconnected
  BY Told DEF DisconnectAnswered, ToldInv, ToldTyped
<1>3. DevicesTold'
  BY <1>1, <1>2 DEF ToldInv, DevicesTold, UnboundGone, Memory
<1>4. SessionsTold'
  <2>1. \A x \in DOMAIN disk.sessions :
           /\ x \in DOMAIN disk'.sessions
           /\ disk.sessions[x].status = "disconnected"
                => disk'.sessions[x].status = "disconnected"
    BY EndedStayEnded
  <2>2. /\ s \in DOMAIN sessions' /\ sessions'[s].status = "disconnected"
    <3>1. sessions \in [DOMAIN sessions -> Session]
      BY DEF AccessInv, Sound, WellFormed, IsMap, Memory
    <3> QED BY <1>1, <3>1 DEF Session
  <2>3. saved = "ok" => disk'.sessions = sessions'  BY <1>1 DEF Memory
  <2> QED BY <1>2, <2>1, <2>2, <2>3 DEF ToldInv, SessionsTold
<1> QED BY <1>2, <1>3, <1>4 DEF ToldInv

(* Binding and unbinding leave sessions alone. *)
LEMMA BindTold ==
    ASSUME AccessInv, ToldInv, NEW u, NEW d, NEW saved, KeepsSessions(disk', disk),
           BindAnswered(u, d, saved)
    PROVE  ToldInv'
<1>1. /\ d \notin told.bound \cup told.unbound /\ devices' = Put(devices, d, u)
      /\ disk' = IF saved = "failed" THEN disk ELSE Memory'
  BY DEF BindAnswered, BindDevice, saveLocked
<1>2. /\ ToldTyped' /\ told'.connected = told.connected /\ told'.unbound = told.unbound
      /\ told'.disconnected = told.disconnected
      /\ told'.bound = IF saved = "ok" THEN told.bound \cup {d} ELSE told.bound
  BY Told DEF BindAnswered, ToldInv, ToldTyped
<1>3. DOMAIN devices' = DOMAIN devices \cup {d}  BY <1>1 DEF Put
<1>4. DOMAIN disk'.devices = IF saved = "failed" THEN DOMAIN disk.devices ELSE DOMAIN devices'
  BY <1>1 DEF Memory
<1>5. DevicesTold'
  BY <1>1, <1>2, <1>3, <1>4 DEF ToldInv, DevicesTold, UnboundGone
<1>6. SessionsTold'  BY <1>2, EndedStayEnded DEF ToldInv, SessionsTold
<1> QED BY <1>2, <1>5, <1>6 DEF ToldInv

LEMMA UnbindTold ==
    ASSUME AccessInv, ToldInv, NEW u, NEW d, NEW saved, KeepsSessions(disk', disk),
           UnbindAnswered(u, d, saved)
    PROVE  ToldInv'
<1>1. /\ devices' = Remove(devices, d)
      /\ disk' = IF saved = "failed" THEN disk ELSE Memory'
  BY DEF UnbindAnswered, UnbindDevice, saveLocked
<1>2. /\ ToldTyped' /\ told'.connected = told.connected /\ told'.bound = told.bound
      /\ told'.disconnected = told.disconnected
      /\ told'.unbound = IF saved = "ok" THEN told.unbound \cup {d} ELSE told.unbound
  BY Told DEF UnbindAnswered, ToldInv, ToldTyped
<1>3. DOMAIN devices' = DOMAIN devices \ {d}  BY <1>1 DEF Remove
<1>4. DOMAIN disk'.devices = IF saved = "failed" THEN DOMAIN disk.devices ELSE DOMAIN devices'
  BY <1>1 DEF Memory
<1>5. DevicesTold'
  BY <1>1, <1>2, <1>3, <1>4 DEF ToldInv, DevicesTold, UnboundGone
<1>6. SessionsTold'  BY <1>2, EndedStayEnded DEF ToldInv, SessionsTold
<1> QED BY <1>2, <1>5, <1>6 DEF ToldInv

(* What no client is told of changes no devices, but for a restart. *)
LEMMA UntoldKept ==
    ASSUME AccessInv, ToldInv, KeepsSessions(disk', disk), UNCHANGED told,
           Unasked \/ UNCHANGED vars
    PROVE  ToldInv'
<1>1. \/ devices' = disk.devices /\ disk' = disk
      \/ devices' = devices /\ disk'.devices \in {disk.devices, devices}
  <2>1. CASE CrashRestart  BY <2>1 DEF CrashRestart
  <2>2. CASE Tick \/ UNCHANGED vars  BY <2>2 DEF Tick, stateVars, vars
  <2>3. ASSUME NEW saved, devices' = devices, saveLocked(saved)
        PROVE  disk'.devices \in {disk.devices, devices}
    BY <2>3 DEF saveLocked, Memory
  <2>4. ASSUME NEW saved, NEW u, NEW p, NEW e, Redeem(u, p, e, saved)
        PROVE  devices' = devices /\ disk'.devices \in {disk.devices, devices}
    BY <2>3, <2>4 DEF Redeem
  <2>5. ASSUME NEW saved, NEW n, NEW status,
               AgentBootstrap(n, saved) \/ AgentHeartbeat(n, status, saved)
        PROVE  devices' = devices /\ disk'.devices \in {disk.devices, devices}
    BY <2>3, <2>5 DEF AgentBootstrap, AgentHeartbeat
  <2>6. ASSUME NEW saved, SaveByOthers(saved)
        PROVE  devices' = devices /\ disk'.devices \in {disk.devices, devices}
    BY <2>3, <2>6 DEF SaveByOthers, stateVars
  <2> QED BY <2>1, <2>2, <2>4, <2>5, <2>6 DEF Unasked
<1>2. DevicesTold'  BY <1>1 DEF ToldInv, DevicesTold, UnboundGone
<1>3. SessionsTold'  BY EndedStayEnded DEF ToldInv, SessionsTold
<1>4. ToldTyped'  BY DEF ToldInv, ToldTyped
<1> QED BY <1>2, <1>3, <1>4 DEF ToldInv

(* Whatever step it is, what clients were told stays true. *)
LEMMA ToldStep ==
    ASSUME Client \in Users, AccessInv, ToldInv, [FlowNext]_flowVars  PROVE ToldInv'
<1>1. KeepsSessions(disk', disk)  BY FlowStepForms, AccessStep
<1>2. ASSUME NEW e, NEW d, NEW n, NEW protocol, NEW s, NEW saved, NEW heard,
             ClientConnects(e, d, n, protocol, s, saved, heard)
      PROVE  ToldInv'
  BY <1>1, <1>2, ConnectTold DEF ClientConnects
<1>3. CASE ClientGetsProfile \/ ProfileLost \/ UNCHANGED flowVars
  BY <1>1, <1>3, UntoldKept DEF ClientGetsProfile, ProfileLost, flowVars, vars
<1>4. CASE Elsewhere
  BY <1>1, <1>4, BindTold, UnbindTold, ConnectTold, DisconnectTold, UntoldKept DEF Elsewhere
<1> QED BY <1>2, <1>3, <1>4 DEF FlowNext

-----------------------------------------------------------------------------
(* The session a client has is stored, connected or ended, with what it asked *)
(* for.                                                                       *)
Shown(c, m) ==
    /\ c.session \in DOMAIN m.sessions
    /\ \E status \in {"connected", "disconnected"} :
          m.sessions[c.session] = [user |-> Client, device |-> c.device, node |-> c.node,
                                   entitlement |-> c.entitlement, status |-> status]

ShownInv == client.phase # "ready" => Shown(client, disk)

(* What is shown of one copy is so of one that keeps its sessions. *)
LEMMA ShownKept ==
    ASSUME NEW c, NEW m, NEW n, KeepsSessions(m, n), Shown(c, n)  PROVE Shown(c, m)
<1>1. PICK status \in {"connected", "disconnected"} :
         n.sessions[c.session] = [user |-> Client, device |-> c.device, node |-> c.node,
                                  entitlement |-> c.entitlement, status |-> status]
  BY DEF Shown
<1>2. [n.sessions[c.session] EXCEPT !.status = "disconnected"] =
         [user |-> Client, device |-> c.device, node |-> c.node,
          entitlement |-> c.entitlement, status |-> "disconnected"]
  BY <1>1
<1>3. /\ c.session \in DOMAIN m.sessions
      /\ m.sessions[c.session] \in {n.sessions[c.session],
                              [n.sessions[c.session] EXCEPT !.status = "disconnected"]}
  BY DEF Shown, KeepsSessions
<1>4. CASE m.sessions[c.session] = n.sessions[c.session]  BY <1>1, <1>3, <1>4 DEF Shown
<1>5. CASE m.sessions[c.session] = [n.sessions[c.session] EXCEPT !.status = "disconnected"]
  BY <1>2, <1>3, <1>5 DEF Shown
<1> QED BY <1>3, <1>4, <1>5

(* A client is given a session only when it was stored. *)
LEMMA ShownStep ==
    ASSUME Client \in Users, AccessInv, ShownInv, [FlowNext]_flowVars  PROVE ShownInv'
<1>1. KeepsSessions(disk', disk)  BY FlowStepForms, AccessStep
<1>2. ASSUME NEW e, NEW d, NEW n, NEW protocol, NEW s, NEW saved, NEW heard,
             ClientConnects(e, d, n, protocol, s, saved, heard)
      PROVE  ShownInv'
  <2>1. CASE client' = Ready  BY <2>1 DEF ShownInv, Ready
  <2>2. CASE client' = Holding(s, e, d, n) /\ saved = "ok"
    <3>1. /\ disk' = Memory' /\ s \in DOMAIN sessions'
          /\ sessions'[s] = [user |-> Client, device |-> d, entitlement |-> e,
                             node |-> n, status |-> "connected"]
      BY <1>2, <2>2 DEF ClientConnects, ConnectAnswered, Connect, saveLocked, Put
    <3>2. /\ client'.session = s /\ client'.device = d /\ client'.entitlement = e
          /\ client'.node = n
      BY <2>2 DEF Holding
    <3>3. disk'.sessions = sessions'  BY <3>1 DEF Memory
    <3>4. Shown(client', disk')  BY <3>1, <3>2, <3>3 DEF Shown
    <3> QED BY <3>4 DEF ShownInv
  <2> QED BY <1>2, <2>1, <2>2 DEF ClientConnects, Accepted
<1>3. CASE UNCHANGED client  BY <1>1, <1>3, ShownKept DEF ShownInv
<1>4. CASE ClientGetsProfile
  <2>1. client' = Ready \/ client' = [client EXCEPT !.phase = "shown"]
    BY <1>4 DEF ClientGetsProfile
  <2>2. CASE client' = Ready  BY <2>2 DEF ShownInv, Ready
  <2>3. CASE client' = [client EXCEPT !.phase = "shown"]
    <3>1. /\ client'.session = client.session /\ client'.device = client.device
          /\ client'.entitlement = client.entitlement /\ client'.node = client.node
      BY <2>3
    <3>2. Shown(client, disk')  BY <1>1, <1>4, ShownKept DEF ClientGetsProfile, ShownInv
    <3> QED BY <3>1, <3>2 DEF ShownInv, Shown
  <2> QED BY <2>1, <2>2, <2>3
<1>5. CASE ProfileLost  BY <1>5 DEF ProfileLost, ShownInv, Ready
<1> QED BY <1>2, <1>3, <1>4, <1>5 DEF FlowNext, Elsewhere, flowVars

(* The invariant of the clients over the server's. *)
LEMMA FlowAlways ==
    ASSUME Client \in Users  PROVE FlowSpec => [](AccessInv /\ ToldInv /\ ShownInv)
<1>1. FlowInit => ToldInv /\ ShownInv
  BY DEF FlowInit, ToldInv, ToldTyped, DevicesTold, UnboundGone, SessionsTold, ShownInv, Ready
<1>2. AccessInv /\ ToldInv /\ ShownInv /\ [FlowNext]_flowVars => ToldInv' /\ ShownInv'
  BY ToldStep, ShownStep
<1> QED BY <1>1, <1>2, FlowImplementsAccess, AccessAlways, PTL DEF FlowSpec

(* What clients were told is stored, for any number of clients, devices and     *)
(* sessions: the answers of BindDevice, UnbindDevice, Connect, Disconnect.      *)
THEOREM AnswersAreStored == ASSUME Client \in Users  PROVE FlowSpec => []AnswersStored
<1>1. ToldInv => AnswersStored
  BY DEF ToldInv, DevicesTold, UnboundGone, SessionsTold, AnswersStored
<1> QED BY <1>1, FlowAlways, PTL

(* A client shows a session only if it is stored (handleConnect, onConnect).    *)
THEOREM ShownSessionsStored ==
    ASSUME Client \in Users  PROVE FlowSpec => []ShownSessionStored
<1>1. ShownInv => ShownSessionStored  BY DEF ShownInv, Shown, ShownSessionStored
<1> QED BY <1>1, FlowAlways, PTL

(* Who has just connected is served a profile, unless the session was ended in  *)
(* between (Connect, UnbindDevice, GetProfile).                                 *)
THEOREM ConnectedClientsServed ==
    ASSUME Client \in Users  PROVE FlowSpec => []ConnectedClientServed
<1>1. ASSUME AccessInv, ShownInv  PROVE ConnectedClientServed
  <2> SUFFICES ASSUME client.phase = "connected"
               PROVE  /\ client.session \in DOMAIN sessions
                      /\ sessions[client.session].status = "connected" => ServedNow
    BY DEF ConnectedClientServed
  <2>1. Shown(client, Memory)  BY <1>1, ShownKept DEF AccessInv, ShownInv
  <2> DEFINE x == sessions[client.session]
  <2>2. /\ client.session \in DOMAIN sessions /\ x \in Session
        /\ x.user = Client /\ x.device = client.device /\ x.node = client.node
        /\ x.entitlement = client.entitlement
    BY <1>1, <2>1 DEF Shown, AccessInv, Sound, WellFormed, IsMap, Memory
  <2>3. /\ x.entitlement \in DOMAIN entitlements
        /\ entitlements[x.entitlement].user = x.user
        /\ x.status = "connected" => x.device \in DOMAIN devices /\ devices[x.device] = x.user
    BY <1>1, <2>2 DEF AccessInv, Sound, SessionsRooted, Memory
  <2>4. x.node \in Nodes  BY <2>2 DEF Session
  <2> QED BY <2>2, <2>3, <2>4 DEF ServedNow, ProfileServed
<1> QED BY <1>1, FlowAlways, PTL
=============================================================================
