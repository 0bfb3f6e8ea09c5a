SPECIFICATION FlowSpec
CONSTANTS
    u1 = u1
    u2 = u2
    e1 = e1
    d1 = d1
    d2 = d2
    s1 = s1
    s2 = s2
    n1 = n1
    plan = plan
    asia = asia
    other = other
    wireguard = wireguard
    unknown = unknown
    Users = {u1, u2}
    Plans = {plan}
    Nodes = {n1}
    Groups = {asia, other}
    Protocols = {wireguard, unknown}
    EntIds = {e1}
    DeviceIds = {d1, d2}
    SessionIds = {s1, s2}
    MaxBoundDevices <- MCMaxBoundDevices
    MaxConcurrentSessions <- MCMaxConcurrentSessions
    Duration <- MCDuration
    PlanGroups <- MCPlanGroups
    PlanProtocols <- MCPlanProtocols
    GroupOf <- MCGroupOf
    NodeStatuses = {"online", "offline"}
    BaseDeviceLimit = 1
    MaxTime = 2
    SaveOutcomes = {"ok", "failed"}
    Client = u1
SYMMETRY Ids
INVARIANTS
    TypeOK
    ConcurrencyCapped
    DevicesCapped
    ConnectedDeviceBound
    AnswersStored
    ConnectedClientServed
    ShownSessionStored
PROPERTIES
    StoredSessionsKept
