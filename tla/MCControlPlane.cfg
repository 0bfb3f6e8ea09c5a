SPECIFICATION BoundedSpec
CONSTANTS
    u1 = u1
    u2 = u2
    a1 = a1
    a2 = a2
    pw1 = pw1
    t1 = t1
    t2 = t2
    t3 = t3
    g2 = g2
    e2 = e2
    c1 = c1
    o1 = o1
    g1 = g1
    e1 = e1
    d1 = d1
    s1 = s1
    n1 = n1
    no1 = no1
    plan = plan
    family = family
    asia = asia
    wireguard = wireguard
    UserIds = {u1, u2}
    Emails = {a1, a2}
    Passwords = {pw1}
    Tokens = {t1, t2, t3}
    Callers = {c1}
    NoHash = NoHash
    OrderIds = {o1}
    GrantIds = {g1, g2}
    Plans = {plan, family}
    Price <- MCPrice
    PointInputs <- MCPointInputs
    TradeNos = {no1}
    NoTradeNo = NoTradeNo
    HalfRange = 8
    Nodes = {n1}
    Groups = {asia}
    Protocols = {wireguard}
    EntIds = {e1, e2}
    DeviceIds = {d1}
    SessionIds = {s1}
    MaxBoundDevices <- MCMaxBoundDevices
    MaxConcurrentSessions <- MCMaxConcurrentSessions
    Duration <- MCDuration
    PlanGroups <- MCPlanGroups
    PlanProtocols <- MCPlanProtocols
    GroupOf <- MCGroupOf
    NodeStatuses = {"online"}
    BaseDeviceLimit = 1
    MaxTime = 1
    SaveOutcomes = {"ok", "failed"}
SYMMETRY Ids
INVARIANTS
    RecordsHaveOwners
    EntitlementsPaidFor
    HoldingsCovered
PROPERTIES
    OwnRequestsOnly
