SPECIFICATION Spec
CONSTANTS
    u1 = u1
    u2 = u2
    o1 = o1
    o2 = o2
    o3 = o3
    g1 = g1
    g2 = g2
    t1 = t1
    basic = basic
    Users = {u1, u2}
    OrderIds = {o1, o2, o3}
    GrantIds = {g1, g2}
    Plans = {basic}
    Price <- MCPrice
    PointInputs <- MCPointInputs
    TradeNos = {t1}
    NoTradeNo = NoTradeNo
    HalfRange = 4
    SaveOutcomes = {"ok", "failed"}
SYMMETRY Ids
INVARIANTS
    TypeOK
    PaidExactlyOnce
    NothingUnbooked
    RunningBalance
    NoOverdraft
    MemoryExtendsDisk
PROPERTIES
    StoredHistoryGrows
    ImplementsAccountBook
