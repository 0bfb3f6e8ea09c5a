SPECIFICATION ViewSpec
CONSTANTS
    u1 = u1
    u2 = u2
    o1 = o1
    o2 = o2
    g1 = g1
    r1 = r1
    t1 = t1
    basic = basic
    Users = {u1, u2}
    OrderIds = {o1, o2}
    GrantIds = {g1}
    Plans = {basic}
    Price <- MCPrice
    PointInputs <- MCPointInputs
    TradeNos = {t1}
    NoTradeNo = NoTradeNo
    HalfRange = 4
    SaveOutcomes = {"ok", "failed"}
    Readers = {r1}
SYMMETRY Ids
INVARIANTS
    LedgerAnswerConsistent
    OverviewHeld
