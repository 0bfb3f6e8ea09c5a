SPECIFICATION FairTopupSpec
CONSTANTS
    u1 = u1
    o1 = o1
    c1 = c1
    c2 = c2
    t1 = t1
    t2 = t2
    g1 = g1
    basic = basic
    Users = {u1}
    Price <- MCPrice
    PointInputs <- MCPointInputs
    TradeNos = {t1, t2}
    NoTradeNo = NoTradeNo
    HalfRange = 128
    GatewayNo <- MCGatewayNo
    OrderIds = {o1}
    GrantIds = {g1}
    Plans = {basic}
    SaveOutcomes = {"ok", "failed", "unsure"}
    Callers = {c1, c2}
    GivesUp = TRUE
INVARIANTS
    CreditMatchesTrade
    NoOrphanTrade
    SettledIsStoredOrUnsaved
    PaymentOwedOrStored
PROPERTIES
    PaymentEventuallyStored
    PaidStaysPaid
