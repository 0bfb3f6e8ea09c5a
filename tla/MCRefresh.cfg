SPECIFICATION ClientSpec
CONSTANTS
    u1 = u1
    u2 = u2
    a1 = a1
    a2 = a2
    t1 = t1
    t2 = t2
    t3 = t3
    t4 = t4
    t5 = t5
    t6 = t6
    c1 = c1
    c2 = c2
    pw1 = pw1
    pw2 = pw2
    UserIds = {u1}
    Emails = {a1}
    Passwords = {pw1}
    Tokens = {t1, t2, t3, t4, t5, t6}
    Callers = {c1, c2}
    NoHash = NoHash
    SaveOutcomes = {"ok"}
SYMMETRY Ids
INVARIANTS
    RevokedStaysRevoked
