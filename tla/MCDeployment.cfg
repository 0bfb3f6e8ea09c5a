SPECIFICATION FairDeploySpec
CONSTANTS
    n1 = n1
    n2 = n2
    p1 = p1
    p2 = p2
    Nodes = {n1, n2}
    People = {p1, p2}
    Enrolled = {n1}
    NoState = NoState
    SaveOutcomes = {"ok", "failed", "unsure"}
INVARIANTS
    PromisedIsStored
    ServesWhatIsStored
PROPERTIES
    EnlistedComeBack
