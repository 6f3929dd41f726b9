\* Three members: two that one refers, or a loop of two and a third who walks into it.
CONSTANTS
    Members = {m1, m2, m3}
    Sources = {m1, m2, m3}
    Workers = {w1, w2}
    AwardPoints = {0, 2}
    Cap = 3
    None = None
    MaxAborts = 1
SPECIFICATION Spec
SYMMETRY MCSymmetry
INVARIANTS
    BalanceIsSum
    ReferralsAcyclic
    CapRespected
    EarnedByActivation
CHECK_DEADLOCK FALSE
