\* Two members and room for one or two at an event; two rows of an earlier review.
CONSTANTS
    Members = {m1, m2}
    Sources = {r1, r2}
    Events = {e1}
    Workers = {w1, w2}
    Capacities = {1, 2}
    EventPoints = {0, 1}
    LegacyPoints = {2}
    None = None
    MaxAborts = 1
SPECIFICATION Spec
SYMMETRY MCSymmetry
INVARIANTS
    EventInv
    EvidenceDecidesPoints
PROPERTIES
    EarningSpec
    WithinCapacity
CHECK_DEADLOCK FALSE
