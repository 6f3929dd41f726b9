\* Two members; two captured payments and cash compete to activate and renew.
CONSTANTS
    Members = {m1, m2}
    Workers = {w1, w2}
    Captures = {g1, g2}
    Plans = {bronze}
    bronze = bronze
    gold = gold
    platinum = platinum
    None = None
    Fee <- MCFee
    Overrides = {}
    Tier <- MCTier
    LifetimePlans = {}
    Validity <- MCValidity
    Handlers = {"submit", "manual", "gateway"}
    MaxReceipts = 3
    MaxDay = 1
    MaxAborts = 1
SPECIFICATION Spec
SYMMETRY MCSymmetry
INVARIANTS
    RecordedOnce
    ActivatedOnce
    MembershipSeriesDense
PROPERTIES
    FeesSpec
CHECK_DEADLOCK FALSE
