\* Three plans, so that two upgrades from the first can compete; edits and deletion.
CONSTANTS
    Members = {m1}
    Workers = {w1, w2}
    Captures = {g1}
    Plans = {bronze, gold, platinum}
    bronze = bronze
    gold = gold
    platinum = platinum
    None = None
    Fee <- MCFee
    Overrides = {2}
    Tier <- MCTier
    LifetimePlans = {platinum}
    Validity <- MCValidity
    Handlers = {"plan", "submit", "remove", "manual", "upgrade", "deceased"}
    MaxReceipts = 4
    MaxDay = 0
    MaxAborts = 1
SPECIFICATION Spec
SYMMETRY MCSymmetry
INVARIANTS
    MembershipInv
PROPERTIES
    UpgradePricedFromPlan
CHECK_DEADLOCK FALSE
