\* Two members over four days: the daily job, renewals and suspensions.
CONSTANTS
    Members = {m1, m2}
    Workers = {w1, w2}
    Captures = {g1}
    Plans = {bronze}
    bronze = bronze
    gold = gold
    platinum = platinum
    None = None
    Fee <- MCFee
    Overrides = {}
    Tier <- MCTier
    LifetimePlans = {}
    Validity <- MCValidity
    Handlers = {"submit", "manual", "sweep", "suspend"}
    MaxReceipts = 2
    MaxDay = 3
    MaxAborts = 1
SPECIFICATION FairSpec
INVARIANTS
    TrailAccountsForStatus
PROPERTIES
    LapsedExpires
    StatusChanges
CHECK_DEADLOCK FALSE
