CONSTANTS
    Members = {m1}
    Sources = {d1, d2}
    Captures = {g1}
    Workers = {w1, w2}
    Connections = 2
    Amounts = {150}
    Percents = {0, 1}
    None = None
    MaxReceipts = 2
    MaxAborts = 1
SPECIFICATION FairSpec
INVARIANTS
    DonationInv
    PointsFollowReview
    PointsAccounted
    ReceiptsDistinct
PROPERTIES
    EarningSpec
    ReceiptsKept
    HandlersEnd
CHECK_DEADLOCK FALSE
