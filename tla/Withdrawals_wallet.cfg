\* Concurrent creates of one member next to manual settlement of earlier
\* requests, none of them overlapping a create; the settings row is locked.
CONSTANTS
    Members = {m1}
    Requests = {r1, r2, r3}
    Payouts = {p1}
    Workers = {w1, w2}
    Accounts = {a1}
    None = None
    WithdrawablePoints = {1, 2}
    LegacyPoints = {}
    NetAmount <- MCNetAmount
    FrequencyDays = 1
    IdentityOnFile = {m1}
    BankOrUpiRequired = TRUE
    GatewayEnabled = FALSE
    Reversals = FALSE
    UpsertLocksRow = TRUE
    MaxBalance = 3
    MaxDay = 1
    MaxAborts = 1
SPECIFICATION QuietSpec
SYMMETRY MCSymmetry
INVARIANTS
    NeverOverdrawn
    FrequencyRespected
    TotalsMatchPaid
PROPERTIES
    SpendingSpec
