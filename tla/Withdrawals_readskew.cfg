\* The same requests, without a frequency rule, created while others are
\* being settled.
CONSTANTS
    Members = {m1}
    Requests = {r1, r2}
    Payouts = {p1}
    Workers = {w1, w2}
    Accounts = {a1}
    None = None
    WithdrawablePoints = {1, 2}
    LegacyPoints = {}
    NetAmount <- MCNetAmount
    FrequencyDays = 0
    IdentityOnFile = {m1}
    BankOrUpiRequired = TRUE
    GatewayEnabled = FALSE
    Reversals = FALSE
    UpsertLocksRow = TRUE
    MaxBalance = 2
    MaxDay = 0
    MaxAborts = 0
SPECIFICATION Spec
SYMMETRY MCSymmetry
INVARIANTS
    NoDoubleSpend
