\* The books and the transfers while RazorpayX also reverses payouts that it
\* processed, with a handler lost on the way and a day passing.
CONSTANTS
    Members = {m1}
    Requests = {r1}
    Payouts = {p1, p2}
    Workers = {w1, w2}
    Accounts = {a1, a2}
    None = None
    WithdrawablePoints = {1}
    LegacyPoints = {1}
    NetAmount <- MCNetAmount
    FrequencyDays = 0
    IdentityOnFile = {m1}
    BankOrUpiRequired = TRUE
    GatewayEnabled = TRUE
    Reversals = TRUE
    UpsertLocksRow = TRUE
    MaxBalance = 2
    MaxDay = 1
    MaxAborts = 1
SPECIFICATION Spec
SYMMETRY MCSymmetry
INVARIANTS
    PaidIffDebited
    TransfersFollowRequest
PROPERTIES
    RequestHistory
