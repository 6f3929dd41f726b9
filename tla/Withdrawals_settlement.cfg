\* Two handlers settle one request by hand and through RazorpayX, retrying
\* after a failed payout, with lost, repeated, late and reordered webhooks.
CONSTANTS
    Members = {m1}
    Requests = {r1}
    Payouts = {p1, p2}
    Workers = {w1, w2}
    Accounts = {a1}
    None = None
    WithdrawablePoints = {1}
    LegacyPoints = {}
    NetAmount <- MCNetAmount
    FrequencyDays = 0
    IdentityOnFile = {m1}
    BankOrUpiRequired = TRUE
    GatewayEnabled = TRUE
    Reversals = FALSE
    UpsertLocksRow = TRUE
    MaxBalance = 1
    MaxDay = 0
    MaxAborts = 1
SPECIFICATION FairSpec
INVARIANTS
    OutcomesAreTrue
PROPERTIES
    PayoutResolves
