\* Either client: two tasks of a tab of one account.
CONSTANTS
    Sides = {"staff", "member"}
    Users = {u1}
    Tasks = {c1, c2}
    None = None
    AccessLife = 1
    RefreshLife = 2
    MaxTime = 2
    MaxFailures = 1
SPECIFICATION FairSpec
INVARIANTS
    MemberSessionUsable
    LoadingIsSettled
PROPERTIES
    ShutOut
    TasksEnd
CHECK_DEADLOCK FALSE
