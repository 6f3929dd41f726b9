\* Four handlers, two at a time, over two members, two numbers and two emails.
CONSTANTS
    Members = {m1, m2}
    Workers = {w1, w2}
    Mobiles = {p1, p2}
    Emails = {e1, e2}
    None = None
    SystemEmail = SystemEmail
    MaxResetAttempts = 1
    Cooldown = 1
    CodeLife = 2
    MaxStarts = 4
    MaxTime = 2
    MaxAborts = 1
SPECIFICATION Spec
SYMMETRY MCSymmetry
INVARIANTS
    AccountsBelong
    CodeWorksOnce
    OnlyLastCodeWorks
CHECK_DEADLOCK FALSE
