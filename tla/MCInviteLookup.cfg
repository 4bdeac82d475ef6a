SPECIFICATION Spec
CONSTANTS
    Calls = {c1, c2}
    RateLimit = 2
    WindowMs = 2
    MaxNow = 6
    MaxAdmits = 5
    ann = ann
    ben = ben
    annsMail = annsMail
    bensMail = bensMail
    Users <- MCUsers
    Emails <- MCEmails
    Account <- MCAccount
    Nobody = Nobody
    Cap = 1
SYMMETRY Symmetry
CONSTRAINT Bounds
INVARIANTS TypeOK UnderTwiceTheLimit SheetTellsTheTruth InviteGoesToShown
CHECK_DEADLOCK FALSE
