SPECIFICATION Spec
CONSTANTS
    r1 = r1  r2 = r2  r3 = r3  r4 = r4
    e1 = e1  e2 = e2
    None = None
    Requests <- MCRequests
    Emails <- MCEmails
    Indexed = TRUE
SYMMETRY Symmetry
CHECK_DEADLOCK FALSE
INVARIANT SignedInVerified
INVARIANT PasswordByOwner
INVARIANT SpentToken
INVARIANT IInv
PROPERTY BookSpec
