SPECIFICATION FairSpec
CONSTANTS
    s1 = s1  s2 = s2  s3 = s3
    u1 = u1  u2 = u2
    None = None
    Sessions <- Pair
    Users <- TwoUsers
    userOf <- OwnUser
    MaxToggles <- EachMutes
    Leavers <- Pair
CHECK_DEADLOCK FALSE
INVARIANT RosterTold
INVARIANT MicTold
INVARIANT IInv
PROPERTY RosterReaches
