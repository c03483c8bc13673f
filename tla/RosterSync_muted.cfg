SPECIFICATION Spec
CONSTANTS
    s1 = s1  s2 = s2  s3 = s3
    u1 = u1  u2 = u2
    None = None
    Sessions <- Three
    Users <- TwoUsers
    userOf <- TwiceUser
    MaxToggles <- SecondMutes
    Leavers <- Second
CHECK_DEADLOCK FALSE
INVARIANT MicShown
