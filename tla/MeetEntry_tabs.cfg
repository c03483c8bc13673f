SPECIFICATION EntryFairSpec
CONSTANTS
    s1 = s1  s2 = s2  s3 = s3  s4 = s4
    u1 = u1  u2 = u2  u4 = u4
    m1 = m1  m2 = m2
    None = None
    Sessions <- MCSessions
    Users <- MCUsers
    Meets <- MCMeets
    userOf <- TwoTabs
    meetOf <- MCMeetOf
    MeetTypes <- MCTypes
    typeOf <- MCTypeOf
    Creators <- MCCreators
CHECK_DEADLOCK FALSE
INVARIANT AnswerNeverBlocks
INVARIANT NoRoomLeak
INVARIANT NoGhostPeer
INVARIANT KnockNotLost
INVARIANT MemberListed
INVARIANT OnlyGroupRooms
INVARIANT EntryInv
PROPERTY GateSpec
PROPERTY ClosedHandlerReturns
