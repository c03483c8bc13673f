SPECIFICATION FairSpec
CONSTANTS
    c1 = c1  c2 = c2  c3 = c3
    u1 = u1  u2 = u2  u3 = u3
    m1 = m1
    None = None
    Conns <- MCConns
    Users <- MCUsers
    Meets <- MCMeets
    meetOf <- MCMeetOf
    userOf <- ReloadUsers
    isHost <- ReloadHost
CHECK_DEADLOCK FALSE
INVARIANT TwoSeats
INVARIANT SeatIsServed
INVARIANT NoMeetLeak
INVARIANT IInv
PROPERTY ClosedHandlerReturns
