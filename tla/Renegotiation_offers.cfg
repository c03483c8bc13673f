SPECIFICATION FairSpec
CONSTANTS
    t1 = t1  t2 = t2
    Existing = Existing
    None = None
    Tracks <- MCTracks
CHECK_DEADLOCK FALSE
INVARIANT AnswerMatches
INVARIANT NothingForgotten
INVARIANT IInv
PROPERTY NothingTakenBack
PROPERTY AddedIsSent
PROPERTY WaitEnds
