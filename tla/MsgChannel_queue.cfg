SPECIFICATION FairSpec
CONSTANTS
    Capacity = 2
    MaxSent = 5
CHECK_DEADLOCK FALSE
INVARIANT OfferKept
INVARIANT IInv
PROPERTY ReaderReturns
PROPERTY QueueSpec
