SPECIFICATION Spec
CONSTANTS
    None = None
    GUIDE_SIZE = 3
    NumPlaces = 6
    Plans <- MCPlans
    Parallelisms = {1, 2}
    MaxAwaits = 1
    BufSizes = {1, 2}
    AnyOrderPlaces = 3
    ShuffledPlaces = 4
    InOrderPlaces = 5
    ChainPlaces = 6
INVARIANTS
    BatchesIndependent
    TrackersFollowOrder
    EveryResolverOrdered
    PlaybackSlotsReady
    PlaybackAwaitsServed
CHECK_DEADLOCK FALSE
