SPECIFICATION Spec
CONSTANTS
    None = None
    GUIDE_SIZE = 3
    NumPlaces = 3
    Plans <- MCPlans
    Parallelisms = {2}
    MaxAwaits = 0
    BufSizes = {1}
    AnyOrderPlaces = 3
    ShuffledPlaces = 1
    InOrderPlaces = 1
    ChainPlaces = 1
INVARIANT
    NonCircularHandled
CHECK_DEADLOCK FALSE
