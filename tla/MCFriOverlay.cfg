CONSTANTS
    NumConstants = 1
    NumRouted = 2
    NumWires = 7
    NumPartial = 2
    NumChallenges = 2
    RateBits = 2
    Gates <- MCGates
    GateKernels <- MCGateKernels
    LdeCounts <- MCLdeCounts
    Cleared <- MCClearedOverlay
    MaxProves = 1
    DegreeBits = 7
    CapHeight = 2
    Reductions <- MCReductions
    TileBits = 3
    NumQueries = 6
    QueryChallenges <- MCQueryChallenges
SPECIFICATION ProofSpec
INVARIANTS
    StepsVerify
CHECK_DEADLOCK FALSE
