CONSTANTS
    NumConstants = 1
    NumRouted = 2
    NumWires = 7
    NumPartial = 2
    NumChallenges = 2
    RateBits = 2
    Gates <- MCGates
    GateKernels <- MCGateKernels
    LdeCounts <- MCLdeCounts
    Cleared <- MCCleared
    MaxProves = 2
    DegreeBits = 7
    CapHeight = 2
    Reductions <- MCReductions
    TileBits = 3
    NumQueries = 6
    QueryChallenges <- MCQueryChallenges
SPECIFICATION ProofSpec
INVARIANTS
    CommittedPlain
    QuotientComplete
    InitialProofsVerify
    StepsOpenFolds
    FirstStepsVerify
CHECK_DEADLOCK FALSE
