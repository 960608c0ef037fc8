SPECIFICATION Spec
CONSTANTS
    Circuits <- AllCircuits
    Align = 64
    Slack = 100
    MaxProves = 2
INVARIANTS
    CapturedMemoryLive
    ViewsBacked
    PostViewsDisjoint
    OwnedOnce
    FirstProveCompletes
    FirstProveCommitsWitness
