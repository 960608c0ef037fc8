SPECIFICATION Spec
CONSTANTS
    Circuits <- AllCircuits
    Align = 64
    Slack = 100
    MaxProves = 1
INVARIANT
    CapsCopied
