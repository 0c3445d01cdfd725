CONSTANTS
    ObserverCount = 2
    MaxAttempts = 2
    MaxSends = 3
    Setups <- MCSetups
SPECIFICATION Spec
INVARIANTS WireHeaders NothingLeaks
PROPERTY SpansNest
