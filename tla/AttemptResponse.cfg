CONSTANTS
    MaxDuration <- MCMaxDuration
    Infinity <- MCInfinity
    Rounded <- MCRounded
    Pow <- MCPow
    Second = 4
    Users = {u1, u2}
    Callback = callback
    DrainLimit = 1
    FinalPlans <- MCFinalPlans
    RetryPlans <- MCRetryPlans
SPECIFICATION Spec
INVARIANT DelayWithinLimits
PROPERTIES LeaseSpec FateSettled
