SPECIFICATION Spec
CONSTANTS
    MaxAttempts = 2
    RedirectLimit = 2
    Policies <- MCPolicies
INVARIANT CallbackCannotBypassSafety
