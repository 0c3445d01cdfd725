SPECIFICATION Spec
CONSTANT Setups <- MCSetups
INVARIANT
    ObservedOperationsEnd
