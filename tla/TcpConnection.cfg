SPECIFICATION FairSpec
CONSTANT Setups <- MCSetups
INVARIANTS
    TypeOK
    ConnectionAccountedFor
    InUseIsOpen
    OutcomeMatchesClass
PROPERTIES
    LateAnswersRejected
    CheckReturns
