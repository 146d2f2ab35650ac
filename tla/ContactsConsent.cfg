SPECIFICATION Spec
CONSTANTS
    alice = alice
    bob = bob
    Node = {alice, bob}
    Budgets <- RequestsOrDeletions
    MaxCrashes = 1
    MaxCalls = 2
SYMMETRY Parties
CHECK_DEADLOCK FALSE
INVARIANTS
    TypeOK
    MutualConsent
    ConsentInv
    PendingIsAnswerable
    SessionIsShared
    CopyIsChased
PROPERTY
    ImplementsConsent
