SPECIFICATION Spec
CONSTANTS
    alice = alice
    bob = bob
    Node = {alice, bob}
    Budgets <- RequestsAndDeletion
    MaxCrashes = 0
    MaxCalls = 2
SYMMETRY Parties
CHECK_DEADLOCK FALSE
INVARIANTS
    MirrorsPeer
