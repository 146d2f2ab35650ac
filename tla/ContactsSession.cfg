SPECIFICATION Spec
CONSTANTS
    alice = alice
    bob = bob
    Node = {alice, bob}
    Budgets <- TwoRequests
    MaxCrashes = 0
    MaxCalls = 2
SYMMETRY Parties
CHECK_DEADLOCK FALSE
INVARIANTS
    SessionKept
