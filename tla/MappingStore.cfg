\* Two processes, both of which may run the migration, and ids enough for two
\* migrations and two inserts.
CONSTANTS
    Workers = {w1, w2}
    alice = alice
    bob = bob
    k1 = k1
    k2 = k2
    Users <- MCUsers
    Pubkeys <- MCPubkeys
    Legacy <- MCLegacy
    Nobody = Nobody
    MaxId = 7
SPECIFICATION Spec
INVARIANTS TypeOK OneOwner OpenMeansMigrated
PROPERTIES TakenAwayOnlyForOwner IdNeverRebound RevocationHolds NeverLeftWithout ImplementsAccountKeys
