\* Both processes find version 0; one migrates, serves an unlink, and the other
\* migrates again.
CONSTANTS
    Workers = {w1, w2}
    alice = alice
    bob = bob
    k1 = k1
    k2 = k2
    Users <- MCUsers
    Pubkeys <- MCPubkeys
    Legacy <- MCLegacy
    Nobody = Nobody
    MaxId = 5
SPECIFICATION Spec
INVARIANT CopiedOnce
