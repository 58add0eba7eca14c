\* Two threads race for one pubkey; time for an entry to expire and be renewed.
CONSTANTS
    Threads = {t1, t2}
    Pubkeys = {p1}
    TTL = 2
    LockWait = 1
    MaxTime = 2
SPECIFICATION FairSpec
INVARIANTS TypeOK UnlinkedRefused NeverEmptyHanded StaleOnlyOnFailure
PROPERTIES RequestsAnswered
