\* Two processes, two challenges and a made-up nonce, time enough for each to expire.
CONSTANTS
    Workers = {w1, w2}
    Nonces = {n1, n2, made_up}
    MadeUp = made_up
    NoWorker = NoWorker
    TTL = 1
    MaxClock = 3
SPECIFICATION FairSpec
INVARIANTS TypeOK SingleUse OutstandingKept UsedKept
PROPERTIES VerdictsForCause ExpiredGoOnIssue CallsReturn ImplementsOneShot
