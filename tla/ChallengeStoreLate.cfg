\* The smallest instance in which a caller waits for the lock past the expiry.
CONSTANTS
    Workers = {w1, w2}
    Nonces = {n1, made_up}
    MadeUp = made_up
    NoWorker = NoWorker
    TTL = 1
    MaxClock = 3
SPECIFICATION Spec
INVARIANT ExpiredNeverAccepted
