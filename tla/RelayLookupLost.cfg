\* One thread finds its entry expired and no relay answers.
CONSTANTS
    Threads = {t1}
    Pubkeys = {p1}
    TTL = 2
    LockWait = 1
    MaxTime = 3
SPECIFICATION Spec
PROPERTIES KnownListKept
