\* Two requests at a time, one challenge, one key that an account and an
\* administrator may both hold, one host; a helper that may never answer.
CONSTANTS
    Clients = {c1, c2}
    NoClient = NoClient
    Nonces = {n1}
    NoNonce = NoNonce
    Users = {alice, root}
    Nobody = Nobody
    Admins = {root}
    Pubkeys = {k1}
    Hosts = {h1}
    Policies <- OpenOrPaused
SPECIFICATION FairSpec
INVARIANTS TypeOK ChallengeBuysOneEffect
PROPERTIES RemovalBeatsLogin PauseHolds LoopReleased
