\* One request and two hosts: the challenge is issued for one of them, the
\* login is sent to the other.
CONSTANTS
    Clients = {c1}
    NoClient = NoClient
    Nonces = {n1}
    NoNonce = NoNonce
    Users = {alice}
    Nobody = Nobody
    Admins = {}
    Pubkeys = {k1}
    Hosts = {h1, h2}
    Policies <- OpenOrPaused
SPECIFICATION Spec
INVARIANT SessionHostIsRequestHost
