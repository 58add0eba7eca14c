---------------------------- MODULE AccountKeys ----------------------------
(***************************************************************************)
(* What identity/mappings.py promises its callers, without rows, ids or    *)
(* transactions: every pubkey is free or bound to one account, a binding   *)
(* is in force or revoked, and each method changes the bindings at once or *)
(* not at all.                                                             *)
(***************************************************************************)
CONSTANTS
    Users,      \* YunoHost accounts
    Nobody,     \* not one of them
    Pubkeys,
    Inherited   \* the bindings of the old `users` table

VARIABLE key    \* the binding of every pubkey

Binding(u) == [user |-> u, enabled |-> TRUE]
Revoked(u) == [user |-> u, enabled |-> FALSE]
Free == [user |-> Nobody, enabled |-> FALSE]

Init == key = [p \in Pubkeys |-> Free]

\* The migration binds the inherited pubkeys that are free.
Import ==
    key' = [p \in Pubkeys |-> IF key[p] = Free THEN Inherited[p] ELSE key[p]]

\* link(): p becomes the only pubkey of u, unless it is another's.
Link(u, p) ==
    /\ key[p].user \in {u, Nobody}
    /\ key' = [q \in Pubkeys |-> IF q = p THEN Binding(u)
                                 ELSE IF key[q].user = u THEN Free
                                 ELSE key[q]]

\* add_identity(): p becomes one more pubkey of u, if it is free.
Add(u, p) ==
    /\ key[p] = Free
    /\ key' = [key EXCEPT ![p] = Binding(u)]

\* unlink(): u has no pubkeys any more.
Unlink(u) ==
    key' = [q \in Pubkeys |-> IF key[q].user = u THEN Free ELSE key[q]]

\* revoke_identity(): p no longer signs u in, and stays bound to u.
Revoke(u, p) ==
    /\ key[p].user = u
    /\ key' = [key EXCEPT ![p] = Revoked(u)]

Next ==
    \/ Import
    \/ \E u \in Users, p \in Pubkeys : Link(u, p) \/ Add(u, p) \/ Revoke(u, p)
    \/ \E u \in Users : Unlink(u)

Spec == Init /\ [][Next]_key
=============================================================================
