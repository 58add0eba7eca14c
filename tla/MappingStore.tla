---------------------------- MODULE MappingStore ----------------------------
(***************************************************************************)
(* identity/mappings.py: the identities table and its migration.  Four     *)
(* programs open the same SQLite file (the web service, the two lookup     *)
(* servers, the admin CLI); each is a worker here.  A method of            *)
(* MappingStore is a sequence of transactions, and other workers may run   *)
(* between any two of them.  A transaction is one step: nobody sees it     *)
(* half done, and a crash or "database is locked" rolls it back.           *)
(*                                                                         *)
(* The columns created_at, last_used, signer_type, label and linked_by     *)
(* decide nothing in the store and are left out, and with them the methods *)
(* that write only those (touch_*, update_identity_label).                 *)
(***************************************************************************)
EXTENDS Naturals, Sequences

CONSTANTS
    Workers,    \* processes that open the database
    Users,      \* YunoHost accounts
    Nobody,     \* not one of them
    Pubkeys,
    Legacy,     \* the rows of the old `users` table
    MaxId       \* bound on the ids AUTOINCREMENT gives out

LegacyRows == [user : Users, pubkey : Pubkeys, enabled : BOOLEAN]

\* The old table had one row per user and a UNIQUE pubkey.
ASSUME LegacyAssumption ==
    /\ Legacy \in Seq(LegacyRows)
    /\ \A i, j \in 1..Len(Legacy) :
          \/ Legacy[i].user = Legacy[j].user
          \/ Legacy[i].pubkey = Legacy[j].pubkey
          => i = j

ASSUME NobodyAssumption == Nobody \notin Users
ASSUME MaxIdAssumption == MaxId \in Nat \ {0}

VARIABLES
    table,      \* the rows of identities
    nextId,     \* sqlite_sequence: the id the next insert gets
    version,    \* PRAGMA user_version
    pc,         \* where each worker is
    call,       \* the arguments of its call
    copied,     \* history: how often the migration has inserted a pubkey
    served      \* history: the user whose call took the last step

vars == <<table, nextId, version, pc, call, copied, served>>

Ids == Nat \ {0}
Rows == [id : Ids, user : Users, pubkey : Pubkeys, enabled : BOOLEAN]

-----------------------------------------------------------------------------
(* Statements                                                              *)

\* What the UNIQUE constraint on pubkey refuses.
Conflicts_never(t, p) == FALSE
Conflicts(t, p) == \E r \in t : r.pubkey = p

\* The check link() and add_identity() make first.
OwnedByOther(t, p, u) == \E r \in t : r.pubkey = p /\ r.user # u

\* DELETE FROM identities WHERE ynh_username = ?
DeleteUser_everyRow(t, u) == {}
DeleteUser(t, u) == {r \in t : r.user # u}

\* AUTOINCREMENT never gives an id out twice; a plain rowid would.
IdOf_maxPlusOne(t) ==
    CHOOSE i \in 1..(nextId + 1) :
        /\ \A r \in t : r.id < i
        /\ i = 1 \/ \E r \in t : r.id = i - 1
IdOf(t) == nextId

NewRow(i, u, p) == [id |-> i, user |-> u, pubkey |-> p, enabled |-> TRUE]

\* UPDATE ... SET enabled = 0 WHERE identity_id = ? AND ynh_username = ? AND enabled = 1
Revoke_toggle(t, i, u) ==
    {IF r.id = i /\ r.user = u THEN [r EXCEPT !.enabled = ~r.enabled] ELSE r : r \in t}
Revoke_anyOwner(t, i, u) ==
    {IF r.id = i THEN [r EXCEPT !.enabled = FALSE] ELSE r : r \in t}
Revoke(t, i, u) ==
    {IF r.id = i /\ r.user = u THEN [r EXCEPT !.enabled = FALSE] ELSE r : r \in t}

\* What is left when the INSERT after link's DELETE is refused.
AfterRefusal_keepDelete(before, deleted) == deleted
AfterRefusal(before, deleted) == before

\* INSERT OR IGNORE ... SELECT FROM users.  The ids of ignored rows stay unused.
Imported_enabledOnly(t) ==
    {i \in 1..Len(Legacy) : ~Conflicts(t, Legacy[i].pubkey) /\ Legacy[i].enabled}
Imported(t) == {i \in 1..Len(Legacy) : ~Conflicts(t, Legacy[i].pubkey)}

LegacyRow(i) == [id |-> nextId + i - 1, user |-> Legacy[i].user,
                 pubkey |-> Legacy[i].pubkey, enabled |-> Legacy[i].enabled]

AfterInsert_sameSequence(i) == i
AfterInsert(i) == i + 1

-----------------------------------------------------------------------------
Labels == {"down", "migrate", "idle", "link", "add"}
Calls == [user : Users, pubkey : Pubkeys]

Goto(w, label) == pc' = [pc EXCEPT ![w] = label]

Init ==
    /\ table = {}
    /\ nextId = 1
    /\ version = 0
    /\ pc = [w \in Workers |-> "down"]
    /\ call \in [Workers -> Calls]
    /\ copied = [p \in Pubkeys |-> 0]
    /\ served = Nobody

(* MappingStore.__init__ and _migrate_legacy_users                         *)

\* user_version is read outside any transaction.
ReadVersion(w) ==
    /\ pc[w] = "down"
    /\ Goto(w, IF version = 0 THEN "migrate" ELSE "idle")
    /\ served' = Nobody
    /\ UNCHANGED <<table, nextId, version, call, copied>>

\* The copy and the new version are committed together.
Migrate(w) ==
    /\ pc[w] = "migrate"
    /\ nextId + Len(Legacy) <= MaxId
    /\ table' = table \cup {LegacyRow(i) : i \in Imported(table)}
    /\ nextId' = nextId + Len(Legacy)
    /\ version' = 1
    /\ copied' = [p \in Pubkeys |->
                     IF \E i \in Imported(table) : Legacy[i].pubkey = p
                     THEN copied[p] + 1 ELSE copied[p]]
    /\ Goto(w, "idle")
    /\ served' = Nobody
    /\ UNCHANGED call

(* link()                                                                  *)

\* The check is a read of its own: PubkeyAlreadyLinked, or on to the write.
LinkCheck(w, u, p) ==
    /\ pc[w] = "idle"
    /\ ~OwnedByOther(table, p, u)
    /\ call' = [call EXCEPT ![w] = [user |-> u, pubkey |-> p]]
    /\ Goto(w, "link")
    /\ served' = u
    /\ UNCHANGED <<table, nextId, version, copied>>

\* DELETE, INSERT and commit; a refused INSERT raises IntegrityError and the
\* connection is closed without a commit.
LinkWrite(w) ==
    /\ pc[w] = "link"
    /\ nextId < MaxId
    /\ LET u == call[w].user
           p == call[w].pubkey
           kept == DeleteUser(table, u)
       IN  IF Conflicts(kept, p)
           THEN /\ table' = AfterRefusal(table, kept)
                /\ UNCHANGED nextId
           ELSE /\ table' = kept \cup {NewRow(IdOf(kept), u, p)}
                /\ nextId' = AfterInsert(nextId)
    /\ Goto(w, "idle")
    /\ served' = call[w].user
    /\ UNCHANGED <<version, call, copied>>

(* add_identity()                                                          *)

\* Refused for a pubkey anybody has, this user with a revoked one included.
AddCheck(w, u, p) ==
    /\ pc[w] = "idle"
    /\ ~OwnedByOther(table, p, u)
    /\ ~Conflicts(table, p)
    /\ call' = [call EXCEPT ![w] = [user |-> u, pubkey |-> p]]
    /\ Goto(w, "add")
    /\ served' = u
    /\ UNCHANGED <<table, nextId, version, copied>>

AddWrite(w) ==
    /\ pc[w] = "add"
    /\ nextId < MaxId
    /\ IF Conflicts(table, call[w].pubkey)
       THEN UNCHANGED <<table, nextId>>
       ELSE /\ table' = table \cup {NewRow(IdOf(table), call[w].user, call[w].pubkey)}
            /\ nextId' = AfterInsert(nextId)
    /\ Goto(w, "idle")
    /\ served' = call[w].user
    /\ UNCHANGED <<version, call, copied>>

(* The methods that are one transaction                                    *)

Unlink(w, u) ==
    /\ pc[w] = "idle"
    /\ table' = DeleteUser(table, u)
    /\ served' = u
    /\ UNCHANGED <<nextId, version, pc, call, copied>>

\* Pages send ids they read some time ago: any id that was ever given out.
RevokeIdentity(w, i, u) ==
    /\ pc[w] = "idle"
    /\ table' = Revoke(table, i, u)
    /\ served' = u
    /\ UNCHANGED <<nextId, version, pc, call, copied>>

(* "database is locked", any other error, the end of the process           *)

Fail(w) ==
    /\ pc[w] \in {"link", "add"}
    /\ Goto(w, "idle")
    /\ served' = Nobody
    /\ UNCHANGED <<table, nextId, version, call, copied>>

Crash(w) ==
    /\ pc[w] # "down"
    /\ Goto(w, "down")
    /\ served' = Nobody
    /\ UNCHANGED <<table, nextId, version, call, copied>>

Next ==
    \E w \in Workers :
        \/ ReadVersion(w)
        \/ Migrate(w)
        \/ LinkWrite(w)
        \/ AddWrite(w)
        \/ Fail(w)
        \/ Crash(w)
        \/ \E u \in Users : Unlink(w, u)
        \/ \E u \in Users, p \in Pubkeys : LinkCheck(w, u, p) \/ AddCheck(w, u, p)
        \/ \E u \in Users, i \in 1..(nextId - 1) : RevokeIdentity(w, i, u)

Spec == Init /\ [][Next]_vars

-----------------------------------------------------------------------------
(* Properties                                                              *)

\* Every id in the table is one that sqlite_sequence has passed.
TypeOK ==
    /\ table \subseteq Rows
    /\ nextId \in 1..MaxId
    /\ \A r \in table : r.id < nextId
    /\ version \in {0, 1}
    /\ pc \in [Workers -> Labels]
    /\ call \in [Workers -> Calls]
    /\ copied \in [Pubkeys -> Nat]
    /\ served \in Users \cup {Nobody}

\* mappings.py:5: "each pubkey may belong to at most one user", and to one row,
\* although the check and the insert are two transactions.
OneOwner == \A r, s \in table : r.pubkey = s.pubkey \/ r.id = s.id => r = s

\* An identity is revoked or removed only by a call made for its owner,
\* whatever stale id or contested pubkey other callers come with.
TakenAwayOnlyForOwner ==
    [][\A r \in table : r.enabled /\ r \notin table' => served' = r.user]_vars

\* An id a page still shows never comes to mean another identity.
IdNeverRebound ==
    [][\A i \in 1..(nextId - 1) :
          \A s \in table' : s.id = i =>
              \E r \in table : r.id = i /\ r.user = s.user /\ r.pubkey = s.pubkey]_vars

\* A revoked identity stays revoked.  Its pubkey signs in again only after its
\* owner's identities were replaced by it or unlinked.
RevocationHolds ==
    [][\A r \in table, s \in table' :
          ~r.enabled /\ s.enabled /\ r.pubkey = s.pubkey =>
              /\ s.id # r.id
              /\ served' = r.user
              /\ \E w \in Workers : pc[w] = "link" /\ pc'[w] = "idle"]_vars

\* link() replaces: a link that fails, for whatever reason, does not leave its
\* user without the identities it had.  Only unlink(), a call of one step, does.
NeverLeftWithout ==
    [][\A u \in Users :
          (\E r \in table : r.user = u) /\ ~(\E r \in table' : r.user = u)
              => served' = u /\ pc' = pc]_vars

\* A process that serves requests finds every legacy identity copied, also if
\* the first migration was interrupted (mappings.py:75-77).
OpenMeansMigrated ==
    \A w \in Workers : pc[w] \notin {"down", "migrate"} =>
        \A i \in 1..Len(Legacy) : copied[Legacy[i].pubkey] > 0

\* mappings.py:73: "Copy the original one-identity-per-user table once."
CopiedOnce == \A p \in Pubkeys : copied[p] <= 1

-----------------------------------------------------------------------------
(* The promise to the callers, see AccountKeys                             *)

\* What the table says of a pubkey.
BindingOf(t, p) ==
    IF \E r \in t : r.pubkey = p
    THEN LET r == CHOOSE r \in t : r.pubkey = p
         IN  [user |-> r.user, enabled |-> r.enabled]
    ELSE [user |-> Nobody, enabled |-> FALSE]

InheritedOf(p) ==
    IF \E i \in 1..Len(Legacy) : Legacy[i].pubkey = p
    THEN LET i == CHOOSE i \in 1..Len(Legacy) : Legacy[i].pubkey = p
         IN  [user |-> Legacy[i].user, enabled |-> Legacy[i].enabled]
    ELSE [user |-> Nobody, enabled |-> FALSE]

Accounts == INSTANCE AccountKeys
    WITH key <- [p \in Pubkeys |-> BindingOf(table, p)],
         Inherited <- [p \in Pubkeys |-> InheritedOf(p)]

\* The checks, transactions and failures of all processes together look like
\* one change of the bindings at a time.
ImplementsAccountKeys == Accounts!Spec
=============================================================================
