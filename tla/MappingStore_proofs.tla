------------------------- MODULE MappingStore_proofs -------------------------
(***************************************************************************)
(* Proofs about MappingStore: who has which pubkey is right for every      *)
(* number of processes, accounts and pubkeys and every legacy table, and   *)
(* the transactions together implement AccountKeys.                        *)
(***************************************************************************)
EXTENDS MappingStore, TLAPS

-----------------------------------------------------------------------------
(* The inductive invariant                                                 *)

\* Nothing is written before somebody has migrated.
FreshInv ==
    version = 0 => table = {} /\ \A w \in Workers : pc[w] \in {"down", "migrate"}

\* Once somebody has, every legacy pubkey has been copied.
CopiedInv ==
    version = 1 => \A i \in 1..Len(Legacy) : copied[Legacy[i].pubkey] > 0

IInv == TypeOK /\ OneOwner /\ FreshInv /\ CopiedInv

-----------------------------------------------------------------------------
(* Legacy rows                                                             *)

\* The rows the migration inserts have fresh ids and are well typed.
LEMMA LegacyRowType ==
  ASSUME TypeOK, NEW i \in 1..Len(Legacy)
  PROVE  /\ Legacy[i] \in LegacyRows
         /\ LegacyRow(i) \in Rows
         /\ LegacyRow(i).id >= nextId
         /\ LegacyRow(i).id < nextId + Len(Legacy)
<1>1. Len(Legacy) \in Nat /\ Legacy[i] \in LegacyRows
  BY LegacyAssumption
<1>2. nextId \in Nat /\ nextId >= 1
  BY MaxIdAssumption DEF TypeOK
<1>3. /\ nextId + i - 1 \in Ids
      /\ nextId + i - 1 >= nextId
      /\ nextId + i - 1 < nextId + Len(Legacy)
  BY <1>1, <1>2 DEF Ids
<1> QED
  BY <1>1, <1>3 DEF LegacyRow, Rows, LegacyRows

\* No two of them share a pubkey or an id.
LEMMA LegacyRowsDistinct ==
  ASSUME TypeOK, NEW i \in 1..Len(Legacy), NEW j \in 1..Len(Legacy),
         \/ LegacyRow(i).pubkey = LegacyRow(j).pubkey
         \/ LegacyRow(i).id = LegacyRow(j).id
  PROVE  i = j
<1>1. i \in Nat /\ j \in Nat /\ nextId \in Nat
  BY LegacyAssumption, MaxIdAssumption DEF TypeOK
<1>2. CASE LegacyRow(i).pubkey = LegacyRow(j).pubkey
  BY <1>2, LegacyAssumption DEF LegacyRow
<1>3. CASE LegacyRow(i).id = LegacyRow(j).id
  BY <1>1, <1>3 DEF LegacyRow
<1> QED
  BY <1>2, <1>3

-----------------------------------------------------------------------------
(* Statements on rows                                                      *)

\* What a successful INSERT adds is typed, fresh and the only owner.
LEMMA InsertedRow ==
  ASSUME TypeOK, OneOwner, nextId < MaxId,
         NEW kept \in SUBSET table, NEW u \in Users, NEW p \in Pubkeys,
         ~Conflicts(kept, p),
         NEW r, r = NewRow(IdOf(kept), u, p)
  PROVE  /\ r \in Rows
         /\ \A s \in kept \cup {r} : s.id < nextId + 1
         /\ \A s \in kept : s.pubkey # r.pubkey /\ s.id # r.id
<1>1. nextId \in Nat /\ nextId >= 1
  BY MaxIdAssumption DEF TypeOK
<1>2. r.id = nextId /\ r.user = u /\ r.pubkey = p /\ r \in Rows
  BY <1>1 DEF NewRow, IdOf, Rows, Ids
<1>3. \A s \in kept : s.id \in Nat /\ s.id < nextId
  BY DEF TypeOK, Rows, Ids
<1>4. \A s \in kept : s.pubkey # p
  BY DEF Conflicts
<1> QED
  BY <1>1, <1>2, <1>3, <1>4

\* What revoke_identity does to a row leaves all but `enabled` as it was.
LEMMA RevokedRow ==
  ASSUME TypeOK, NEW i, NEW u, NEW s \in Revoke(table, i, u)
  PROVE  \E r \in table :
            /\ s \in Rows
            /\ s.id = r.id /\ s.user = r.user /\ s.pubkey = r.pubkey
            /\ s = IF r.id = i /\ r.user = u THEN [r EXCEPT !.enabled = FALSE] ELSE r
<1>1. PICK r \in table :
        s = IF r.id = i /\ r.user = u THEN [r EXCEPT !.enabled = FALSE] ELSE r
  BY DEF Revoke
<1>2. r \in Rows
  BY DEF TypeOK
<1> QED
  BY <1>1, <1>2 DEF Rows

-----------------------------------------------------------------------------
(* The invariant holds                                                     *)

\* The initial state: an empty table that nobody has migrated.
LEMMA InitIInv == Init => IInv
  BY MaxIdAssumption, NobodyAssumption
     DEF Init, IInv, TypeOK, OneOwner, FreshInv, CopiedInv, Labels

\* Migrate keeps the invariant.
LEMMA MigrateIInv ==
  ASSUME IInv, NEW w \in Workers, Migrate(w)
  PROVE  IInv'
<1> DEFINE New == {LegacyRow(i) : i \in Imported(table)}
<1> USE DEF IInv, Migrate
<1>0. Len(Legacy) \in Nat /\ nextId \in Nat /\ nextId >= 1 /\ MaxId \in Nat
  BY LegacyAssumption, MaxIdAssumption DEF TypeOK
<1>1. \A r \in New : r \in Rows /\ r.id >= nextId /\ r.id < nextId'
  BY LegacyRowType DEF Imported
<1>2. TypeOK'
  <2>1. table' \subseteq Rows
    BY <1>1 DEF TypeOK
  <2>2. nextId' \in 1..MaxId
    BY <1>0
  <2>3. \A r \in table' : r.id < nextId'
    <3> SUFFICES ASSUME NEW r \in table' PROVE r.id < nextId'
      OBVIOUS
    <3>1. CASE r \in New
      BY <1>1, <3>1
    <3>2. CASE r \in table
      BY <1>0, <3>2 DEF TypeOK, Rows, Ids
    <3> QED
      BY <3>1, <3>2
  <2>4. copied' \in [Pubkeys -> Nat]
    BY DEF TypeOK
  <2> QED
    BY <2>1, <2>2, <2>3, <2>4 DEF TypeOK, Goto, Labels
<1>3. OneOwner'
  <2> SUFFICES ASSUME NEW r \in table', NEW s \in table',
                      r.pubkey = s.pubkey \/ r.id = s.id
               PROVE  r = s
    BY DEF OneOwner
  <2>1. CASE r \in table /\ s \in table
    BY <2>1 DEF OneOwner
  <2>2. CASE r \in New /\ s \in New
    <3>1. PICK i \in Imported(table) : r = LegacyRow(i)
      BY <2>2
    <3>2. PICK j \in Imported(table) : s = LegacyRow(j)
      BY <2>2
    <3> QED
      BY <3>1, <3>2, LegacyRowsDistinct DEF Imported
  <2>3. ASSUME NEW old \in table, NEW new \in New
        PROVE  old.pubkey # new.pubkey /\ old.id # new.id
    <3>1. PICK i \in Imported(table) : new = LegacyRow(i)
      BY <2>3
    <3>2. old.pubkey # new.pubkey
      BY <3>1 DEF Imported, Conflicts, LegacyRow
    <3>3. old.id < nextId /\ new.id >= nextId
      BY <1>1 DEF TypeOK
    <3> QED
      BY <1>0, <1>1, <3>2, <3>3 DEF TypeOK, Rows, Ids
  <2> QED
    BY <2>1, <2>2, <2>3
<1>4. FreshInv'
  BY DEF FreshInv
<1>5. CopiedInv'
  <2> SUFFICES ASSUME NEW i \in 1..Len(Legacy)
               PROVE  copied'[Legacy[i].pubkey] > 0
    BY DEF CopiedInv
  <2> DEFINE p == Legacy[i].pubkey
  <2>1. p \in Pubkeys /\ copied[p] \in Nat
    BY LegacyRowType DEF LegacyRows, TypeOK
  <2>2. CASE version = 1
    BY <2>1, <2>2 DEF CopiedInv
  <2>3. CASE version = 0
    <3>1. i \in Imported(table)
      BY <2>3 DEF FreshInv, Imported, Conflicts
    <3> QED
      BY <2>1, <3>1
  <2> QED
    BY <2>2, <2>3 DEF TypeOK
<1> QED
  BY <1>2, <1>3, <1>4, <1>5

\* ReadVersion keeps the invariant.
LEMMA ReadVersionIInv ==
  ASSUME IInv, NEW w \in Workers, ReadVersion(w)
  PROVE  IInv'
<1> USE DEF IInv, ReadVersion, Goto
<1>1. TypeOK'
  BY DEF TypeOK, Labels, Calls
<1>2. OneOwner'
  BY DEF OneOwner
<1>3. FreshInv' /\ CopiedInv'
  BY DEF TypeOK, FreshInv, CopiedInv
<1> QED
  BY <1>1, <1>2, <1>3

\* LinkCheck keeps the invariant.
LEMMA LinkCheckIInv ==
  ASSUME IInv, NEW w \in Workers, NEW u \in Users, NEW p \in Pubkeys,
         LinkCheck(w, u, p)
  PROVE  IInv'
<1> USE DEF IInv, LinkCheck, Goto
<1>1. TypeOK'
  BY DEF TypeOK, Labels, Calls
<1>2. OneOwner'
  BY DEF OneOwner
<1>3. FreshInv' /\ CopiedInv'
  BY DEF TypeOK, FreshInv, CopiedInv
<1> QED
  BY <1>1, <1>2, <1>3

\* LinkWrite keeps the invariant.
LEMMA LinkWriteIInv ==
  ASSUME IInv, NEW w \in Workers, LinkWrite(w)
  PROVE  IInv'
<1> USE DEF IInv, LinkWrite, Goto
<1>0. nextId \in Nat /\ nextId >= 1 /\ nextId < MaxId /\ MaxId \in Nat
  BY MaxIdAssumption DEF TypeOK
<1> DEFINE kept == DeleteUser(table, call[w].user)
           r == NewRow(IdOf(kept), call[w].user, call[w].pubkey)
<1>a. kept \in SUBSET table /\ call[w].user \in Users /\ call[w].pubkey \in Pubkeys
  BY DEF TypeOK, Calls, DeleteUser
<1>b. \/ table' = table /\ nextId' = nextId
      \/ /\ ~Conflicts(kept, call[w].pubkey)
         /\ table' = kept \cup {r} /\ nextId' = nextId + 1
  BY DEF AfterRefusal, AfterInsert
<1>c. ASSUME table' = table /\ nextId' = nextId PROVE TypeOK' /\ OneOwner'
  BY <1>a, <1>c DEF TypeOK, OneOwner, Labels
<1>d. ASSUME ~Conflicts(kept, call[w].pubkey),
             table' = kept \cup {r} /\ nextId' = nextId + 1
      PROVE  TypeOK' /\ OneOwner'
  <2>1. /\ r \in Rows
        /\ \A s \in kept \cup {r} : s.id < nextId + 1
        /\ \A s \in kept : s.pubkey # r.pubkey /\ s.id # r.id
    <3> HIDE DEF r, kept
    <3> QED
      BY <1>0, <1>a, <1>d, InsertedRow DEF r
  <2> HIDE DEF r, kept
  <2>2. TypeOK'
    BY <1>0, <1>a, <1>d, <2>1 DEF TypeOK, Labels
  <2>3. OneOwner'
    BY <1>a, <1>d, <2>1 DEF OneOwner
  <2> QED
    BY <2>2, <2>3
<1>1. TypeOK' /\ OneOwner'
  BY <1>b, <1>c, <1>d
<1>3. FreshInv' /\ CopiedInv'
  BY DEF TypeOK, FreshInv, CopiedInv
<1> QED
  BY <1>1, <1>3

\* AddCheck keeps the invariant.
LEMMA AddCheckIInv ==
  ASSUME IInv, NEW w \in Workers, NEW u \in Users, NEW p \in Pubkeys,
         AddCheck(w, u, p)
  PROVE  IInv'
<1> USE DEF IInv, AddCheck, Goto
<1>1. TypeOK'
  BY DEF TypeOK, Labels, Calls
<1>2. OneOwner'
  BY DEF OneOwner
<1>3. FreshInv' /\ CopiedInv'
  BY DEF TypeOK, FreshInv, CopiedInv
<1> QED
  BY <1>1, <1>2, <1>3

\* AddWrite keeps the invariant.
LEMMA AddWriteIInv ==
  ASSUME IInv, NEW w \in Workers, AddWrite(w)
  PROVE  IInv'
<1> USE DEF IInv, AddWrite, Goto
<1>0. nextId \in Nat /\ nextId >= 1 /\ nextId < MaxId /\ MaxId \in Nat
  BY MaxIdAssumption DEF TypeOK
<1> DEFINE kept == table
           r == NewRow(IdOf(kept), call[w].user, call[w].pubkey)
<1>a. kept \in SUBSET table /\ call[w].user \in Users /\ call[w].pubkey \in Pubkeys
  BY DEF TypeOK, Calls, DeleteUser
<1>b. \/ table' = table /\ nextId' = nextId
      \/ /\ ~Conflicts(kept, call[w].pubkey)
         /\ table' = kept \cup {r} /\ nextId' = nextId + 1
  BY DEF AfterRefusal, AfterInsert
<1>c. ASSUME table' = table /\ nextId' = nextId PROVE TypeOK' /\ OneOwner'
  BY <1>a, <1>c DEF TypeOK, OneOwner, Labels
<1>d. ASSUME ~Conflicts(kept, call[w].pubkey),
             table' = kept \cup {r} /\ nextId' = nextId + 1
      PROVE  TypeOK' /\ OneOwner'
  <2>1. /\ r \in Rows
        /\ \A s \in kept \cup {r} : s.id < nextId + 1
        /\ \A s \in kept : s.pubkey # r.pubkey /\ s.id # r.id
    <3> HIDE DEF r, kept
    <3> QED
      BY <1>0, <1>a, <1>d, InsertedRow DEF r
  <2> HIDE DEF r, kept
  <2>2. TypeOK'
    BY <1>0, <1>a, <1>d, <2>1 DEF TypeOK, Labels
  <2>3. OneOwner'
    BY <1>a, <1>d, <2>1 DEF OneOwner
  <2> QED
    BY <2>2, <2>3
<1>1. TypeOK' /\ OneOwner'
  BY <1>b, <1>c, <1>d
<1>3. FreshInv' /\ CopiedInv'
  BY DEF TypeOK, FreshInv, CopiedInv
<1> QED
  BY <1>1, <1>3

\* Unlink keeps the invariant.
LEMMA UnlinkIInv ==
  ASSUME IInv, NEW w \in Workers, NEW u \in Users, Unlink(w, u)
  PROVE  IInv'
<1> USE DEF IInv, Unlink, Goto
<1>1. TypeOK'
  BY DEF TypeOK, DeleteUser
<1>2. OneOwner'
  BY DEF OneOwner, DeleteUser
<1>3. FreshInv' /\ CopiedInv'
  BY DEF TypeOK, FreshInv, CopiedInv
<1> QED
  BY <1>1, <1>2, <1>3

\* RevokeIdentity keeps the invariant.
LEMMA RevokeIdentityIInv ==
  ASSUME IInv, NEW w \in Workers, NEW u \in Users, NEW i \in 1..(nextId - 1),
         RevokeIdentity(w, i, u)
  PROVE  IInv'
<1> USE DEF IInv, RevokeIdentity, Goto
<1>1. TypeOK'
  BY RevokedRow DEF TypeOK
<1>2. OneOwner'
  <2> SUFFICES ASSUME NEW s \in table', NEW t \in table',
                      s.pubkey = t.pubkey \/ s.id = t.id
               PROVE  s = t
    BY DEF OneOwner
  <2>1. PICK r \in table :
          /\ s.id = r.id /\ s.user = r.user /\ s.pubkey = r.pubkey
          /\ s = IF r.id = i /\ r.user = u THEN [r EXCEPT !.enabled = FALSE] ELSE r
    BY RevokedRow
  <2>2. PICK q \in table :
          /\ t.id = q.id /\ t.user = q.user /\ t.pubkey = q.pubkey
          /\ t = IF q.id = i /\ q.user = u THEN [q EXCEPT !.enabled = FALSE] ELSE q
    BY RevokedRow
  <2>3. r = q
    BY <2>1, <2>2 DEF OneOwner
  <2> QED
    BY <2>1, <2>2, <2>3
<1>3. FreshInv' /\ CopiedInv'
  BY DEF TypeOK, FreshInv, CopiedInv
<1> QED
  BY <1>1, <1>2, <1>3

\* Fail keeps the invariant.
LEMMA FailIInv ==
  ASSUME IInv, NEW w \in Workers, Fail(w)
  PROVE  IInv'
<1> USE DEF IInv, Fail, Goto
<1>1. TypeOK'
  BY DEF TypeOK, Labels, Calls
<1>2. OneOwner'
  BY DEF OneOwner
<1>3. FreshInv' /\ CopiedInv'
  BY DEF TypeOK, FreshInv, CopiedInv
<1> QED
  BY <1>1, <1>2, <1>3

\* Crash keeps the invariant.
LEMMA CrashIInv ==
  ASSUME IInv, NEW w \in Workers, Crash(w)
  PROVE  IInv'
<1> USE DEF IInv, Crash, Goto
<1>1. TypeOK'
  BY DEF TypeOK, Labels, Calls
<1>2. OneOwner'
  BY DEF OneOwner
<1>3. FreshInv' /\ CopiedInv'
  BY DEF TypeOK, FreshInv, CopiedInv
<1> QED
  BY <1>1, <1>2, <1>3

\* A stuttering step keeps the invariant.
LEMMA StutterIInv == ASSUME IInv, UNCHANGED vars PROVE IInv'
  BY DEF IInv, vars, TypeOK, OneOwner, FreshInv, CopiedInv

\* Every step keeps the invariant.
LEMMA NextIInv == ASSUME IInv, [Next]_vars PROVE IInv'
  BY ReadVersionIInv, MigrateIInv, LinkCheckIInv, LinkWriteIInv, AddCheckIInv,
     AddWriteIInv, UnlinkIInv, RevokeIdentityIInv, FailIInv, CrashIInv,
     StutterIInv
     DEF Next

\* The strengthening holds of every reachable state.
THEOREM Invariance == Spec => []IInv
<1>1. Init => IInv
  BY InitIInv
<1>2. IInv /\ [Next]_vars => IInv'
  BY NextIInv
<1> QED
  BY <1>1, <1>2, PTL DEF Spec

\* The state has its types, and no row an id sqlite_sequence has yet to give.
THEOREM TypeCorrect == Spec => []TypeOK
  BY Invariance, PTL DEF IInv

\* mappings.py:5: "each pubkey may belong to at most one user", although link()
\* and add_identity() check in one transaction and insert in another.
THEOREM OneOwnerHolds == Spec => []OneOwner
  BY Invariance, PTL DEF IInv

\* No process serves requests before every legacy identity was copied.
THEOREM OpenMeansMigratedHolds == Spec => []OpenMeansMigrated
<1>1. IInv => OpenMeansMigrated
  BY DEF IInv, TypeOK, FreshInv, CopiedInv, OpenMeansMigrated
<1> QED
  BY <1>1, Invariance, PTL

-----------------------------------------------------------------------------
(* What one step does to the table                                         *)

\* A migration or add_identity: nothing goes, what comes is new.
Extends ==
    /\ table \subseteq table'
    /\ \A s \in table' \ table :
          s.id >= nextId /\ \A r \in table : r.pubkey # s.pubkey

\* link: the rows of one user go, and a new one of that user comes.
Replaces(u) ==
    /\ served' = u
    /\ \E w \in Workers : pc[w] = "link" /\ pc'[w] = "idle"
    /\ \A r \in table : r.user # u => r \in table'
    /\ \E s \in table' : s.user = u
    /\ \A s \in table' \ table :
          /\ s.id >= nextId
          /\ \A r \in table : r.pubkey = s.pubkey => r.user = u

\* unlink and revoke_identity.
Removes(u) == served' = u /\ pc' = pc /\ table' = DeleteUser(table, u)
Revokes(u) == served' = u /\ \E i \in Nat : table' = Revoke(table, i, u)

\* An id that has been given out is below nextId.
LEMMA IdsBelowNext ==
  ASSUME TypeOK
  PROVE  nextId \in Nat /\ \A r \in table : r.id \in Nat /\ ~(r.id >= nextId)
  BY MaxIdAssumption DEF TypeOK, Rows, Ids

\* Migrate only adds.
LEMMA MigrateExtends ==
  ASSUME IInv, NEW w \in Workers, Migrate(w)
  PROVE  Extends
<1> SUFFICES ASSUME NEW s \in {LegacyRow(i) : i \in Imported(table)}
             PROVE  s.id >= nextId /\ \A r \in table : r.pubkey # s.pubkey
  BY DEF Migrate, Extends
<1>1. PICK i \in Imported(table) : s = LegacyRow(i)
  OBVIOUS
<1>2. i \in 1..Len(Legacy) /\ ~Conflicts(table, Legacy[i].pubkey)
  BY DEF Imported
<1>3. s.id >= nextId
  BY <1>1, <1>2, LegacyRowType DEF IInv
<1> QED
  BY <1>1, <1>2, <1>3 DEF Conflicts, LegacyRow

\* AddWrite only adds.
LEMMA AddExtends ==
  ASSUME IInv, NEW w \in Workers, AddWrite(w)
  PROVE  Extends
<1>1. nextId \in Nat
  BY IdsBelowNext DEF IInv
<1> QED
  BY <1>1 DEF AddWrite, Extends, Conflicts, NewRow, IdOf

\* LinkWrite replaces, or changes nothing.
LEMMA LinkReplaces ==
  ASSUME IInv, NEW w \in Workers, LinkWrite(w)
  PROVE  table' = table \/ \E u \in Users : Replaces(u)
<1> DEFINE u == call[w].user
           p == call[w].pubkey
           kept == DeleteUser(table, u)
           n == NewRow(IdOf(kept), u, p)
<1>1. u \in Users /\ nextId \in Nat /\ w \in DOMAIN pc
  BY IdsBelowNext DEF IInv, TypeOK, Calls
<1>2. CASE Conflicts(kept, p)
  BY <1>2 DEF LinkWrite, AfterRefusal
<1>3. CASE ~Conflicts(kept, p)
  <2>1. table' = kept \cup {n} /\ served' = u
    BY <1>3 DEF LinkWrite
  <2>2. pc[w] = "link" /\ pc'[w] = "idle"
    BY <1>1 DEF LinkWrite, Goto
  <2>3. n.id = nextId /\ n.user = u /\ n.pubkey = p
    BY DEF NewRow, IdOf
  <2>4. \A r \in table : r.user # u => r \in kept /\ r.pubkey # p
    BY <1>3 DEF DeleteUser, Conflicts
  <2>5. kept \subseteq table
    BY DEF DeleteUser
  <2> HIDE DEF u, p, kept, n
  <2>6. Replaces(u)
    BY <1>1, <2>1, <2>2, <2>3, <2>4, <2>5 DEF Replaces
  <2> QED
    BY <1>1, <2>6
<1> QED
  BY <1>2, <1>3

\* Every step is one of these.
LEMMA TableChange ==
  ASSUME IInv, [Next]_vars
  PROVE  \/ table' = table
         \/ Extends
         \/ \E u \in Users : Replaces(u) \/ Removes(u) \/ Revokes(u)
<1>1. ASSUME NEW w \in Workers, NEW u \in Users, Unlink(w, u) PROVE Removes(u)
  BY <1>1 DEF Unlink, Removes
<1>2. ASSUME NEW w \in Workers, NEW u \in Users, NEW i \in 1..(nextId - 1),
             RevokeIdentity(w, i, u)
      PROVE  Revokes(u)
  BY <1>2 DEF RevokeIdentity, Revokes
<1>3. ASSUME NEW w \in Workers,
             \/ ReadVersion(w) \/ Fail(w) \/ Crash(w)
             \/ \E u \in Users, p \in Pubkeys : LinkCheck(w, u, p) \/ AddCheck(w, u, p)
      PROVE  table' = table
  BY <1>3 DEF ReadVersion, Fail, Crash, LinkCheck, AddCheck
<1>4. ASSUME UNCHANGED vars PROVE table' = table
  BY <1>4 DEF vars
<1> QED
  BY <1>1, <1>2, <1>3, <1>4, MigrateExtends, AddExtends, LinkReplaces DEF Next

-----------------------------------------------------------------------------
(* What a step may not do                                                  *)

\* link, unlink and revoke_identity take an identity away from nobody but the
\* user they are called for.
THEOREM TakenAwayOnlyForOwnerHolds == Spec => TakenAwayOnlyForOwner
<1> DEFINE A == \A r \in table : r.enabled /\ r \notin table' => served' = r.user
<1>1. IInv /\ [Next]_vars => A
  <2> SUFFICES ASSUME IInv, [Next]_vars,
                      NEW r \in table, r.enabled, r \notin table'
               PROVE  served' = r.user
    OBVIOUS
  <2>1. ASSUME NEW u \in Users, Replaces(u) \/ Removes(u) \/ Revokes(u)
        PROVE  served' = r.user
    BY <2>1 DEF Replaces, Removes, DeleteUser, Revokes, Revoke
  <2> QED
    BY <2>1, TableChange DEF Extends
<1>2. IInv /\ [Next]_vars => [A]_vars
  BY <1>1
<1> QED
  BY <1>2, Invariance, PTL DEF Spec, TakenAwayOnlyForOwner

\* A row with an id below sqlite_sequence is the row that has always had it.
THEOREM IdNeverReboundHolds == Spec => IdNeverRebound
<1> DEFINE A == \A i \in 1..(nextId - 1) :
                   \A s \in table' : s.id = i =>
                      \E r \in table : r.id = i /\ r.user = s.user /\ r.pubkey = s.pubkey
<1>1. IInv /\ [Next]_vars => A
  <2> SUFFICES ASSUME IInv, [Next]_vars,
                      NEW i \in 1..(nextId - 1), NEW s \in table', s.id = i
               PROVE  \E r \in table : r.id = i /\ r.user = s.user /\ r.pubkey = s.pubkey
    OBVIOUS
  <2>0. TypeOK /\ nextId \in Nat /\ ~(s.id >= nextId)
    BY IdsBelowNext DEF IInv
  <2>1. ASSUME NEW u \in Users, Revokes(u)
        PROVE  \E r \in table : r.id = i /\ r.user = s.user /\ r.pubkey = s.pubkey
    <3>1. PICK j \in Nat : table' = Revoke(table, j, u)
      BY <2>1 DEF Revokes
    <3> QED
      BY <2>0, <3>1, RevokedRow
  <2>2. ASSUME NEW u \in Users, Removes(u) PROVE s \in table
    BY <2>2 DEF Removes, DeleteUser
  <2>3. ASSUME NEW u \in Users, Replaces(u) PROVE s \in table
    BY <2>0, <2>3 DEF Replaces
  <2>4. ASSUME Extends PROVE s \in table
    BY <2>0, <2>4 DEF Extends
  <2> QED
    BY <2>1, <2>2, <2>3, <2>4, TableChange
<1>2. IInv /\ [Next]_vars => [A]_vars
  BY <1>1
<1> QED
  BY <1>2, Invariance, PTL DEF Spec, IdNeverRebound

\* A revoked pubkey is in force again only as a new row, linked by its owner.
THEOREM RevocationHoldsAlways == Spec => RevocationHolds
<1> DEFINE A == \A r \in table, s \in table' :
                   ~r.enabled /\ s.enabled /\ r.pubkey = s.pubkey =>
                      /\ s.id # r.id
                      /\ served' = r.user
                      /\ \E w \in Workers : pc[w] = "link" /\ pc'[w] = "idle"
<1>1. IInv /\ [Next]_vars => A
  <2> SUFFICES ASSUME IInv, [Next]_vars, NEW r \in table, NEW s \in table',
                      ~r.enabled, s.enabled, r.pubkey = s.pubkey
               PROVE  /\ s.id # r.id
                      /\ served' = r.user
                      /\ \E w \in Workers : pc[w] = "link" /\ pc'[w] = "idle"
    OBVIOUS
  <2>0. TypeOK /\ ~(r.id >= nextId)
    BY IdsBelowNext DEF IInv
  <2>1. s \notin table
    BY DEF IInv, OneOwner
  <2>2. ~Extends
    BY <2>1 DEF Extends
  <2>3. ASSUME NEW u \in Users, Removes(u) PROVE FALSE
    BY <2>1, <2>3 DEF Removes, DeleteUser
  <2>4. ASSUME NEW u \in Users, Revokes(u) PROVE FALSE
    <3>1. PICK j \in Nat : table' = Revoke(table, j, u)
      BY <2>4 DEF Revokes
    <3>2. PICK q \in table :
            /\ s.pubkey = q.pubkey
            /\ s = IF q.id = j /\ q.user = u THEN [q EXCEPT !.enabled = FALSE] ELSE q
      BY <2>0, <3>1, RevokedRow
    <3>3. q = r
      BY <3>2 DEF IInv, OneOwner
    <3>4. r \in Rows
      BY <2>0 DEF TypeOK
    <3> QED
      BY <3>2, <3>3, <3>4 DEF Rows
  <2>5. PICK u \in Users : Replaces(u)
    BY <2>1, <2>2, <2>3, <2>4, TableChange
  <2> QED
    BY <2>0, <2>1, <2>5 DEF Replaces
<1>2. IInv /\ [Next]_vars => [A]_vars
  BY <1>1
<1> QED
  BY <1>2, Invariance, PTL DEF Spec, RevocationHolds

\* A user loses the last identity only to unlink(): link() has put the new row
\* in, or was rolled back.
THEOREM NeverLeftWithoutHolds == Spec => NeverLeftWithout
<1> DEFINE A == \A u \in Users :
                   (\E r \in table : r.user = u) /\ ~(\E r \in table' : r.user = u)
                      => served' = u /\ pc' = pc
<1>1. IInv /\ [Next]_vars => A
  <2> SUFFICES ASSUME IInv, [Next]_vars, NEW u \in Users, NEW r \in table,
                      r.user = u, ~(\E s \in table' : s.user = u)
               PROVE  served' = u /\ pc' = pc
    OBVIOUS
  <2>1. table' # table /\ ~Extends
    BY DEF Extends
  <2>2. ASSUME NEW v \in Users, Replaces(v) PROVE FALSE
    BY <2>2 DEF Replaces
  <2>3. ASSUME NEW v \in Users, Revokes(v) PROVE FALSE
    <3>1. PICK j \in Nat : table' = Revoke(table, j, v)
      BY <2>3 DEF Revokes
    <3>2. r \in Rows
      BY DEF IInv, TypeOK
    <3>3. (IF r.id = j /\ r.user = v THEN [r EXCEPT !.enabled = FALSE] ELSE r).user = u
      BY <3>2 DEF Rows
    <3> QED
      BY <3>1, <3>3 DEF Revoke
  <2>4. PICK v \in Users : Removes(v)
    BY <2>1, <2>2, <2>3, TableChange
  <2> QED
    BY <2>4 DEF Removes, DeleteUser
<1>2. IInv /\ [Next]_vars => [A]_vars
  BY <1>1
<1> QED
  BY <1>2, Invariance, PTL DEF Spec, NeverLeftWithout

-----------------------------------------------------------------------------
(* The refinement of AccountKeys                                           *)

\* The state of AccountKeys, as ImplementsAccountKeys maps it.
Key == [p \in Pubkeys |-> BindingOf(table, p)]

KeyOfRow(r) == [user |-> r.user, enabled |-> r.enabled]
FreeKey == [user |-> Nobody, enabled |-> FALSE]

\* Whether anybody holds a pubkey, and the only row that says so.
Vacant(t, p) == \A r \in t : r.pubkey # p
Holds(t, p, r) ==
    /\ r \in t
    /\ r.pubkey = p
    /\ r.user \in Users
    /\ r.user # Nobody
    /\ r.enabled \in BOOLEAN
    /\ \A s \in t : s.pubkey = p => s = r

\* A pubkey is vacant, or exactly one row holds it, and BindingOf says which.
LEMMA KeyCases ==
  ASSUME NEW t, t \subseteq Rows, NEW p,
         \A r, s \in t : r.pubkey = s.pubkey => r = s
  PROVE  \/ Vacant(t, p) /\ BindingOf(t, p) = FreeKey
         \/ \E r : Holds(t, p, r) /\ BindingOf(t, p) = KeyOfRow(r)
<1>1. CASE Vacant(t, p)
  BY <1>1 DEF Vacant, BindingOf, FreeKey
<1>2. CASE ~Vacant(t, p)
  <2>1. PICK r \in t : r.pubkey = p
    BY <1>2 DEF Vacant
  <2>2. Holds(t, p, r)
    BY <2>1, NobodyAssumption DEF Holds, Rows
  <2>3. (CHOOSE q \in t : q.pubkey = p) = r
    BY <2>1
  <2>4. BindingOf(t, p) = KeyOfRow(r)
    BY <2>1, <2>3 DEF BindingOf, KeyOfRow
  <2> QED
    BY <2>2, <2>4
<1> QED
  BY <1>1, <1>2

\* The same of the table before a step.
LEMMA KeyCasesHere ==
  ASSUME IInv, NEW p \in Pubkeys
  PROVE  \/ Vacant(table, p) /\ Key[p] = FreeKey
         \/ \E r : Holds(table, p, r) /\ Key[p] = KeyOfRow(r)
  BY KeyCases DEF IInv, TypeOK, OneOwner, Key

\* And after it.
LEMMA KeyCasesThere ==
  ASSUME IInv', NEW p \in Pubkeys
  PROVE  \/ Vacant(table', p) /\ Key'[p] = FreeKey
         \/ \E r : Holds(table', p, r) /\ Key'[p] = KeyOfRow(r)
  BY KeyCases DEF IInv, TypeOK, OneOwner, Key

\* A step that leaves the rows of a pubkey alone leaves its binding alone.
LEMMA KeyStays ==
  ASSUME IInv, IInv', NEW p \in Pubkeys,
         \A r \in Rows : r.pubkey = p => (r \in table <=> r \in table')
  PROVE  Key'[p] = Key[p]
<1>1. table \subseteq Rows /\ table' \subseteq Rows
  BY DEF IInv, TypeOK
<1> QED
  BY <1>1, KeyCasesHere, KeyCasesThere DEF Vacant, Holds

\* unlink frees what its user held.
LEMMA RemovesUnlinks ==
  ASSUME IInv, IInv', NEW u \in Users, Removes(u)
  PROVE  Accounts!Unlink(u)
<1>1. ASSUME NEW q \in Pubkeys
      PROVE  Key'[q] = IF Key[q].user = u THEN FreeKey ELSE Key[q]
  <2>1. CASE Vacant(table, q)
    <3>1. Key[q] = FreeKey /\ Vacant(table', q)
      BY <2>1, KeyCasesHere DEF Removes, DeleteUser, Vacant, Holds
    <3>2. Key'[q] = FreeKey
      BY <3>1, KeyCasesThere DEF Vacant, Holds
    <3> QED
      BY <3>1, <3>2
  <2>2. CASE ~Vacant(table, q)
    <3>1. PICK r : Holds(table, q, r) /\ Key[q] = KeyOfRow(r)
      BY <2>2, KeyCasesHere
    <3>2. Key[q].user = r.user
      BY <3>1 DEF KeyOfRow
    <3>3. CASE r.user = u
      <4>1. Vacant(table', q)
        BY <3>1, <3>3 DEF Removes, DeleteUser, Vacant, Holds
      <4> QED
        BY <3>2, <3>3, <4>1, KeyCasesThere DEF Vacant, Holds
    <3>4. CASE r.user # u
      <4>1. Key'[q] = Key[q]
        BY <3>1, <3>4, KeyStays DEF Removes, DeleteUser, Holds
      <4> QED
        BY <3>2, <3>4, <4>1
    <3> QED
      BY <3>3, <3>4
  <2> QED
    BY <2>1, <2>2
<1> QED
  BY <1>1 DEF Accounts!Unlink, Accounts!Free, FreeKey, Key

\* revoke_identity revokes the binding of the row it finds, if it finds one.
LEMMA RevokesRevokes ==
  ASSUME IInv, IInv', NEW u \in Users, Revokes(u)
  PROVE  Key' = Key \/ \E p \in Pubkeys : Accounts!Revoke(u, p)
<1>1. PICK i \in Nat : table' = Revoke(table, i, u)
  BY DEF Revokes
<1>2. CASE ~(\E r \in table : r.id = i /\ r.user = u)
  <2>1. table' = table
    BY <1>1, <1>2 DEF Revoke
  <2> QED
    BY <2>1 DEF Key
<1>3. CASE \E r \in table : r.id = i /\ r.user = u
  <2>1. PICK r \in table : r.id = i /\ r.user = u
    BY <1>3
  <2> DEFINE p == r.pubkey
             s == [r EXCEPT !.enabled = FALSE]
  <2>2. /\ r \in Rows /\ p \in Pubkeys /\ s \in Rows /\ s \in table'
        /\ s.pubkey = p /\ s.user = u /\ s.enabled = FALSE
    BY <1>1, <2>1 DEF IInv, TypeOK, Rows, Revoke
  <2>3. Key[p] = [user |-> u, enabled |-> r.enabled]
    <3>1. ~Vacant(table, p)
      BY DEF Vacant
    <3>2. PICK k : Holds(table, p, k) /\ Key[p] = KeyOfRow(k)
      BY <2>2, <3>1, KeyCasesHere
    <3>3. k = r
      BY <3>2 DEF Holds
    <3> QED
      BY <2>1, <3>2, <3>3 DEF KeyOfRow
  <2>4. Key'[p] = [user |-> u, enabled |-> FALSE]
    <3>1. ~Vacant(table', p)
      BY <2>2 DEF Vacant
    <3>2. PICK k : Holds(table', p, k) /\ Key'[p] = KeyOfRow(k)
      BY <2>2, <3>1, KeyCasesThere
    <3>3. k = s
      BY <2>2, <3>2 DEF Holds
    <3> QED
      BY <2>2, <3>2, <3>3 DEF KeyOfRow
  <2>6. ASSUME NEW q \in Pubkeys, q # p PROVE Key'[q] = Key[q]
    <3>1. ASSUME NEW t \in Rows, t.pubkey = q PROVE t \in table <=> t \in table'
      <4>1. ASSUME t \in table PROVE t \in table'
        <5>1. ~(t.id = i /\ t.user = u)
          BY <2>1, <2>6, <3>1, <4>1 DEF IInv, OneOwner
        <5> QED
          BY <1>1, <4>1, <5>1 DEF Revoke
      <4>2. ASSUME t \in table' PROVE t \in table
        <5>1. PICK v \in table :
                /\ t.id = v.id /\ t.user = v.user /\ t.pubkey = v.pubkey
                /\ t = IF v.id = i /\ v.user = u THEN [v EXCEPT !.enabled = FALSE] ELSE v
          BY <1>1, <4>2, RevokedRow DEF IInv
        <5>2. ~(v.id = i /\ v.user = u)
          BY <2>1, <2>6, <3>1, <5>1 DEF IInv, OneOwner
        <5> QED
          BY <5>1, <5>2
      <4> QED
        BY <4>1, <4>2
    <3> QED
      BY <2>6, <3>1, KeyStays
  <2> HIDE DEF p
  <2>7. Key' = [Key EXCEPT ![p] = Accounts!Revoked(u)]
    BY <2>2, <2>4, <2>6 DEF Key, Accounts!Revoked
  <2>8. Key[p].user = u
    BY <2>3
  <2> QED
    BY <2>2, <2>7, <2>8 DEF Accounts!Revoke, Key
<1> QED
  BY <1>2, <1>3

\* link leaves its user with the one pubkey it was given.
LEMMA LinkLinks ==
  ASSUME IInv, IInv', NEW w \in Workers, LinkWrite(w)
  PROVE  Key' = Key \/ \E u \in Users, p \in Pubkeys : Accounts!Link(u, p)
<1> DEFINE u == call[w].user
           p == call[w].pubkey
           kept == DeleteUser(table, u)
           n == NewRow(IdOf(kept), u, p)
<1>1. u \in Users /\ p \in Pubkeys
  BY DEF IInv, TypeOK, Calls
<1>2. CASE Conflicts(kept, p)
  <2>1. table' = table
    BY <1>2 DEF LinkWrite, AfterRefusal
  <2> QED
    BY <2>1 DEF Key
<1>3. CASE ~Conflicts(kept, p)
  <2>1. table' = kept \cup {n}
    BY <1>3 DEF LinkWrite
  <2>2. n.user = u /\ n.pubkey = p /\ n.enabled = TRUE
    BY DEF NewRow
  <2>3. \A r : r \in kept <=> r \in table /\ r.user # u
    BY DEF DeleteUser
  <2>4. \A r \in table : r.pubkey = p => r.user = u
    BY <1>3, <2>3 DEF Conflicts
  <2> HIDE DEF u, p, kept, n
  <2>5. Key[p].user \in {u, Nobody}
    <3>1. CASE Key[p] = FreeKey
      BY <3>1 DEF FreeKey
    <3>2. CASE Key[p] # FreeKey
      <4>1. PICK r : Holds(table, p, r) /\ Key[p] = KeyOfRow(r)
        BY <1>1, <3>2, KeyCasesHere
      <4> QED
        BY <2>4, <4>1 DEF Holds, KeyOfRow
    <3> QED
      BY <3>1, <3>2
  <2>6. Key'[p] = Accounts!Binding(u)
    <3>1. ~Vacant(table', p)
      BY <2>1, <2>2 DEF Vacant
    <3>2. PICK k : Holds(table', p, k) /\ Key'[p] = KeyOfRow(k)
      BY <1>1, <3>1, KeyCasesThere
    <3>3. k = n
      BY <2>1, <2>2, <3>2 DEF Holds
    <3> QED
      BY <2>2, <3>2, <3>3 DEF KeyOfRow, Accounts!Binding
  <2>7. ASSUME NEW q \in Pubkeys, q # p
        PROVE  Key'[q] = IF Key[q].user = u THEN FreeKey ELSE Key[q]
    <3>1. CASE Vacant(table, q)
      <4>1. Key[q] = FreeKey /\ Vacant(table', q)
        BY <2>1, <2>2, <2>3, <2>7, <3>1, KeyCasesHere DEF Vacant, Holds
      <4> QED
        BY <4>1, KeyCasesThere DEF Vacant, Holds
    <3>2. CASE ~Vacant(table, q)
      <4>1. PICK r : Holds(table, q, r) /\ Key[q] = KeyOfRow(r)
        BY <3>2, KeyCasesHere
      <4>2. Key[q].user = r.user
        BY <4>1 DEF KeyOfRow
      <4>3. CASE r.user = u
        <5>1. Vacant(table', q)
          BY <2>1, <2>2, <2>3, <2>7, <4>1, <4>3 DEF Vacant, Holds
        <5> QED
          BY <4>2, <4>3, <5>1, KeyCasesThere DEF Vacant, Holds
      <4>4. CASE r.user # u
        <5>1. Key'[q] = Key[q]
          BY <2>1, <2>2, <2>3, <2>7, <4>1, <4>4, KeyStays DEF Holds
        <5> QED
          BY <4>2, <4>4, <5>1
      <4> QED
        BY <4>3, <4>4
    <3> QED
      BY <3>1, <3>2
  <2>8. Accounts!Link(u, p)
    BY <2>5, <2>6, <2>7 DEF Accounts!Link, Accounts!Free, FreeKey, Key
  <2> QED
    BY <1>1, <2>8
<1> QED
  BY <1>2, <1>3

\* add_identity binds a pubkey that was free.
LEMMA AddAdds ==
  ASSUME IInv, IInv', NEW w \in Workers, AddWrite(w)
  PROVE  Key' = Key \/ \E u \in Users, p \in Pubkeys : Accounts!Add(u, p)
<1> DEFINE u == call[w].user
           p == call[w].pubkey
           n == NewRow(IdOf(table), u, p)
<1>1. u \in Users /\ p \in Pubkeys
  BY DEF IInv, TypeOK, Calls
<1>2. CASE Conflicts(table, p)
  <2>1. table' = table
    BY <1>2 DEF AddWrite
  <2> QED
    BY <2>1 DEF Key
<1>3. CASE ~Conflicts(table, p)
  <2>1. table' = table \cup {n}
    BY <1>3 DEF AddWrite
  <2>2. n.user = u /\ n.pubkey = p /\ n.enabled = TRUE
    BY DEF NewRow
  <2>3. Vacant(table, p)
    BY <1>3 DEF Conflicts, Vacant
  <2> HIDE DEF u, p, n
  <2>4. Key[p] = FreeKey
    BY <1>1, <2>3, KeyCasesHere DEF Vacant, Holds
  <2>5. Key'[p] = Accounts!Binding(u)
    <3>1. ~Vacant(table', p)
      BY <2>1, <2>2 DEF Vacant
    <3>2. PICK k : Holds(table', p, k) /\ Key'[p] = KeyOfRow(k)
      BY <1>1, <3>1, KeyCasesThere
    <3>3. k = n
      BY <2>1, <2>2, <3>2 DEF Holds
    <3> QED
      BY <2>2, <3>2, <3>3 DEF KeyOfRow, Accounts!Binding
  <2>6. ASSUME NEW q \in Pubkeys, q # p PROVE Key'[q] = Key[q]
    BY <2>1, <2>2, <2>6, KeyStays
  <2>7. Key' = [Key EXCEPT ![p] = Accounts!Binding(u)]
    BY <1>1, <2>5, <2>6 DEF Key
  <2>8. Accounts!Add(u, p)
    BY <2>4, <2>7 DEF Accounts!Add, Accounts!Free, FreeKey, Key
  <2> QED
    BY <1>1, <2>8
<1> QED
  BY <1>2, <1>3

\* What the old table says of a pubkey.
LEMMA InheritedCases ==
  ASSUME NEW p
  PROVE  \/ /\ \A i \in 1..Len(Legacy) : Legacy[i].pubkey # p
            /\ InheritedOf(p) = FreeKey
         \/ \E i \in 1..Len(Legacy) :
               /\ Legacy[i].pubkey = p
               /\ InheritedOf(p) = KeyOfRow(Legacy[i])
<1>1. CASE \A i \in 1..Len(Legacy) : Legacy[i].pubkey # p
  BY <1>1 DEF InheritedOf, FreeKey
<1>2. CASE \E i \in 1..Len(Legacy) : Legacy[i].pubkey = p
  <2>1. PICK i \in 1..Len(Legacy) : Legacy[i].pubkey = p
    BY <1>2
  <2>2. (CHOOSE j \in 1..Len(Legacy) : Legacy[j].pubkey = p) = i
    BY <2>1, LegacyAssumption
  <2> QED
    BY <2>1, <2>2 DEF InheritedOf, KeyOfRow
<1> QED
  BY <1>1, <1>2

\* The migration binds the inherited pubkeys that are free, and no other.
LEMMA MigrateImports ==
  ASSUME IInv, IInv', NEW w \in Workers, Migrate(w)
  PROVE  Accounts!Import
<1>1. table' = table \cup {LegacyRow(i) : i \in Imported(table)}
  BY DEF Migrate
<1>2. ASSUME NEW p \in Pubkeys
      PROVE  Key'[p] = IF Key[p] = FreeKey THEN InheritedOf(p) ELSE Key[p]
  <2>1. CASE ~Vacant(table, p)
    <3>1. PICK r : Holds(table, p, r) /\ Key[p] = KeyOfRow(r)
      BY <2>1, KeyCasesHere
    <3>2. r \in table'
      BY <1>1, <3>1 DEF Holds
    <3>3. ~Vacant(table', p)
      BY <3>1, <3>2 DEF Vacant, Holds
    <3>4. PICK k : Holds(table', p, k) /\ Key'[p] = KeyOfRow(k)
      BY <3>3, KeyCasesThere
    <3>5. k = r
      BY <3>1, <3>2, <3>4 DEF Holds
    <3>6. KeyOfRow(r).user # FreeKey.user
      BY <3>1 DEF Holds, KeyOfRow, FreeKey
    <3> QED
      BY <3>1, <3>4, <3>5, <3>6
  <2>2. CASE Vacant(table, p) /\ \A i \in 1..Len(Legacy) : Legacy[i].pubkey # p
    <3>1. Vacant(table', p)
      BY <1>1, <2>2 DEF Vacant, Imported, LegacyRow
    <3>2. Key[p] = FreeKey /\ Key'[p] = FreeKey
      BY <2>2, <3>1, KeyCasesHere, KeyCasesThere DEF Vacant, Holds
    <3> QED
      BY <2>2, <3>2, InheritedCases
  <2>3. CASE Vacant(table, p) /\ \E i \in 1..Len(Legacy) : Legacy[i].pubkey = p
    <3>1. PICK i \in 1..Len(Legacy) :
            Legacy[i].pubkey = p /\ InheritedOf(p) = KeyOfRow(Legacy[i])
      BY <2>3, InheritedCases
    <3>2. i \in Imported(table)
      BY <2>3, <3>1 DEF Imported, Conflicts, Vacant
    <3>3. LegacyRow(i) \in table' /\ LegacyRow(i).pubkey = p
      BY <1>1, <3>1, <3>2 DEF LegacyRow
    <3>4. ~Vacant(table', p)
      BY <3>3 DEF Vacant
    <3>5. PICK k : Holds(table', p, k) /\ Key'[p] = KeyOfRow(k)
      BY <3>4, KeyCasesThere
    <3>6. k = LegacyRow(i)
      BY <3>3, <3>5 DEF Holds
    <3>7. Key'[p] = InheritedOf(p)
      BY <3>1, <3>5, <3>6 DEF KeyOfRow, LegacyRow
    <3>8. Key[p] = FreeKey
      BY <2>3, KeyCasesHere DEF Vacant, Holds
    <3> QED
      BY <3>7, <3>8
  <2> QED
    BY <2>1, <2>2, <2>3
<1> QED
  BY <1>2 DEF Accounts!Import, Accounts!Free, FreeKey, Key

\* The store with its checks, transactions, failures and stale ids implements
\* AccountKeys: every step is one whole change of the bindings, or none.
THEOREM StoreImplementsAccountKeys == Spec => ImplementsAccountKeys
<1>1. Init => Accounts!Init
  <2> SUFFICES ASSUME Init PROVE \A p \in Pubkeys : BindingOf(table, p) = FreeKey
    BY DEF Accounts!Init, Accounts!Free, FreeKey
  <2> QED
    BY DEF Init, BindingOf, FreeKey
<1>2. IInv /\ IInv' /\ [Next]_vars => [Accounts!Next]_Key
  <2> SUFFICES ASSUME IInv, IInv', [Next]_vars
               PROVE  Accounts!Next \/ Key' = Key
    OBVIOUS
  <2>1. ASSUME NEW w \in Workers, Migrate(w) PROVE Accounts!Next
    BY <2>1, MigrateImports DEF Accounts!Next
  <2>2. ASSUME NEW w \in Workers, LinkWrite(w) PROVE Accounts!Next \/ Key' = Key
    BY <2>2, LinkLinks DEF Accounts!Next
  <2>3. ASSUME NEW w \in Workers, AddWrite(w) PROVE Accounts!Next \/ Key' = Key
    BY <2>3, AddAdds DEF Accounts!Next
  <2>4. ASSUME NEW w \in Workers, NEW u \in Users, Unlink(w, u) PROVE Accounts!Next
    <3>1. Removes(u)
      BY <2>4 DEF Unlink, Removes
    <3> QED
      BY <3>1, RemovesUnlinks DEF Accounts!Next
  <2>5. ASSUME NEW w \in Workers, NEW u \in Users, NEW i \in 1..(nextId - 1),
               RevokeIdentity(w, i, u)
        PROVE  Accounts!Next \/ Key' = Key
    <3>1. Revokes(u)
      BY <2>5 DEF RevokeIdentity, Revokes
    <3> QED
      BY <3>1, RevokesRevokes DEF Accounts!Next
  <2>6. ASSUME \/ UNCHANGED vars
               \/ \E w \in Workers :
                     \/ ReadVersion(w) \/ Fail(w) \/ Crash(w)
                     \/ \E u \in Users, p \in Pubkeys :
                           LinkCheck(w, u, p) \/ AddCheck(w, u, p)
        PROVE  Key' = Key
    <3>1. table' = table
      BY <2>6 DEF vars, ReadVersion, Fail, Crash, LinkCheck, AddCheck
    <3> QED
      BY <3>1 DEF Key
  <2> QED
    BY <2>1, <2>2, <2>3, <2>4, <2>5, <2>6 DEF Next
<1> QED
  BY <1>1, <1>2, Invariance, PTL DEF Spec, ImplementsAccountKeys, Accounts!Spec,
       Key
=============================================================================
