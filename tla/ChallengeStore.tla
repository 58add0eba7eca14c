--------------------------- MODULE ChallengeStore ---------------------------
(***************************************************************************)
(* auth/challenge.py: single-use challenges in a SQLite table that several *)
(* service processes share.  Each worker is a process; a call of issue()   *)
(* or consume() is the sequence of its statements, so calls of different   *)
(* workers interleave at every statement, and a worker may die between any *)
(* two.  A challenge's domain, action and issue time are stored and given  *)
(* back untouched, and are left out.                                       *)
(***************************************************************************)
EXTENDS Naturals

CONSTANTS
    Workers,    \* processes that share the database file
    Nonces,     \* strings a client may present as a nonce
    MadeUp,     \* one of them that secrets.token_urlsafe never draws
    NoWorker,   \* nobody holds SQLite's write lock
    TTL,        \* ttl_seconds
    MaxClock    \* bound on time()

ASSUME MadeUpAssumption == MadeUp \in Nonces
ASSUME TTLAssumption == TTL \in Nat \ {0}
ASSUME MaxClockAssumption == MaxClock \in Nat
ASSUME NoWorkerAssumption == NoWorker \notin Workers

VARIABLES
    clock,      \* int(time()), the same for every process of the host
    db,         \* the committed table
    txn,        \* the table as the open write transaction sees it
    writer,     \* the worker that holds the write lock
    pc,         \* the next statement of each worker
    call,       \* the locals of each worker's current call
    birth,      \* history: how far a nonce got towards its client
    expiry,     \* history: expires_at of every generated challenge
    spent,      \* history: nonces some consume() has marked
    late,       \* history: nonces a transaction was begun for after they expired
    accepts     \* history: how many consume() calls returned the challenge

vars == <<clock, db, txn, writer, pc, call,
          birth, expiry, spent, late, accepts>>

history == <<birth, expiry, spent, late, accepts>>

-----------------------------------------------------------------------------
(* Rows and time                                                           *)

\* "pending" is a row with consumed_at NULL.
RowStates == {"absent", "pending", "consumed"}
Rows == [state : RowStates, expires_at : Nat]
NoRow == [state |-> "absent", expires_at |-> 0]
PendingRow(t) == [state |-> "pending", expires_at |-> t]

\* new_challenge: expires_at
Deadline_reversed(now) == now - TTL
Deadline(now) == now + TTL

\* The comparison of DELETE ... WHERE expires_at < ?, and of consume's check.
OutOfTime_inclusive(t, now) == t <= now
OutOfTime_never(t, now) == FALSE
OutOfTime(t, now) == t < now

\* DELETE FROM challenges WHERE expires_at < now
Purge_inclusive(table, now) ==
    [n \in Nonces |-> IF table[n].expires_at <= now THEN NoRow ELSE table[n]]
Purge_used(table, now) ==
    [n \in Nonces |-> IF \/ OutOfTime(table[n].expires_at, now)
                         \/ table[n].state = "consumed"
                      THEN NoRow ELSE table[n]]
Purge(table, now) ==
    [n \in Nonces |-> IF OutOfTime(table[n].expires_at, now)
                      THEN NoRow ELSE table[n]]

\* SELECT ... WHERE nonce = ? AND consumed_at IS NULL
Matches_anyRow(table, n) == table[n].state # "absent"
Matches(table, n) == table[n].state = "pending"

\* UPDATE ... SET consumed_at = ? WHERE nonce = ? AND consumed_at IS NULL
MarkConsumed_noop(table, n) == table
MarkConsumed(table, n) == [table EXCEPT ![n].state = "consumed"]

-----------------------------------------------------------------------------
(* The write lock                                                          *)

\* A write transaction begins once no other worker has one open.
MayBegin_anyTime(w) == TRUE
MayBegin(w) == writer = NoWorker

\* PRAGMA busy_timeout: a worker does not wait for the lock for ever.
GivesUp_never(w) == FALSE
GivesUp(w) == writer \notin {NoWorker, w}

Commit(table) ==
    /\ db' = table
    /\ txn' = table
    /\ writer' = NoWorker

Rollback ==
    /\ txn' = db
    /\ writer' = NoWorker
    /\ UNCHANGED db

Goto(w, label) == pc' = [pc EXCEPT ![w] = label]

NoCall == [nonce |-> MadeUp, now |-> 0, expires_at |-> 0]

\* The call ends and its locals go.
Return(w) ==
    /\ Goto(w, "idle")
    /\ call' = [call EXCEPT ![w] = NoCall]

-----------------------------------------------------------------------------
Labels == {"idle", "issue_now", "issue_begin", "issue_commit", "issue_return",
           "consume_begin", "select", "commit", "judge"}

Calls == [nonce : Nonces, now : Nat, expires_at : Nat]

Init ==
    /\ clock = 0
    /\ db = [n \in Nonces |-> NoRow]
    /\ txn = db
    /\ writer = NoWorker
    /\ pc = [w \in Workers |-> "idle"]
    /\ call = [w \in Workers |-> NoCall]
    /\ birth = [n \in Nonces |-> "ungenerated"]
    /\ expiry = [n \in Nonces |-> 0]
    /\ spent = {}
    /\ late = {}
    /\ accepts = [n \in Nonces |-> 0]

(* issue()                                                                 *)

\* new_challenge: draw a nonce nobody has drawn, and date it.
IssueStart(w, n) ==
    /\ pc[w] = "idle"
    /\ n # MadeUp
    /\ birth[n] = "ungenerated"
    /\ call' = [call EXCEPT ![w] = [nonce |-> n, now |-> clock,
                                    expires_at |-> Deadline(clock)]]
    /\ birth' = [birth EXCEPT ![n] = "generated"]
    /\ expiry' = [expiry EXCEPT ![n] = Deadline(clock)]
    /\ Goto(w, "issue_now")
    /\ UNCHANGED <<clock, db, txn, writer, spent, late, accepts>>

\* The clock is read a second time, for the purge.
IssueReadClock(w) ==
    /\ pc[w] = "issue_now"
    /\ call' = [call EXCEPT ![w].now = clock]
    /\ Goto(w, "issue_begin")
    /\ UNCHANGED <<clock, db, txn, writer, history>>

\* The DELETE opens the write transaction.
IssueBegin(w) ==
    /\ pc[w] = "issue_begin"
    /\ MayBegin(w)
    /\ writer' = w
    /\ txn' = Purge(db, call[w].now)
    /\ Goto(w, "issue_commit")
    /\ UNCHANGED <<clock, db, call, history>>

\* INSERT and commit.
IssueCommit(w) ==
    /\ pc[w] = "issue_commit"
    /\ LET n == call[w].nonce
       IN  /\ Commit([txn EXCEPT ![n] = PendingRow(call[w].expires_at)])
           /\ birth' = [birth EXCEPT ![n] = "stored"]
    /\ Goto(w, "issue_return")
    /\ UNCHANGED <<clock, call, expiry, spent, late, accepts>>

IssueReturn(w) ==
    /\ pc[w] = "issue_return"
    /\ birth' = [birth EXCEPT ![call[w].nonce] = "handed_out"]
    /\ Return(w)
    /\ UNCHANGED <<clock, db, txn, writer, expiry, spent, late, accepts>>

(* consume()                                                               *)

\* The clock is read before the connection is opened and the lock waited for.
ConsumeStart(w, n) ==
    /\ pc[w] = "idle"
    /\ n = MadeUp \/ birth[n] = "handed_out"
    /\ call' = [call EXCEPT ![w] = [nonce |-> n, now |-> clock, expires_at |-> 0]]
    /\ Goto(w, "consume_begin")
    /\ UNCHANGED <<clock, db, txn, writer, history>>

\* BEGIN IMMEDIATE
ConsumeBegin(w) ==
    /\ pc[w] = "consume_begin"
    /\ MayBegin(w)
    /\ writer' = w
    /\ txn' = db
    /\ late' = late \cup {n \in {call[w].nonce} : n # MadeUp /\ clock > expiry[n]}
    /\ Goto(w, "select")
    /\ UNCHANGED <<clock, db, call, birth, expiry, spent, accepts>>

\* No unconsumed row: the transaction ends and the caller gets None.
ConsumeMiss(w) ==
    /\ pc[w] = "select"
    /\ ~Matches(txn, call[w].nonce)
    /\ Rollback
    /\ Return(w)
    /\ UNCHANGED <<clock, history>>

\* The row is read and, in the same transaction, marked.
ConsumeMark(w) ==
    /\ pc[w] = "select"
    /\ Matches(txn, call[w].nonce)
    /\ call' = [call EXCEPT ![w].expires_at = txn[call[w].nonce].expires_at]
    /\ txn' = MarkConsumed(txn, call[w].nonce)
    /\ Goto(w, "commit")
    /\ UNCHANGED <<clock, db, writer, history>>

ConsumeCommit(w) ==
    /\ pc[w] = "commit"
    /\ Commit(txn)
    /\ spent' = spent \cup {call[w].nonce}
    /\ Goto(w, "judge")
    /\ UNCHANGED <<clock, call, birth, expiry, late, accepts>>

\* Only now is expiry tested, against the clock read at the start.
ConsumeReject(w) ==
    /\ pc[w] = "judge"
    /\ OutOfTime(call[w].expires_at, call[w].now)
    /\ Return(w)
    /\ UNCHANGED <<clock, db, txn, writer, history>>

ConsumeAccept(w) ==
    /\ pc[w] = "judge"
    /\ ~OutOfTime(call[w].expires_at, call[w].now)
    /\ accepts' = [accepts EXCEPT ![call[w].nonce] = @ + 1]
    /\ Return(w)
    /\ UNCHANGED <<clock, db, txn, writer, birth, expiry, spent, late>>

(* What can happen to any call                                             *)

\* "database is locked": OperationalError propagates to the caller.
LockTimeout(w) ==
    /\ pc[w] \in {"issue_begin", "consume_begin"}
    /\ GivesUp(w)
    /\ Return(w)
    /\ UNCHANGED <<clock, db, txn, writer, history>>

\* The process dies and is started again: an open transaction is rolled back.
Crash(w) ==
    /\ pc[w] # "idle"
    /\ Return(w)
    /\ IF writer = w THEN Rollback ELSE UNCHANGED <<db, txn, writer>>
    /\ UNCHANGED <<clock, history>>

Tick ==
    /\ clock < MaxClock
    /\ clock' = clock + 1
    /\ UNCHANGED <<db, txn, writer, pc, call, history>>

-----------------------------------------------------------------------------
\* The next statement of the call worker w is in.
Step(w) ==
    \/ IssueReadClock(w)
    \/ IssueBegin(w)
    \/ IssueCommit(w)
    \/ IssueReturn(w)
    \/ ConsumeBegin(w)
    \/ ConsumeMiss(w)
    \/ ConsumeMark(w)
    \/ ConsumeCommit(w)
    \/ ConsumeReject(w)
    \/ ConsumeAccept(w)
    \/ LockTimeout(w)

Next ==
    \/ \E w \in Workers, n \in Nonces : IssueStart(w, n)
    \/ \E w \in Workers, n \in Nonces : ConsumeStart(w, n)
    \/ \E w \in Workers : Step(w)
    \/ \E w \in Workers : Crash(w)
    \/ Tick

Spec == Init /\ [][Next]_vars

\* A process that is in a call keeps being scheduled, and SQLite's busy
\* handler gives up in the end; no request need ever arrive.
FairSpec == Spec /\ \A w \in Workers : WF_vars(Step(w))

-----------------------------------------------------------------------------
(* Properties                                                              *)

TypeOK ==
    /\ clock \in 0..MaxClock
    /\ db \in [Nonces -> Rows]
    /\ txn \in [Nonces -> Rows]
    /\ writer \in Workers \cup {NoWorker}
    /\ pc \in [Workers -> Labels]
    /\ call \in [Workers -> Calls]
    /\ birth \in [Nonces -> {"ungenerated", "generated", "stored", "handed_out"}]
    /\ expiry \in [Nonces -> Nat]
    /\ spent \subseteq Nonces
    /\ late \subseteq Nonces
    /\ accepts \in [Nonces -> Nat]

\* challenge.py:4-6, 41: however many workers present the same nonce at the
\* same time, and whatever dies in between, one consume() at most returns it.
SingleUse == \A n \in Nonces : accepts[n] <= 1

\* A challenge whose client has been given it stays redeemable until it
\* expires: no purge by another worker, lost update or crash takes it away.
OutstandingKept ==
    \A n \in Nonces :
        birth[n] = "handed_out" /\ n \notin spent /\ clock <= expiry[n]
            => db[n] = PendingRow(expiry[n])

\* challenge.py:96-97: "Used challenges remain until their natural expiry,
\* preserving replay rejection".
UsedKept ==
    \A n \in spent : clock <= expiry[n] => db[n].state = "consumed"

\* A caller is refused a challenge only because it is out of time or another
\* call has taken it, and given one only if it called before it expired.
VerdictsForCause ==
    [][\A w \in Workers :
          LET n == call[w].nonce
          IN  /\ ConsumeMiss(w) => n = MadeUp \/ n \in spent \/ clock > expiry[n]
              /\ ConsumeReject(w) => clock > expiry[n]
              /\ ConsumeAccept(w) => call[w].now <= expiry[n]]_vars

\* challenge.py:97: the table does not "grow forever".  Whatever had expired
\* before a call of issue() is gone when that call returns.
ExpiredGoOnIssue ==
    [][\A w \in Workers :
          pc[w] = "issue_commit" /\ pc'[w] = "issue_return" =>
              \A n \in Nonces :
                  db'[n].state # "absent" =>
                      db'[n].expires_at >= call[w].expires_at - TTL]_vars

\* Every call returns, even if others keep the lock busy: no request hangs.
CallsReturn == \A w \in Workers : pc[w] # "idle" ~> pc[w] = "idle"

\* auth/login.py:29-31: the challenge "must already have been looked up and
\* consume()d ... so a replayed/unknown/expired nonce never reaches this
\* function at all".  No challenge is accepted that had already expired when
\* the transaction that redeems it began.
ExpiredNeverAccepted ==
    \A n \in Nonces : accepts[n] > 0 => n \notin late

-----------------------------------------------------------------------------
(* The promise to the callers, see OneShotNonce                            *)

\* A worker has committed the mark on n and is about to be given it.
Owed(n) ==
    \E w \in Workers :
        /\ pc[w] = "judge"
        /\ call[w].nonce = n
        /\ ~OutOfTime(call[w].expires_at, call[w].now)

PhaseOf(n) ==
    CASE accepts[n] > 1 -> "accepted_again"
      [] accepts[n] = 1 -> "accepted"
      [] accepts[n] = 0 /\ (db[n].state = "pending" \/ Owed(n)) -> "live"
      [] accepts[n] = 0 /\ db[n].state # "pending" /\ ~Owed(n) ->
            IF birth[n] \in {"stored", "handed_out"} THEN "lapsed" ELSE "unissued"

OneShot == INSTANCE OneShotNonce WITH phase <- [n \in Nonces |-> PhaseOf(n)]

\* The table with its lock, purges and crashes implements the one-shot nonce.
ImplementsOneShot == OneShot!Spec
=============================================================================
