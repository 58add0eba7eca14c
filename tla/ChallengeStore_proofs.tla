------------------------ MODULE ChallengeStore_proofs ------------------------
(***************************************************************************)
(* Proofs about ChallengeStore: its invariants hold for every number of    *)
(* workers and nonces, every lifetime and every interleaving.              *)
(***************************************************************************)
EXTENDS ChallengeStore, TLAPS

-----------------------------------------------------------------------------
(* The inductive invariant                                                 *)

Unstored == {"ungenerated", "generated"}
PreStore == {"issue_now", "issue_begin", "issue_commit"}
Consuming == {"consume_begin", "select", "commit", "judge"}
Holding == {"issue_commit", "select", "commit"}

\* Only the holder of the write lock is inside a transaction.
LockInv == \A w \in Workers : pc[w] \in Holding => writer = w

\* No call works with a time from the future.
TimeInv == \A w \in Workers : call[w].now <= clock

\* Rows carry the expiry their challenge was generated with.
ExpiryInv ==
    \A n \in Nonces : /\ db[n].state # "absent" => db[n].expires_at = expiry[n]
                      /\ txn[n].state # "absent" => txn[n].expires_at = expiry[n]

\* A nonce that was not stored is in no table and was not consumed.
UnstoredInv ==
    /\ birth[MadeUp] = "ungenerated"
    /\ \A n \in Nonces :
          birth[n] \in Unstored =>
             db[n].state = "absent" /\ txn[n].state = "absent" /\ n \notin spent

\* Two calls of issue() never carry the same nonce.
IssuingInv ==
    \A w \in Workers : pc[w] \in PreStore =>
        /\ birth[call[w].nonce] = "generated"
        /\ call[w].expires_at = expiry[call[w].nonce]
        /\ \A v \in Workers : v # w /\ pc[v] \in PreStore
                                => call[v].nonce # call[w].nonce

ReturningInv ==
    \A w \in Workers : pc[w] = "issue_return" => birth[call[w].nonce] \notin Unstored

\* Clients present what they were given, or make something up.
ConsumingInv ==
    \A w \in Workers : pc[w] \in Consuming =>
        call[w].nonce = MadeUp \/ birth[call[w].nonce] = "handed_out"

\* A consumed nonce never looks pending again, and is kept while in time.
SpentInv ==
    \A n \in spent :
        /\ db[n].state # "pending" /\ txn[n].state # "pending"
        /\ clock <= expiry[n] => db[n].state = "consumed" /\ txn[n].state = "consumed"

\* A stored nonce in time is pending, but for the mark nobody has committed.
StoredInv ==
    \A n \in Nonces :
        birth[n] \notin Unstored /\ n \notin spent /\ clock <= expiry[n] =>
            /\ db[n].state = "pending"
            /\ \/ txn[n].state = "pending"
               \/ \E w \in Workers : pc[w] = "commit" /\ call[w].nonce = n

\* A transaction makes nothing pending before its commit.
TxnInv == \A n \in Nonces : txn[n].state = "pending" => db[n].state = "pending"

SelectInv == \A w \in Workers : pc[w] = "select" => txn = db

CommitInv ==
    \A w \in Workers : pc[w] = "commit" =>
        /\ call[w].nonce \notin spent
        /\ db[call[w].nonce].state = "pending"
        /\ txn[call[w].nonce].state = "consumed"
        /\ call[w].expires_at = expiry[call[w].nonce]
        /\ \A n \in Nonces : n # call[w].nonce => txn[n] = db[n]

\* One worker at most is about to be given a nonce, and nobody was before.
JudgeInv ==
    \A w \in Workers : pc[w] = "judge" =>
        /\ call[w].nonce \in spent
        /\ accepts[call[w].nonce] = 0
        /\ call[w].expires_at = expiry[call[w].nonce]
        /\ \A v \in Workers : v # w /\ pc[v] = "judge"
                                => call[v].nonce # call[w].nonce

AcceptInv ==
    \A n \in Nonces : accepts[n] <= 1 /\ (accepts[n] # 0 => n \in spent)

IInv ==
    /\ TypeOK
    /\ LockInv /\ TimeInv /\ ExpiryInv
    /\ UnstoredInv /\ IssuingInv /\ ReturningInv /\ ConsumingInv
    /\ SpentInv /\ StoredInv
    /\ TxnInv /\ SelectInv /\ CommitInv /\ JudgeInv /\ AcceptInv

-----------------------------------------------------------------------------
(* The invariant holds                                                     *)

\* The initial state: empty table, no calls.
LEMMA InitIInv == Init => IInv
<1> SUFFICES ASSUME Init PROVE IInv
  OBVIOUS
<1> USE MadeUpAssumption, MaxClockAssumption, NoWorkerAssumption
      DEF Init, NoCall, NoRow
<1>1. TypeOK
  BY DEF TypeOK, Rows, RowStates, Labels, Calls
<1>2. LockInv /\ TimeInv /\ ExpiryInv
  BY DEF LockInv, TimeInv, ExpiryInv, Holding
<1>3. UnstoredInv /\ IssuingInv /\ ReturningInv /\ ConsumingInv
  BY DEF UnstoredInv, IssuingInv, ReturningInv, ConsumingInv, PreStore
<1>4. SpentInv /\ StoredInv
  BY DEF SpentInv, StoredInv, Unstored
<1>5. TxnInv /\ SelectInv /\ CommitInv /\ JudgeInv /\ AcceptInv
  BY DEF TxnInv, SelectInv, CommitInv, JudgeInv, AcceptInv
<1> QED
  BY <1>1, <1>2, <1>3, <1>4, <1>5 DEF IInv

\* IssueStart keeps the invariant.
LEMMA IssueStartIInv ==
  ASSUME IInv, NEW w \in Workers, NEW n \in Nonces, IssueStart(w, n)
  PROVE  IInv'
<1> USE MadeUpAssumption, TTLAssumption, MaxClockAssumption, NoWorkerAssumption
      DEF IInv, IssueStart, Goto, Deadline, history
<1>1. TypeOK'
  BY DEF TypeOK, Labels, Calls
<1>2. LockInv' /\ TimeInv' /\ ExpiryInv'
  BY DEF TypeOK, LockInv, TimeInv, ExpiryInv, Holding, UnstoredInv, Unstored
<1>3. UnstoredInv' /\ IssuingInv' /\ ReturningInv' /\ ConsumingInv'
  BY DEF TypeOK, UnstoredInv, IssuingInv, ReturningInv, ConsumingInv,
       Consuming, Unstored
<1>4. SpentInv' /\ StoredInv'
  BY DEF SpentInv, StoredInv, Unstored, UnstoredInv
<1>5. TxnInv' /\ SelectInv' /\ CommitInv' /\ JudgeInv' /\ AcceptInv'
  BY DEF TxnInv, SelectInv, CommitInv, JudgeInv, AcceptInv, UnstoredInv,
       Unstored
<1> QED
  BY <1>1, <1>2, <1>3, <1>4, <1>5

\* IssueReadClock keeps the invariant.
LEMMA IssueReadClockIInv ==
  ASSUME IInv, NEW w \in Workers, IssueReadClock(w)
  PROVE  IInv'
<1> USE MadeUpAssumption, TTLAssumption, MaxClockAssumption, NoWorkerAssumption
      DEF IInv, IssueReadClock, Goto, history
<1>1. TypeOK'
  BY DEF TypeOK, Labels, Calls
<1>2. LockInv' /\ TimeInv' /\ ExpiryInv'
  BY DEF TypeOK, LockInv, TimeInv, ExpiryInv, Holding
<1>3. UnstoredInv' /\ IssuingInv' /\ ReturningInv' /\ ConsumingInv'
  BY DEF UnstoredInv, IssuingInv, ReturningInv, ConsumingInv, PreStore,
       Consuming
<1>4. SpentInv' /\ StoredInv'
  BY DEF SpentInv, StoredInv
<1>5. TxnInv' /\ SelectInv' /\ CommitInv' /\ JudgeInv' /\ AcceptInv'
  BY DEF TxnInv, SelectInv, CommitInv, JudgeInv, AcceptInv
<1> QED
  BY <1>1, <1>2, <1>3, <1>4, <1>5

\* IssueBegin keeps the invariant.
LEMMA IssueBeginIInv ==
  ASSUME IInv, NEW w \in Workers, IssueBegin(w)
  PROVE  IInv'
<1> USE MadeUpAssumption, TTLAssumption, MaxClockAssumption, NoWorkerAssumption
      DEF IInv, IssueBegin, Goto, MayBegin, Purge, OutOfTime, NoRow, history
<1>1. TypeOK'
  BY DEF TypeOK, Rows, RowStates, Labels
<1>2. LockInv' /\ TimeInv' /\ ExpiryInv'
  BY DEF LockInv, TimeInv, ExpiryInv
<1>3. UnstoredInv' /\ IssuingInv' /\ ReturningInv' /\ ConsumingInv'
  BY DEF UnstoredInv, IssuingInv, ReturningInv, ConsumingInv, PreStore,
       Consuming
<1>4. ASSUME NEW n \in Nonces, clock <= expiry[n], db[n].state # "absent"
      PROVE  Purge(db, call[w].now)[n] = db[n]
  BY <1>4 DEF TypeOK, Calls, TimeInv, ExpiryInv
<1>5. SpentInv'
  BY <1>4 DEF TypeOK, SpentInv
<1>6. StoredInv'
  BY <1>4 DEF StoredInv
<1>7. TxnInv' /\ SelectInv' /\ CommitInv' /\ JudgeInv' /\ AcceptInv'
  BY DEF TxnInv, SelectInv, CommitInv, JudgeInv, AcceptInv, LockInv, Holding
<1> QED
  BY <1>1, <1>2, <1>3, <1>5, <1>6, <1>7

\* IssueCommit keeps the invariant.
LEMMA IssueCommitIInv ==
  ASSUME IInv, NEW w \in Workers, IssueCommit(w)
  PROVE  IInv'
<1> USE MadeUpAssumption, TTLAssumption, MaxClockAssumption, NoWorkerAssumption
      DEF IInv, IssueCommit, Goto, Commit, PendingRow, history
<1>1. TypeOK'
  BY DEF TypeOK, Rows, RowStates, Labels, Calls
<1>2. LockInv' /\ TimeInv' /\ ExpiryInv'
  BY DEF TypeOK, LockInv, TimeInv, ExpiryInv, Holding, IssuingInv, PreStore
<1>3. UnstoredInv' /\ IssuingInv' /\ ReturningInv' /\ ConsumingInv'
  BY DEF TypeOK, Calls, UnstoredInv, IssuingInv, ReturningInv, ConsumingInv,
       PreStore, Consuming, Unstored
<1>4. SpentInv' /\ StoredInv'
  BY DEF TypeOK, SpentInv, StoredInv, Unstored, UnstoredInv, LockInv, Holding,
       IssuingInv, PreStore
<1>5. TxnInv' /\ SelectInv' /\ CommitInv' /\ JudgeInv' /\ AcceptInv'
  BY DEF TxnInv, SelectInv, CommitInv, JudgeInv, AcceptInv, LockInv, Holding
<1> QED
  BY <1>1, <1>2, <1>3, <1>4, <1>5

\* IssueReturn keeps the invariant.
LEMMA IssueReturnIInv ==
  ASSUME IInv, NEW w \in Workers, IssueReturn(w)
  PROVE  IInv'
<1> USE MadeUpAssumption, TTLAssumption, MaxClockAssumption, NoWorkerAssumption
      DEF IInv, IssueReturn, Goto, Return, NoCall, history
<1>1. TypeOK'
  BY DEF TypeOK, Labels, Calls
<1>2. LockInv' /\ TimeInv' /\ ExpiryInv'
  BY DEF TypeOK, LockInv, TimeInv, ExpiryInv, Holding
<1>3. UnstoredInv' /\ IssuingInv' /\ ReturningInv' /\ ConsumingInv'
  BY DEF TypeOK, UnstoredInv, IssuingInv, ReturningInv, ConsumingInv, PreStore,
       Unstored
<1>4. SpentInv' /\ StoredInv'
  BY DEF SpentInv, StoredInv, ReturningInv
<1>5. TxnInv' /\ SelectInv' /\ CommitInv' /\ JudgeInv' /\ AcceptInv'
  BY DEF TxnInv, SelectInv, CommitInv, JudgeInv, AcceptInv
<1> QED
  BY <1>1, <1>2, <1>3, <1>4, <1>5

\* ConsumeStart keeps the invariant.
LEMMA ConsumeStartIInv ==
  ASSUME IInv, NEW w \in Workers, NEW n \in Nonces, ConsumeStart(w, n)
  PROVE  IInv'
<1> USE MadeUpAssumption, TTLAssumption, MaxClockAssumption, NoWorkerAssumption
      DEF IInv, ConsumeStart, Goto, history
<1>1. TypeOK'
  BY DEF TypeOK, Labels, Calls
<1>2. LockInv' /\ TimeInv' /\ ExpiryInv'
  BY DEF TypeOK, LockInv, TimeInv, ExpiryInv, Holding
<1>3. UnstoredInv' /\ IssuingInv' /\ ReturningInv' /\ ConsumingInv'
  BY DEF TypeOK, UnstoredInv, IssuingInv, ReturningInv, ConsumingInv, PreStore
<1>4. SpentInv' /\ StoredInv'
  BY DEF SpentInv, StoredInv
<1>5. TxnInv' /\ SelectInv' /\ CommitInv' /\ JudgeInv' /\ AcceptInv'
  BY DEF TxnInv, SelectInv, CommitInv, JudgeInv, AcceptInv
<1> QED
  BY <1>1, <1>2, <1>3, <1>4, <1>5

\* ConsumeBegin keeps the invariant.
LEMMA ConsumeBeginIInv ==
  ASSUME IInv, NEW w \in Workers, ConsumeBegin(w)
  PROVE  IInv'
<1> USE MadeUpAssumption, TTLAssumption, MaxClockAssumption, NoWorkerAssumption
      DEF IInv, ConsumeBegin, Goto, MayBegin, history
<1>1. TypeOK'
  BY DEF TypeOK, Labels, Calls
<1>2. LockInv' /\ TimeInv' /\ ExpiryInv'
  BY DEF LockInv, TimeInv, ExpiryInv
<1>3. UnstoredInv' /\ IssuingInv' /\ ReturningInv' /\ ConsumingInv'
  BY DEF UnstoredInv, IssuingInv, ReturningInv, ConsumingInv, PreStore,
       Consuming
<1>4. SpentInv' /\ StoredInv'
  BY DEF SpentInv, StoredInv
<1>5. TxnInv' /\ SelectInv' /\ CommitInv' /\ JudgeInv' /\ AcceptInv'
  BY DEF TxnInv, SelectInv, CommitInv, JudgeInv, AcceptInv, LockInv, Holding
<1> QED
  BY <1>1, <1>2, <1>3, <1>4, <1>5

\* ConsumeMiss keeps the invariant.
LEMMA ConsumeMissIInv ==
  ASSUME IInv, NEW w \in Workers, ConsumeMiss(w)
  PROVE  IInv'
<1> USE MadeUpAssumption, TTLAssumption, MaxClockAssumption, NoWorkerAssumption
      DEF IInv, ConsumeMiss, Goto, Return, NoCall, Matches, Rollback, history
<1>1. TypeOK'
  BY DEF TypeOK, Labels, Calls
<1>2. LockInv' /\ TimeInv' /\ ExpiryInv'
  BY DEF TypeOK, LockInv, TimeInv, ExpiryInv, Holding
<1>3. UnstoredInv' /\ IssuingInv' /\ ReturningInv' /\ ConsumingInv'
  BY DEF UnstoredInv, IssuingInv, ReturningInv, ConsumingInv, PreStore,
       Consuming
<1>4. SpentInv' /\ StoredInv'
  BY DEF SpentInv, StoredInv
<1>5. TxnInv' /\ SelectInv' /\ CommitInv' /\ JudgeInv' /\ AcceptInv'
  BY DEF TxnInv, SelectInv, CommitInv, JudgeInv, AcceptInv
<1> QED
  BY <1>1, <1>2, <1>3, <1>4, <1>5

\* ConsumeMark keeps the invariant.
LEMMA ConsumeMarkIInv ==
  ASSUME IInv, NEW w \in Workers, ConsumeMark(w)
  PROVE  IInv'
<1> USE MadeUpAssumption, TTLAssumption, MaxClockAssumption, NoWorkerAssumption
      DEF IInv, ConsumeMark, Goto, Matches, MarkConsumed, history
<1>1. TypeOK'
  <2> USE DEF TypeOK
  <2>1. txn' \in [Nonces -> Rows]
    <3>1. ASSUME NEW n \in Nonces PROVE [txn[n] EXCEPT !.state = "consumed"] \in Rows
      BY DEF Rows, RowStates
    <3> QED
      BY <3>1
  <2>2. call' \in [Workers -> Calls]
    BY DEF Rows, Calls
  <2>3. pc' \in [Workers -> Labels]
    BY DEF Labels
  <2> QED
    BY <2>1, <2>2, <2>3
<1>2. LockInv' /\ TimeInv' /\ ExpiryInv'
  BY DEF LockInv, TimeInv, ExpiryInv, Holding
<1>3. UnstoredInv' /\ IssuingInv' /\ ReturningInv' /\ ConsumingInv'
  BY DEF UnstoredInv, IssuingInv, ReturningInv, ConsumingInv, PreStore,
       Consuming
<1>4. SpentInv' /\ StoredInv'
  BY DEF TypeOK, SpentInv, StoredInv
<1>5. TxnInv' /\ SelectInv' /\ CommitInv' /\ JudgeInv' /\ AcceptInv'
  BY DEF TypeOK, Calls, TxnInv, SelectInv, CommitInv, JudgeInv, AcceptInv,
       LockInv, Holding, ExpiryInv, SpentInv
<1> QED
  BY <1>1, <1>2, <1>3, <1>4, <1>5

\* ConsumeCommit keeps the invariant.
LEMMA ConsumeCommitIInv ==
  ASSUME IInv, NEW w \in Workers, ConsumeCommit(w)
  PROVE  IInv'
<1> USE MadeUpAssumption, TTLAssumption, MaxClockAssumption, NoWorkerAssumption
      DEF IInv, ConsumeCommit, Goto, Commit, history
<1>1. TypeOK'
  BY DEF TypeOK, Labels, Calls
<1>2. LockInv' /\ TimeInv' /\ ExpiryInv'
  BY DEF TypeOK, LockInv, TimeInv, ExpiryInv, Holding
<1>3. UnstoredInv' /\ IssuingInv' /\ ReturningInv' /\ ConsumingInv'
  BY DEF UnstoredInv, IssuingInv, ReturningInv, ConsumingInv, PreStore,
       Consuming, CommitInv
<1>4. SpentInv' /\ StoredInv'
  BY DEF SpentInv, StoredInv, CommitInv
<1>5. TxnInv' /\ SelectInv' /\ CommitInv' /\ JudgeInv' /\ AcceptInv'
  BY DEF TypeOK, TxnInv, SelectInv, CommitInv, JudgeInv, AcceptInv, LockInv,
       Holding
<1> QED
  BY <1>1, <1>2, <1>3, <1>4, <1>5

\* ConsumeReject keeps the invariant.
LEMMA ConsumeRejectIInv ==
  ASSUME IInv, NEW w \in Workers, ConsumeReject(w)
  PROVE  IInv'
<1> USE MadeUpAssumption, TTLAssumption, MaxClockAssumption, NoWorkerAssumption
      DEF IInv, ConsumeReject, Goto, Return, NoCall, history
<1>1. TypeOK'
  BY DEF TypeOK, Labels, Calls
<1>2. LockInv' /\ TimeInv' /\ ExpiryInv'
  BY DEF TypeOK, LockInv, TimeInv, ExpiryInv, Holding
<1>3. UnstoredInv' /\ IssuingInv' /\ ReturningInv' /\ ConsumingInv'
  BY DEF UnstoredInv, IssuingInv, ReturningInv, ConsumingInv, PreStore,
       Consuming
<1>4. SpentInv' /\ StoredInv'
  BY DEF SpentInv, StoredInv
<1>5. TxnInv' /\ SelectInv' /\ CommitInv' /\ JudgeInv' /\ AcceptInv'
  BY DEF TypeOK, TxnInv, SelectInv, CommitInv, JudgeInv, AcceptInv
<1> QED
  BY <1>1, <1>2, <1>3, <1>4, <1>5

\* ConsumeAccept keeps the invariant.
LEMMA ConsumeAcceptIInv ==
  ASSUME IInv, NEW w \in Workers, ConsumeAccept(w)
  PROVE  IInv'
<1> USE MadeUpAssumption, TTLAssumption, MaxClockAssumption, NoWorkerAssumption
      DEF IInv, ConsumeAccept, Goto, Return, NoCall, history
<1>1. TypeOK'
  BY DEF TypeOK, Labels, Calls
<1>2. LockInv' /\ TimeInv' /\ ExpiryInv'
  BY DEF TypeOK, LockInv, TimeInv, ExpiryInv, Holding
<1>3. UnstoredInv' /\ IssuingInv' /\ ReturningInv' /\ ConsumingInv'
  BY DEF UnstoredInv, IssuingInv, ReturningInv, ConsumingInv, PreStore,
       Consuming
<1>4. SpentInv' /\ StoredInv'
  BY DEF SpentInv, StoredInv
<1>5. TxnInv' /\ SelectInv' /\ CommitInv' /\ JudgeInv' /\ AcceptInv'
  BY DEF TypeOK, TxnInv, SelectInv, CommitInv, JudgeInv, AcceptInv
<1> QED
  BY <1>1, <1>2, <1>3, <1>4, <1>5

\* LockTimeout keeps the invariant.
LEMMA LockTimeoutIInv ==
  ASSUME IInv, NEW w \in Workers, LockTimeout(w)
  PROVE  IInv'
<1> USE MadeUpAssumption, TTLAssumption, MaxClockAssumption, NoWorkerAssumption
      DEF IInv, LockTimeout, Goto, Return, NoCall, history
<1>1. TypeOK'
  BY DEF TypeOK, Labels, Calls
<1>2. LockInv' /\ TimeInv' /\ ExpiryInv'
  BY DEF TypeOK, LockInv, TimeInv, ExpiryInv, Holding
<1>3. UnstoredInv' /\ IssuingInv' /\ ReturningInv' /\ ConsumingInv'
  BY DEF TypeOK, UnstoredInv, IssuingInv, ReturningInv, ConsumingInv, PreStore
<1>4. SpentInv' /\ StoredInv'
  BY DEF SpentInv, StoredInv
<1>5. TxnInv' /\ SelectInv' /\ CommitInv' /\ JudgeInv' /\ AcceptInv'
  BY DEF TxnInv, SelectInv, CommitInv, JudgeInv, AcceptInv
<1> QED
  BY <1>1, <1>2, <1>3, <1>4, <1>5

\* Crash keeps the invariant.
LEMMA CrashIInv ==
  ASSUME IInv, NEW w \in Workers, Crash(w)
  PROVE  IInv'
<1> USE MadeUpAssumption, TTLAssumption, MaxClockAssumption, NoWorkerAssumption
      DEF IInv, Crash, Goto, Return, NoCall, Rollback, history
<1>1. TypeOK'
  BY DEF TypeOK, Labels, Calls
<1>2. LockInv' /\ TimeInv' /\ ExpiryInv'
  BY DEF TypeOK, LockInv, TimeInv, ExpiryInv, Holding
<1>3. UnstoredInv' /\ IssuingInv' /\ ReturningInv' /\ ConsumingInv'
  BY DEF TypeOK, UnstoredInv, IssuingInv, ReturningInv, ConsumingInv, PreStore
<1>4. SpentInv' /\ StoredInv'
  BY DEF SpentInv, StoredInv, LockInv, Holding
<1>5. TxnInv' /\ SelectInv' /\ CommitInv' /\ JudgeInv' /\ AcceptInv'
  BY DEF TypeOK, TxnInv, SelectInv, CommitInv, JudgeInv, AcceptInv, LockInv,
       Holding
<1> QED
  BY <1>1, <1>2, <1>3, <1>4, <1>5

\* Time passing keeps the invariant: rows only leave their lifetime.
LEMMA TickIInv == IInv /\ Tick => IInv'
<1> SUFFICES ASSUME IInv, Tick PROVE IInv'
  OBVIOUS
<1> USE MaxClockAssumption DEF IInv, Tick, history
<1>1. TypeOK' /\ clock <= clock'
  BY DEF TypeOK
<1>2. LockInv' /\ ExpiryInv' /\ UnstoredInv' /\ IssuingInv' /\ ReturningInv'
  BY DEF LockInv, ExpiryInv, UnstoredInv, IssuingInv, ReturningInv
<1>3. ConsumingInv' /\ TxnInv' /\ SelectInv' /\ CommitInv' /\ JudgeInv' /\ AcceptInv'
  BY DEF ConsumingInv, TxnInv, SelectInv, CommitInv, JudgeInv, AcceptInv
<1>4. TimeInv' /\ SpentInv' /\ StoredInv'
  BY <1>1 DEF TypeOK, Calls, TimeInv, SpentInv, StoredInv
<1> QED
  BY <1>1, <1>2, <1>3, <1>4

\* Nothing happens.
LEMMA StutterIInv == IInv /\ UNCHANGED vars => IInv'
BY DEF IInv, vars, TypeOK, LockInv, TimeInv, ExpiryInv, UnstoredInv, IssuingInv,
       ReturningInv, ConsumingInv, SpentInv, StoredInv, TxnInv, SelectInv, CommitInv,
       JudgeInv, AcceptInv

\* Every step keeps the invariant.
LEMMA NextIInv == IInv /\ [Next]_vars => IInv'
<1> SUFFICES ASSUME IInv, [Next]_vars PROVE IInv'
  OBVIOUS
<1>1. ASSUME NEW w \in Workers, NEW n \in Nonces, IssueStart(w, n) PROVE IInv'
  BY <1>1, IssueStartIInv
<1>2. ASSUME NEW w \in Workers, NEW n \in Nonces, ConsumeStart(w, n) PROVE IInv'
  BY <1>2, ConsumeStartIInv
<1>3. ASSUME NEW w \in Workers, Step(w) PROVE IInv'
  BY <1>3, IssueReadClockIInv, IssueBeginIInv, IssueCommitIInv, IssueReturnIInv,
     ConsumeBeginIInv, ConsumeMissIInv, ConsumeMarkIInv, ConsumeCommitIInv,
     ConsumeRejectIInv, ConsumeAcceptIInv, LockTimeoutIInv
  DEF Step
<1>4. ASSUME NEW w \in Workers, Crash(w) PROVE IInv'
  BY <1>4, CrashIInv
<1> QED
  BY <1>1, <1>2, <1>3, <1>4, TickIInv, StutterIInv DEF Next

\* The inductive invariant holds in every state.
THEOREM Invariance == Spec => []IInv
<1> QED
  BY InitIInv, NextIInv, PTL DEF Spec

-----------------------------------------------------------------------------
(* What follows from it                                                    *)

\* Types, for the record.
THEOREM TypeCorrect == Spec => []TypeOK
<1>1. IInv => TypeOK
  BY DEF IInv
<1> QED
  BY <1>1, Invariance, PTL

\* challenge.py:4-6: no interleaving of workers, crashes included, lets two
\* calls of consume() have the same challenge.
THEOREM SingleUseHolds == Spec => []SingleUse
<1>1. IInv => SingleUse
  BY DEF IInv, AcceptInv, SingleUse
<1> QED
  BY <1>1, Invariance, PTL

\* A challenge a client has been given stays redeemable until it expires.
THEOREM OutstandingKeptHolds == Spec => []OutstandingKept
<1>1. IInv => OutstandingKept
  BY DEF IInv, TypeOK, Rows, StoredInv, ExpiryInv, Unstored, OutstandingKept,
       PendingRow
<1> QED
  BY <1>1, Invariance, PTL

\* challenge.py:96-97: used challenges remain until their natural expiry.
THEOREM UsedKeptHolds == Spec => []UsedKept
<1>1. IInv => UsedKept
  BY DEF IInv, SpentInv, UsedKept
<1> QED
  BY <1>1, Invariance, PTL

\* Refusals and acceptances have the reasons the code gives for them.
THEOREM VerdictsForCauseHolds == Spec => VerdictsForCause
<1> DEFINE Sound(w) ==
       LET n == call[w].nonce
       IN  /\ ConsumeMiss(w) => n = MadeUp \/ n \in spent \/ clock > expiry[n]
           /\ ConsumeReject(w) => clock > expiry[n]
           /\ ConsumeAccept(w) => call[w].now <= expiry[n]
<1>1. ASSUME IInv, NEW w \in Workers PROVE Sound(w)
  <2> USE <1>1 DEF IInv, TypeOK, Calls
  <2>1. ConsumeMiss(w) => Sound(w)
    BY DEF ConsumeMiss, ConsumeReject, ConsumeAccept, Matches, SelectInv,
           ConsumingInv, Consuming, StoredInv, Unstored
  <2>2. ConsumeReject(w) \/ ConsumeAccept(w) => Sound(w)
    BY DEF ConsumeMiss, ConsumeReject, ConsumeAccept, OutOfTime, JudgeInv,
         TimeInv
  <2> QED
    BY <2>1, <2>2
<1>2. IInv /\ [Next]_vars => [\A w \in Workers : Sound(w)]_vars
  BY <1>1
<1> QED
  BY <1>2, Invariance, PTL DEF Spec, VerdictsForCause

\* A purge works with a time no earlier than the issue of its own challenge,
\* and until the commit the transaction holds nothing that expired before it.
PurgedInv ==
    \A w \in Workers :
        /\ pc[w] = "issue_now" => call[w].expires_at <= clock + TTL
        /\ pc[w] \in {"issue_begin", "issue_commit"}
             => call[w].expires_at <= call[w].now + TTL
        /\ pc[w] = "issue_commit"
             => \A n \in Nonces :
                   txn[n].state # "absent" => txn[n].expires_at >= call[w].now

\* A worker that does not move keeps its part of PurgedInv: a transaction that
\* another one opens, marks or ends is not its own, by the write lock.
LEMMA PurgedByOthers ==
  ASSUME IInv, NEW w \in Workers, NEW v \in Workers, v # w,
         Step(w) \/ Crash(w) \/ \E n \in Nonces : IssueStart(w, n) \/ ConsumeStart(w, n)
  PROVE  /\ pc'[v] = pc[v] /\ call'[v] = call[v] /\ clock' = clock
         /\ pc[v] = "issue_commit" => txn' = txn
<1> USE NoWorkerAssumption DEF IInv, Goto, Return, history
<1>1. pc'[v] = pc[v] /\ call'[v] = call[v] /\ clock' = clock
  BY DEF TypeOK, Step, IssueStart, ConsumeStart, IssueReadClock, IssueBegin,
         IssueCommit, IssueReturn, ConsumeBegin, ConsumeMiss, ConsumeMark,
         ConsumeCommit, ConsumeReject, ConsumeAccept, LockTimeout, Crash
<1>2. pc[v] = "issue_commit" =>
        writer = v /\ pc[w] \notin {"issue_commit", "select", "commit"}
  BY DEF LockInv, Holding
<1>3. pc[v] = "issue_commit" => txn' = txn
  BY <1>2 DEF Step, IssueStart, ConsumeStart, IssueReadClock, IssueBegin,
         IssueCommit, IssueReturn, ConsumeBegin, ConsumeMiss, ConsumeMark,
         ConsumeCommit, ConsumeReject, ConsumeAccept, LockTimeout, Crash,
         MayBegin
<1> QED
  BY <1>1, <1>3

\* Nobody is in a call at first.
LEMMA InitPurgedInv == Init => PurgedInv
<1> SUFFICES ASSUME Init PROVE PurgedInv
  OBVIOUS
<1>1. \A w \in Workers : pc[w] = "idle"
  BY DEF Init
<1> QED
  BY <1>1 DEF PurgedInv

\* Every step keeps PurgedInv.
LEMMA NextPurgedInv == IInv /\ PurgedInv /\ [Next]_vars => PurgedInv'
<1> SUFFICES ASSUME IInv, PurgedInv, [Next]_vars PROVE PurgedInv'
  OBVIOUS
<1> USE TTLAssumption DEF IInv
<1>1. ASSUME NEW w \in Workers,
             Step(w) \/ Crash(w)
               \/ \E n \in Nonces : IssueStart(w, n) \/ ConsumeStart(w, n)
      PROVE  PurgedInv'
  <2> DEFINE Own(v) ==
         /\ pc[v] = "issue_now" => call[v].expires_at <= clock + TTL
         /\ pc[v] \in {"issue_begin", "issue_commit"}
              => call[v].expires_at <= call[v].now + TTL
         /\ pc[v] = "issue_commit"
              => \A n \in Nonces :
                    txn[n].state # "absent" => txn[n].expires_at >= call[v].now
  <2>1. ASSUME NEW v \in Workers, v # w PROVE Own(v)'
    BY <1>1, <2>1, PurgedByOthers DEF PurgedInv
  <2>2. Own(w)'
    <3> USE DEF TypeOK, Calls, Goto, Return
    <3>1. CASE IssueReadClock(w)
      BY <3>1 DEF IssueReadClock, PurgedInv
    <3>2. CASE IssueBegin(w)
      BY <3>2 DEF IssueBegin, PurgedInv, Purge, OutOfTime, NoRow, Rows
    <3>3. CASE \E n \in Nonces : IssueStart(w, n)
      BY <3>3 DEF IssueStart, Deadline
    <3>4. CASE pc'[w] \notin {"issue_now", "issue_begin", "issue_commit"}
      BY <3>4
    <3>5. IssueCommit(w) \/ IssueReturn(w) \/ ConsumeBegin(w) \/ ConsumeMiss(w)
            \/ ConsumeMark(w) \/ ConsumeCommit(w) \/ ConsumeReject(w)
            \/ ConsumeAccept(w) \/ LockTimeout(w) \/ Crash(w)
            \/ (\E n \in Nonces : ConsumeStart(w, n))
          => pc'[w] \notin {"issue_now", "issue_begin", "issue_commit"}
      BY DEF IssueCommit, IssueReturn, ConsumeBegin, ConsumeMiss, ConsumeMark,
             ConsumeCommit, ConsumeReject, ConsumeAccept, LockTimeout, Crash,
             ConsumeStart
    <3> QED
      BY <1>1, <3>1, <3>2, <3>3, <3>4, <3>5 DEF Step
  <2> QED
    BY <2>1, <2>2 DEF PurgedInv
<1>2. CASE Tick
  BY <1>2 DEF Tick, PurgedInv, TypeOK, Calls
<1>3. CASE UNCHANGED vars
  BY <1>3 DEF vars, PurgedInv
<1> QED
  BY <1>1, <1>2, <1>3 DEF Next

\* The commit of issue() leaves nothing that had expired before the call.
LEMMA IssueCleans ==
  ASSUME IInv, PurgedInv, Next, NEW w \in Workers, NEW n \in Nonces,
         pc[w] = "issue_commit", pc'[w] = "issue_return", db'[n].state # "absent"
  PROVE  db'[n].expires_at >= call[w].expires_at - TTL
<1> USE DEF IInv, TypeOK, Calls
<1>1. ASSUME NEW v \in Workers, v # w,
             Step(v) \/ Crash(v) \/ \E m \in Nonces : IssueStart(v, m) \/ ConsumeStart(v, m)
      PROVE  pc'[w] = pc[w]
  BY <1>1, PurgedByOthers
<1>2. IssueCommit(w) \/ pc'[w] # "issue_return"
  BY <1>1 DEF Next, Step, IssueStart, ConsumeStart, IssueReadClock, IssueBegin,
       IssueReturn, ConsumeBegin, ConsumeMiss, ConsumeMark, ConsumeCommit,
       ConsumeReject, ConsumeAccept, LockTimeout, Crash, Tick, Goto, Return
<1>3. IssueCommit(w)
  BY <1>2
<1>4. CASE n = call[w].nonce
  BY <1>3, <1>4, TTLAssumption DEF IssueCommit, Commit, PendingRow
<1>5. CASE n # call[w].nonce
  <2>1. db'[n] = txn[n]
    BY <1>3, <1>5 DEF IssueCommit, Commit
  <2> QED
    BY <2>1, TTLAssumption DEF PurgedInv, Rows
<1> QED
  BY <1>4, <1>5

\* challenge.py:97: whatever had expired before a call of issue() is gone from
\* the committed table when the call returns.
THEOREM ExpiredGoOnIssueHolds == Spec => ExpiredGoOnIssue
<1> DEFINE Cleaned(w) ==
       pc[w] = "issue_commit" /\ pc'[w] = "issue_return" =>
           \A n \in Nonces :
               db'[n].state # "absent" => db'[n].expires_at >= call[w].expires_at - TTL
<1>1. IInv /\ PurgedInv /\ [Next]_vars => [\A w \in Workers : Cleaned(w)]_vars
  BY IssueCleans
<1>2. Spec => []PurgedInv
  BY InitPurgedInv, NextPurgedInv, Invariance, PTL DEF Spec
<1> QED
  BY <1>1, <1>2, Invariance, PTL DEF Spec, ExpiredGoOnIssue

-----------------------------------------------------------------------------
(* The store implements the one-shot nonce                                 *)

Phase == [n \in Nonces |-> PhaseOf(n)]

\* What the phase of a nonce depends on.
LEMMA PhaseStable ==
  ASSUME NEW n \in Nonces,
         accepts'[n] = accepts[n],
         (db[n].state = "pending")' <=> db[n].state = "pending",
         Owed(n)' <=> Owed(n),
         (birth[n] \in Unstored)' <=> birth[n] \in Unstored,
         IInv, IInv'
  PROVE  PhaseOf(n)' = PhaseOf(n)
<1>1. /\ birth[n] \in {"stored", "handed_out"} <=> birth[n] \notin Unstored
      /\ birth'[n] \in {"stored", "handed_out"} <=> birth'[n] \notin Unstored
  BY DEF IInv, TypeOK, Unstored
<1> QED
  BY <1>1 DEF PhaseOf

\* A worker other than the one that moves owes what it owed.
LEMMA OwedByOthers ==
  ASSUME NEW w \in Workers, NEW n \in Nonces, IInv,
         \A v \in Workers : v # w => pc'[v] = pc[v] /\ call'[v] = call[v],
         pc[w] # "judge" \/ call[w].nonce # n,
         pc'[w] # "judge" \/ call'[w].nonce # n
  PROVE  Owed(n)' <=> Owed(n)
BY DEF Owed, OutOfTime

\* Steps that neither commit nor end a redemption.
Quiet(w) ==
    \/ IssueReadClock(w) \/ IssueBegin(w) \/ IssueReturn(w)
    \/ ConsumeBegin(w) \/ ConsumeMiss(w) \/ ConsumeMark(w) \/ LockTimeout(w)
    \/ \E n \in Nonces : IssueStart(w, n) \/ ConsumeStart(w, n)

\* A quiet step is none of the abstract challenge's.
LEMMA QuietStutters ==
  ASSUME IInv, IInv', NEW w \in Workers, Quiet(w)
  PROVE  Phase' = Phase
<1> USE DEF Goto, Return, NoCall, history
<1>1. \A v \in Workers : v # w => pc'[v] = pc[v] /\ call'[v] = call[v]
  BY DEF IInv, TypeOK, Quiet, IssueReadClock, IssueBegin, IssueReturn,
       ConsumeBegin,
         ConsumeMiss, ConsumeMark, LockTimeout, IssueStart, ConsumeStart
<1>2. pc[w] # "judge" /\ pc'[w] # "judge"
  BY DEF IInv, TypeOK, Labels, Quiet, IssueReadClock, IssueBegin, IssueReturn,
       ConsumeBegin,
         ConsumeMiss, ConsumeMark, LockTimeout, IssueStart, ConsumeStart
<1>3. db' = db /\ accepts' = accepts
  BY DEF Quiet, IssueReadClock, IssueBegin, IssueReturn, ConsumeBegin,
         ConsumeMiss, ConsumeMark, LockTimeout, IssueStart, ConsumeStart, Rollback
<1>4. ASSUME NEW n \in Nonces PROVE (birth[n] \in Unstored)' <=> birth[n] \in Unstored
  BY DEF IInv, TypeOK, Quiet, IssueReadClock, IssueBegin, IssueReturn,
       ConsumeBegin,
         ConsumeMiss, ConsumeMark, LockTimeout, IssueStart, ConsumeStart, Unstored,
         ReturningInv
<1>5. ASSUME NEW n \in Nonces PROVE PhaseOf(n)' = PhaseOf(n)
  BY <1>1, <1>2, <1>3, <1>4, OwedByOthers, PhaseStable
<1> QED
  BY <1>5 DEF Phase

\* The commit of issue() makes its nonce live; what its purge drops lapses.
LEMMA IssueCommitIssues ==
  ASSUME IInv, IInv', NEW w \in Workers, IssueCommit(w)
  PROVE  \E n \in Nonces, dropped \in SUBSET OneShot!Live : OneShot!Issue(n, dropped)
<1> DEFINE n == call[w].nonce
           dropped == {m \in Nonces : /\ m # n
                                      /\ db[m].state = "pending"
                                      /\ db'[m].state # "pending"}
<1> USE DEF IInv, IssueCommit, Commit, PendingRow, Goto
<1>1. n \in Nonces /\ pc' = [pc EXCEPT ![w] = "issue_return"] /\ call' = call
  BY DEF TypeOK, Calls
<1>2. PhaseOf(n) = "unissued"
  <2>1. birth[n] = "generated" /\ accepts[n] = 0 /\ db[n].state = "absent" /\ n \notin spent
    BY <1>1 DEF TypeOK, IssuingInv, PreStore, UnstoredInv, Unstored, AcceptInv
  <2>2. ~Owed(n)
    BY <2>1 DEF Owed, JudgeInv
  <2> QED
    BY <2>1, <2>2 DEF PhaseOf
<1>3. PhaseOf(n)' = "live"
  <2>1. accepts'[n] = 0 /\ db'[n].state = "pending"
    BY <1>1 DEF TypeOK, IssuingInv, PreStore, UnstoredInv, Unstored, AcceptInv
  <2> QED
    BY <1>1, <2>1 DEF PhaseOf
<1>4. ASSUME NEW m \in Nonces, m # n
      PROVE  PhaseOf(m)' = IF m \in dropped THEN "lapsed" ELSE PhaseOf(m)
  <2>1. accepts'[m] = accepts[m] /\ birth'[m] = birth[m]
    BY <1>4 DEF TypeOK
  <2>2. Owed(m)' <=> Owed(m)
    BY <1>1, OwedByOthers DEF TypeOK, Labels
  <2>3. db[m].state # "pending" => db'[m].state # "pending"
    BY <1>4 DEF TypeOK, TxnInv
  <2>4. db[m].state = "pending" =>
          birth[m] \in {"stored", "handed_out"} /\ accepts[m] = 0 /\ ~Owed(m)
    BY DEF TypeOK, UnstoredInv, Unstored, Owed, JudgeInv, SpentInv, AcceptInv
  <2>5. CASE m \in dropped
    BY <2>1, <2>2, <2>4, <2>5 DEF PhaseOf
  <2>6. CASE m \notin dropped
    <3>1. (db[m].state = "pending")' <=> db[m].state = "pending"
      BY <2>3, <2>6, <1>4
    <3> QED
      BY <2>1, <2>2, <2>6, <3>1, PhaseStable
  <2> QED
    BY <2>5, <2>6
<1>5. OneShot!Issue(n, dropped)
  BY <1>1, <1>2, <1>3, <1>4 DEF OneShot!Issue, Phase
<1>6. dropped \in SUBSET OneShot!Live
  <2>1. ASSUME NEW m \in dropped PROVE PhaseOf(m) = "live"
    BY <2>1 DEF TypeOK, SpentInv, AcceptInv, PhaseOf
  <2> QED
    BY <2>1 DEF OneShot!Live, Phase
<1> QED
  BY <1>1, <1>5, <1>6

\* The commit of consume() keeps the nonce live for a call in time, and lets
\* it lapse otherwise.
LEMMA ConsumeCommitSteps ==
  ASSUME IInv, IInv', NEW w \in Workers, ConsumeCommit(w)
  PROVE  Phase' = Phase \/ \E n \in Nonces : OneShot!Lapse(n)
<1> DEFINE n == call[w].nonce
           inTime == ~OutOfTime(call[w].expires_at, call[w].now)
<1> USE DEF IInv, ConsumeCommit, Commit, Goto
<1>1. /\ n \in Nonces /\ accepts' = accepts /\ birth' = birth
      /\ pc' = [pc EXCEPT ![w] = "judge"] /\ call' = call /\ pc[w] = "commit"
  BY DEF TypeOK, Calls
<1>2. ASSUME NEW m \in Nonces, m # n PROVE PhaseOf(m)' = PhaseOf(m)
  <2>1. Owed(m)' <=> Owed(m)
    BY <1>1, <1>2, OwedByOthers DEF TypeOK
  <2>2. (db[m].state = "pending")' <=> db[m].state = "pending"
    BY <1>2 DEF TypeOK, TxnInv, CommitInv
  <2> QED
    BY <1>1, <2>1, <2>2, PhaseStable
<1>3. accepts[n] = 0 /\ db[n].state = "pending" /\ db'[n].state # "pending"
  BY <1>1 DEF TypeOK, CommitInv, AcceptInv
<1>4. birth[n] \in {"stored", "handed_out"}
  BY <1>1, <1>3 DEF TypeOK, UnstoredInv, Unstored
<1>5. PhaseOf(n) = "live"
  BY <1>3 DEF PhaseOf
<1>6. Owed(n)' <=> inTime
  <2>1. ASSUME NEW v \in Workers, pc'[v] = "judge", call'[v].nonce = n PROVE v = w
    BY <1>1, <2>1 DEF TypeOK, JudgeInv, CommitInv
  <2> QED
    BY <1>1, <2>1 DEF Owed, OutOfTime, TypeOK
<1>7. PhaseOf(n)' = IF inTime THEN "live" ELSE "lapsed"
  BY <1>1, <1>3, <1>4, <1>6 DEF PhaseOf
<1>8. CASE inTime
  BY <1>1, <1>2, <1>5, <1>7, <1>8 DEF Phase
<1>9. CASE ~inTime
  <2>1. OneShot!Lapse(n)
    BY <1>1, <1>2, <1>5, <1>7, <1>9 DEF OneShot!Lapse, Phase
  <2> QED
    BY <1>1, <2>1
<1> QED
  BY <1>8, <1>9

\* What a call at its verdict owes, nobody else owes.
LEMMA JudgeOwes ==
  ASSUME IInv, NEW w \in Workers, pc[w] = "judge"
  PROVE  /\ call[w].nonce \in Nonces
         /\ accepts[call[w].nonce] = 0
         /\ db[call[w].nonce].state # "pending"
         /\ birth[call[w].nonce] \in {"stored", "handed_out"}
         /\ Owed(call[w].nonce) <=> ~OutOfTime(call[w].expires_at, call[w].now)
BY DEF IInv, TypeOK, Calls, JudgeInv, SpentInv, UnstoredInv, Unstored, Owed

\* Leaving the verdict, the worker owes nothing any more.
LEMMA LeavingJudge ==
  ASSUME IInv, IInv', NEW w \in Workers, NEW n \in Nonces,
         pc[w] = "judge", call[w].nonce = n, Return(w),
         db' = db, birth' = birth,
         \A m \in Nonces : m # n => accepts'[m] = accepts[m]
  PROVE  /\ ~Owed(n)'
         /\ \A m \in Nonces : m # n => PhaseOf(m)' = PhaseOf(m)
<1> USE DEF IInv, Return, Goto
<1>1. /\ pc'[w] = "idle"
      /\ \A v \in Workers : v # w => pc'[v] = pc[v] /\ call'[v] = call[v]
  BY DEF TypeOK
<1>2. ~Owed(n)'
  BY <1>1 DEF Owed, JudgeInv
<1>3. ASSUME NEW m \in Nonces, m # n PROVE PhaseOf(m)' = PhaseOf(m)
  BY <1>1, <1>3, OwedByOthers, PhaseStable
<1> QED
  BY <1>2, <1>3

\* Accepting a row accepts the abstract challenge.
LEMMA ConsumeAcceptAccepts ==
  ASSUME IInv, IInv', NEW w \in Workers, ConsumeAccept(w)
  PROVE  \E n \in Nonces : OneShot!Accept(n)
<1>1. PICK n \in Nonces : call[w].nonce = n
  BY DEF IInv, TypeOK, Calls
<1>2. pc[w] = "judge" /\ accepts'[n] = 1 /\ PhaseOf(n) = "live"
  BY <1>1, JudgeOwes DEF ConsumeAccept, PhaseOf, IInv, TypeOK
<1>3. \A m \in Nonces : m # n => PhaseOf(m)' = PhaseOf(m)
  BY <1>1, LeavingJudge DEF ConsumeAccept, IInv, TypeOK
<1>4. PhaseOf(n)' = "accepted"
  BY <1>2 DEF PhaseOf
<1>5. OneShot!Accept(n)
  BY <1>2, <1>3, <1>4 DEF OneShot!Accept, Phase
<1> QED
  BY <1>5

\* Rejecting a row is none of the abstract challenge's steps.
LEMMA ConsumeRejectStutters ==
  ASSUME IInv, IInv', NEW w \in Workers, ConsumeReject(w)
  PROVE  Phase' = Phase
<1>1. PICK n \in Nonces : call[w].nonce = n
  BY DEF IInv, TypeOK, Calls
<1>2. pc[w] = "judge" /\ ~Owed(n) /\ UNCHANGED <<db, birth, accepts>>
  BY <1>1, JudgeOwes DEF ConsumeReject, history
<1>3. ~Owed(n)' /\ \A m \in Nonces : m # n => PhaseOf(m)' = PhaseOf(m)
  BY <1>1, <1>2, LeavingJudge DEF ConsumeReject
<1>4. PhaseOf(n)' = PhaseOf(n)
  BY <1>2, <1>3, PhaseStable
<1> QED
  BY <1>3, <1>4 DEF Phase

\* A worker that dies at its verdict takes the nonce with it.
LEMMA CrashSteps ==
  ASSUME IInv, IInv', NEW w \in Workers, Crash(w)
  PROVE  Phase' = Phase \/ \E n \in Nonces : OneShot!Lapse(n)
<1>1. PICK n \in Nonces : call[w].nonce = n
  BY DEF IInv, TypeOK, Calls
<1>2. Return(w) /\ db' = db /\ birth' = birth /\ accepts' = accepts
  BY DEF Crash, Rollback, history
<1>3. CASE pc[w] # "judge"
  <2>1. ASSUME NEW m \in Nonces PROVE Owed(m)' <=> Owed(m)
    BY <1>2, <1>3, OwedByOthers DEF Return, Goto, IInv, TypeOK
  <2> QED
    BY <1>2, <2>1, PhaseStable DEF Phase
<1>4. CASE pc[w] = "judge"
  <2>1. ~Owed(n)' /\ \A m \in Nonces : m # n => PhaseOf(m)' = PhaseOf(m)
    BY <1>1, <1>2, <1>4, LeavingJudge
  <2>2. PhaseOf(n)' = "lapsed"
    BY <1>1, <1>2, <1>4, <2>1, JudgeOwes DEF PhaseOf
  <2>3. PhaseOf(n) \in {"live", "lapsed"}
    BY <1>1, <1>4, JudgeOwes DEF PhaseOf
  <2>4. CASE PhaseOf(n) = "lapsed"
    BY <2>1, <2>2, <2>4 DEF Phase
  <2>5. CASE PhaseOf(n) = "live"
    <3>1. OneShot!Lapse(n)
      BY <2>1, <2>2, <2>5 DEF OneShot!Lapse, Phase
    <3> QED
      BY <3>1
  <2> QED
    BY <2>3, <2>4, <2>5
<1> QED
  BY <1>3, <1>4

\* The table with its write lock, purges, time-outs and crashes implements
\* the one-shot nonce: accepted once, and never live again after it lapsed.
THEOREM StoreImplementsOneShot == Spec => ImplementsOneShot
<1>1. Init => OneShot!Init
  BY DEF Init, NoRow, OneShot!Init, PhaseOf, Owed
<1>2. IInv /\ IInv' /\ [Next]_vars => [OneShot!Next]_Phase
  <2> SUFFICES ASSUME IInv, IInv', [Next]_vars
               PROVE  OneShot!Next \/ Phase' = Phase
    OBVIOUS
  <2>1. ASSUME NEW w \in Workers, Quiet(w) PROVE Phase' = Phase
    BY <2>1, QuietStutters
  <2>2. ASSUME NEW w \in Workers, IssueCommit(w) PROVE OneShot!Next
    BY <2>2, IssueCommitIssues DEF OneShot!Next
  <2>3. ASSUME NEW w \in Workers, ConsumeCommit(w)
        PROVE  OneShot!Next \/ Phase' = Phase
    BY <2>3, ConsumeCommitSteps DEF OneShot!Next
  <2>4. ASSUME NEW w \in Workers, ConsumeAccept(w) PROVE OneShot!Next
    BY <2>4, ConsumeAcceptAccepts DEF OneShot!Next
  <2>5. ASSUME NEW w \in Workers, ConsumeReject(w) PROVE Phase' = Phase
    BY <2>5, ConsumeRejectStutters
  <2>6. ASSUME NEW w \in Workers, Crash(w) PROVE OneShot!Next \/ Phase' = Phase
    BY <2>6, CrashSteps DEF OneShot!Next
  <2>7. ASSUME Tick \/ UNCHANGED vars PROVE Phase' = Phase
    <3>1. UNCHANGED <<db, pc, call, birth, accepts>>
      BY <2>7 DEF Tick, vars, history
    <3>2. ASSUME NEW n \in Nonces PROVE PhaseOf(n)' = PhaseOf(n)
      BY <3>1, PhaseStable DEF Owed, OutOfTime
    <3> QED
      BY <3>2 DEF Phase
  <2> QED
    BY <2>1, <2>2, <2>3, <2>4, <2>5, <2>6, <2>7 DEF Next, Step, Quiet
<1> QED
  BY <1>1, <1>2, Invariance, PTL DEF Spec, ImplementsOneShot, OneShot!Spec,
       Phase
=============================================================================
