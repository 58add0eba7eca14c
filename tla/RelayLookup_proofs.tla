------------------------- MODULE RelayLookup_proofs -------------------------
(***************************************************************************)
(* Proofs about RelayLookup: what a request is answered, for any number of *)
(* threads and pubkeys and any TTL that is longer than the wait for        *)
(* SQLite's lock.                                                          *)
(***************************************************************************)
EXTENDS RelayLookup, TLAPS

-----------------------------------------------------------------------------
(* The inductive invariant                                                 *)

Resolving == {"cache", "age", "fetch", "clock", "store", "reread"}

\* Requests came, and rows that wait for the lock were dated, in the past; what
\* a request found in the cache had been dated before it came.
PastInv ==
    \A t \in Threads : /\ asked[t].time <= now
                       /\ asked[t].dated <= asked[t].time
                       /\ pc[t] = "store" => call[t].stored.fetched_at <= now

\* What waits to be stored is a row.
StoredInv == \A t \in Threads : pc[t] \in {"clock", "store"} => call[t].stored.present

\* A thread that resolves a pubkey has met it linked.
LinkedInv ==
    \A t \in Threads :
        /\ pc[t] \in Resolving => asked[t].linked
        /\ pc[t] # "idle" /\ call[t].pubkey \in linked => asked[t].linked

\* The entry is the list that was cached when t's request came, or one that was
\* stored since: that one waited for LockWait at most.
NotBefore(entry, question) ==
    /\ entry.present
    /\ entry.fetched_at + LockWait >= question.dated

\* Rows stay: a list that was cached when a request came is there to be read,
\* and the thread that has read it has it.
CachedInv ==
    \A t \in Threads : asked[t].cached /\ pc[t] # "idle" =>
        /\ NotBefore(row[call[t].pubkey], asked[t])
        /\ pc[t] \in {"age", "fetch"} => NotBefore(call[t].stale, asked[t])

\* A row that was stored during a request is younger than its TTL when the
\* request came, whichever thread stored it: it waited for LockWait at most.
RereadInv ==
    \A t \in Threads : pc[t] = "reread" =>
        row[call[t].pubkey].fetched_at + LockWait >= asked[t].time

IInv ==
    /\ TypeOK
    /\ PastInv /\ StoredInv /\ LinkedInv /\ CachedInv /\ RereadInv
    /\ UnlinkedRefused /\ NeverEmptyHanded /\ StaleOnlyOnFailure

-----------------------------------------------------------------------------
(* The invariant holds                                                     *)

\* There is a row or none, and a row that is written has its time.
LEMMA EntryTypes ==
  ASSUME TypeOK
  PROVE  /\ Absent \in Entries /\ ~Absent.present
         /\ \A list \in Lists, time \in Times : Entry(list, time) \in Entries
         /\ \A e \in Entries : Dated(e) \in Entries
         /\ 0 \in Times
BY TimesAssumption DEF TypeOK, Absent, Entries, Entry, Dated, Lists, Times

\* The initial state: no requests and no rows.
LEMMA InitIInv == Init => IInv
<1> SUFFICES ASSUME Init PROVE IInv
  OBVIOUS
<1> USE TimesAssumption DEF Init
<1>1. Absent \in Entries /\ 0 \in Times
  BY DEF Absent, Entries, Lists, Times
<1>2. call \in [Threads -> Locals]
  <2>1. \A p \in Pubkeys : [pubkey |-> p, stale |-> Absent, stored |-> Absent,
                           reached |-> FALSE] \in Locals
    BY <1>1 DEF Locals
  <2> QED
    BY <2>1
<1>3. answer \in [Threads -> Answers] /\ asked \in [Threads -> Questions]
  BY <1>1 DEF Answers, Kinds, NoReply, Reply, Questions
<1>4. TypeOK
  BY <1>1, <1>2, <1>3 DEF TypeOK, Labels, Absent
<1>5. PastInv /\ StoredInv /\ LinkedInv /\ CachedInv /\ RereadInv
  BY DEF PastInv, StoredInv, LinkedInv, Resolving, CachedInv, RereadInv, Times
<1>6. UnlinkedRefused /\ NeverEmptyHanded /\ StaleOnlyOnFailure
  BY DEF UnlinkedRefused, NeverEmptyHanded, StaleOnlyOnFailure, NoReply, Reply
<1> QED
  BY <1>4, <1>5, <1>6 DEF IInv

\* Nothing changes but what belongs to thread t.
Only(t) ==
    /\ UNCHANGED <<environment, row>>
    /\ pc' \in [Threads -> Labels] /\ call' \in [Threads -> Locals]
    /\ answer' \in [Threads -> Answers] /\ asked' \in [Threads -> Questions]
    /\ \A u \in Threads : u # t =>
          /\ pc'[u] = pc[u] /\ call'[u] = call[u]
          /\ answer'[u] = answer[u] /\ asked'[u] = asked[u]

\* What the thread answers is what the properties ask of an answer.
Honest(t) ==
    answer'[t].kind = "list" =>
        /\ asked'[t].linked
        /\ asked'[t].cached => NotBefore(answer'[t].entry, asked'[t])
        /\ answer'[t].entry.present /\ ~asked'[t].failed
              => answer'[t].entry.fetched_at + TTL > asked'[t].time

\* A thread takes a step of its own: the invariant is then asked of it only.
LEMMA MoveIInv ==
  ASSUME IInv, NEW t \in Threads, Only(t), Honest(t),
         asked'[t].time <= now, asked'[t].dated <= asked'[t].time,
         pc'[t] = "store" => call'[t].stored.fetched_at = now,
         pc'[t] \in {"clock", "store"} => call'[t].stored.present,
         pc'[t] \in Resolving => asked'[t].linked,
         pc'[t] # "idle" /\ call'[t].pubkey \in linked => asked'[t].linked,
         asked'[t].cached /\ pc'[t] # "idle" =>
             /\ NotBefore(row[call'[t].pubkey], asked'[t])
             /\ pc'[t] \in {"age", "fetch"} => NotBefore(call'[t].stale, asked'[t]),
         pc'[t] # "reread"
  PROVE  IInv'
<1> USE DEF IInv, Only, environment
<1>1. TypeOK'
  BY TimesAssumption DEF TypeOK, Times
<1>2. PastInv'
  BY DEF TypeOK, PastInv, Times
<1>3. StoredInv' /\ LinkedInv'
  BY DEF StoredInv, LinkedInv
<1>4. CachedInv' /\ RereadInv'
  BY DEF CachedInv, RereadInv
<1>5. UnlinkedRefused' /\ NeverEmptyHanded' /\ StaleOnlyOnFailure'
  BY DEF Honest, NotBefore, UnlinkedRefused, NeverEmptyHanded, StaleOnlyOnFailure
<1> QED
  BY <1>1, <1>2, <1>3, <1>4, <1>5

\* What is known of a thread in any case.
LEMMA ThreadTypes ==
  ASSUME IInv, NEW t \in Threads
  PROVE  /\ call[t] \in Locals /\ asked[t] \in Questions /\ answer[t] \in Answers
         /\ call[t].pubkey \in Pubkeys /\ row[call[t].pubkey] \in Entries
         /\ call[t].stale \in Entries /\ call[t].stored \in Entries
         /\ now \in Times /\ asked[t].time <= now /\ asked[t].dated <= asked[t].time
BY DEF IInv, TypeOK, PastInv, Locals

\* A thread that ends its request with a reply that is honest.
LEMMA FinishIInv ==
  ASSUME IInv, NEW t \in Threads, NEW reply \in Answers,
         pc[t] # "idle", Finish(t, reply), UNCHANGED <<environment, row, call>>,
         NEW failed \in BOOLEAN, asked[t].failed => failed,
         asked' = [asked EXCEPT ![t].failed = failed],
         reply.kind = "list" =>
            /\ asked[t].linked
            /\ asked[t].cached => NotBefore(reply.entry, asked[t])
            /\ reply.entry.present /\ ~failed
                  => reply.entry.fetched_at + TTL > asked[t].time
  PROVE  IInv'
<1>1. /\ pc'[t] = "idle" /\ answer'[t] = reply
      /\ asked'[t] = [asked[t] EXCEPT !.failed = failed]
      /\ asked'[t] \in Questions
  BY ThreadTypes DEF IInv, TypeOK, Finish, Goto, Questions
<1>2. Only(t)
  BY <1>1 DEF IInv, TypeOK, Finish, Goto, Only, Labels, Questions
<1>3. /\ asked'[t].time = asked[t].time /\ asked'[t].cached = asked[t].cached
      /\ asked'[t].dated = asked[t].dated
      /\ asked'[t].linked = asked[t].linked /\ asked'[t].failed = failed
  BY <1>1, ThreadTypes DEF Questions
<1> QED
  BY <1>1, <1>2, <1>3, ThreadTypes, MoveIInv DEF Honest, Resolving, NotBefore

\* The same for a reply that leaves the record of the request as it is.
LEMMA ReplyIInv ==
  ASSUME IInv, NEW t \in Threads, NEW reply \in Answers,
         pc[t] # "idle", Finish(t, reply),
         UNCHANGED <<environment, row, call, asked>>,
         reply.kind = "list" =>
            /\ asked[t].linked
            /\ asked[t].cached => NotBefore(reply.entry, asked[t])
            /\ reply.entry.present /\ ~asked[t].failed
                  => reply.entry.fetched_at + TTL > asked[t].time
  PROVE  IInv'
<1>1. asked' = [asked EXCEPT ![t].failed = asked[t].failed] /\ asked[t].failed \in BOOLEAN
  BY ThreadTypes DEF IInv, TypeOK, Questions
<1> QED
  BY <1>1, FinishIInv

\* A reply is an answer, with the parts it was made of.
LEMMA ReplyTypes ==
  ASSUME NEW e \in Entries, NEW k \in Kinds
  PROVE  /\ Reply(k, e) \in Answers /\ Reply(k, e).kind = k /\ Reply(k, e).entry = e
BY DEF Reply, Answers

\* A request arrives: nothing is known yet, and nothing answered.
LEMMA ArriveIInv ==
  ASSUME IInv, NEW t \in Threads, NEW p \in Pubkeys, Arrive(t, p)
  PROVE  IInv'
<1> USE DEF Arrive, Goto
<1> DEFINE l == [pubkey |-> p, stale |-> Absent, stored |-> Absent, reached |-> FALSE]
           q == [time |-> now, cached |-> row[p].present, dated |-> row[p].fetched_at,
                 linked |-> p \in linked, failed |-> FALSE]
<1>0. l \in Locals /\ q \in Questions
  <2>1. /\ row[p] \in Entries /\ row[p].present \in BOOLEAN
        /\ row[p].fetched_at \in Times /\ now \in Times
    BY DEF IInv, TypeOK, Entries
  <2> QED
    BY <2>1, EntryTypes DEF IInv, Locals, Questions
<1>1. /\ pc'[t] = "mapping" /\ call'[t].pubkey = p
      /\ call'[t] \in Locals /\ asked'[t] \in Questions
      /\ asked'[t].time = now /\ asked'[t].cached = row[p].present
      /\ asked'[t].dated = row[p].fetched_at
      /\ asked'[t].linked = (p \in linked)
      /\ answer'[t] = NoReply
  <2>1. call'[t] = l /\ asked'[t] = q /\ pc'[t] = "mapping" /\ answer'[t] = NoReply
    BY DEF IInv, TypeOK
  <2> QED
    BY <1>0, <2>1
<1>2. NoReply \in Answers /\ NoReply.kind = "none"
  BY EntryTypes, ReplyTypes DEF IInv, NoReply, Kinds
<1>3. Only(t)
  BY <1>1, <1>2 DEF IInv, TypeOK, Only, Labels
<1>4. Honest(t)
  BY <1>1, <1>2 DEF Honest
<1>5. asked'[t].time <= now /\ asked'[t].dated <= asked'[t].time
  BY <1>1, TimesAssumption DEF IInv, TypeOK, Times
<1>6. asked'[t].cached => NotBefore(row[call'[t].pubkey], asked'[t])
  <2>1. row[p].fetched_at \in Nat /\ LockWait \in Nat
    BY TimesAssumption DEF IInv, TypeOK, Entries, Times
  <2>2. row[p].fetched_at + LockWait >= row[p].fetched_at
    BY <2>1
  <2> HIDE DEF Arrive, Goto, l, q
  <2> QED
    BY <1>1, <2>2 DEF NotBefore
<1> HIDE DEF Arrive, Goto, l, q
<1> QED
  BY <1>1, <1>3, <1>4, <1>5, <1>6, MoveIInv DEF Resolving

\* Only a thread whose pubkey is linked goes on to the cache.
LEMMA LookUpIInv ==
  ASSUME IInv, NEW t \in Threads, LookUp(t)
  PROVE  IInv'
<1>1. CASE call[t].pubkey \in linked
  <2>1. /\ pc'[t] = "cache" /\ Only(t)
        /\ call'[t] = call[t] /\ asked'[t] = asked[t] /\ answer'[t] = answer[t]
    BY <1>1 DEF LookUp, Resolves, Goto, Only, IInv, TypeOK, Labels
  <2>2. Honest(t)
    BY <2>1 DEF Honest, NotBefore, IInv, UnlinkedRefused, NeverEmptyHanded,
            StaleOnlyOnFailure
  <2>3. asked[t].linked /\ (asked[t].cached => NotBefore(row[call[t].pubkey], asked[t]))
    BY <1>1 DEF IInv, LinkedInv, CachedInv, LookUp
  <2> QED
    BY <2>1, <2>2, <2>3, ThreadTypes, MoveIInv
<1>2. CASE call[t].pubkey \notin linked
  BY <1>2, EntryTypes, ReplyTypes, ReplyIInv DEF LookUp, Resolves, Kinds, IInv
<1> QED
  BY <1>1, <1>2

\* A list that was cached when the request came is read.
LEMMA ReadCacheIInv ==
  ASSUME IInv, NEW t \in Threads, ReadCache(t)
  PROVE  IInv'
<1>1. /\ pc'[t] = "age" /\ asked'[t] = asked[t] /\ answer'[t] = answer[t]
      /\ call'[t].pubkey = call[t].pubkey /\ call'[t].stale = row[call[t].pubkey]
      /\ call'[t] \in Locals
  BY ThreadTypes DEF ReadCache, Goto, IInv, TypeOK, Locals
<1>2. Only(t)
  BY <1>1 DEF ReadCache, Goto, Only, IInv, TypeOK, Labels
<1>3. Honest(t)
  BY <1>1 DEF Honest, NotBefore, IInv, UnlinkedRefused, NeverEmptyHanded,
            StaleOnlyOnFailure
<1>4. asked[t].linked /\ (asked[t].cached => NotBefore(row[call[t].pubkey], asked[t]))
  BY DEF IInv, LinkedInv, CachedInv, Resolving, ReadCache
<1> QED
  BY <1>1, <1>2, <1>3, <1>4, ThreadTypes, MoveIInv

\* A fresh row is younger than its TTL now, so it was when the request came.
LEMMA AnswerFromCacheIInv ==
  ASSUME IInv, NEW t \in Threads, AnswerFromCache(t)
  PROVE  IInv'
<1> DEFINE e == call[t].stale
<1>1. e \in Entries /\ e.present /\ now < e.fetched_at + TTL
  BY ThreadTypes DEF AnswerFromCache, Fresh
<1>2. asked[t].linked /\ asked[t].time <= now
  BY ThreadTypes DEF IInv, LinkedInv, Resolving, AnswerFromCache
<1>3. e.fetched_at + TTL > asked[t].time
  BY <1>1, <1>2, ThreadTypes, TimesAssumption DEF Times, Entries, Questions
<1>4. asked[t].cached => NotBefore(e, asked[t])
  BY DEF IInv, CachedInv, AnswerFromCache
<1> QED
  BY <1>1, <1>2, <1>3, <1>4, ReplyTypes, ReplyIInv DEF AnswerFromCache, ResponseOf, Kinds

\* The fetch begins with the stale list in hand.
LEMMA StartFetchIInv ==
  ASSUME IInv, NEW t \in Threads, StartFetch(t)
  PROVE  IInv'
<1>1. /\ pc'[t] = "fetch" /\ Only(t)
      /\ call'[t] = call[t] /\ asked'[t] = asked[t] /\ answer'[t] = answer[t]
  BY DEF StartFetch, Goto, Only, IInv, TypeOK, Labels
<1>2. Honest(t)
  BY <1>1 DEF Honest, NotBefore, IInv, UnlinkedRefused, NeverEmptyHanded,
            StaleOnlyOnFailure
<1>3. /\ asked[t].linked
      /\ asked[t].cached => /\ NotBefore(row[call[t].pubkey], asked[t])
                         /\ NotBefore(call[t].stale, asked[t])
  BY DEF IInv, LinkedInv, CachedInv, Resolving, StartFetch
<1> QED
  BY <1>1, <1>2, <1>3, ThreadTypes, MoveIInv

\* What was fetched is a row to be stored.
LEMMA FetchReturnsIInv ==
  ASSUME IInv, NEW t \in Threads, NEW reached \in BOOLEAN, NEW list \in Lists,
         FetchReturns(t, reached, list)
  PROVE  IInv'
<1>1. Entry(list, 0) \in Entries /\ Entry(list, 0).present
  BY EntryTypes DEF IInv, Entry
<1>2. /\ pc'[t] = "clock" /\ asked'[t] = asked[t] /\ answer'[t] = answer[t]
      /\ call'[t].pubkey = call[t].pubkey /\ call'[t].stored = Entry(list, 0)
      /\ call'[t] \in Locals
  BY <1>1, ThreadTypes DEF FetchReturns, Goto, IInv, TypeOK, Locals
<1>3. Only(t)
  BY <1>2 DEF FetchReturns, Goto, Only, IInv, TypeOK, Labels
<1>4. Honest(t)
  BY <1>2 DEF Honest, NotBefore, IInv, UnlinkedRefused, NeverEmptyHanded,
            StaleOnlyOnFailure
<1>5. asked[t].linked /\ (asked[t].cached => NotBefore(row[call[t].pubkey], asked[t]))
  BY DEF IInv, LinkedInv, CachedInv, Resolving, FetchReturns
<1> QED
  BY <1>1, <1>2, <1>3, <1>4, <1>5, ThreadTypes, MoveIInv

\* After a failed fetch the stale list is the answer, however old.
LEMMA FetchRaisesIInv ==
  ASSUME IInv, NEW t \in Threads, FetchRaises(t)
  PROVE  IInv'
<1>1. asked[t].linked /\ (asked[t].cached => NotBefore(call[t].stale, asked[t]))
  BY DEF IInv, LinkedInv, CachedInv, Resolving, FetchRaises
<1>2. /\ Fallback(call[t].stale) \in Answers
      /\ Fallback(call[t].stale).entry = call[t].stale
  BY ThreadTypes, ReplyTypes DEF Fallback, Kinds
<1> QED
  BY <1>1, <1>2, FinishIInv DEF FetchRaises

\* The row is dated before the wait for the lock begins.
LEMMA ReadClockIInv ==
  ASSUME IInv, NEW t \in Threads, ReadClock(t)
  PROVE  IInv'
<1> DEFINE e == call[t].stored
<1>1. /\ Dated(e) \in Entries /\ Dated(e).fetched_at = now
      /\ Dated(e).present
  BY EntryTypes, ThreadTypes DEF IInv, StoredInv, ReadClock, Dated, Entries
<1>2. /\ pc'[t] = "store" /\ asked'[t] = asked[t] /\ answer'[t] = answer[t]
      /\ call'[t].pubkey = call[t].pubkey /\ call'[t].stored = Dated(e)
      /\ call'[t] \in Locals
  BY <1>1, ThreadTypes DEF ReadClock, Goto, IInv, TypeOK, Locals
<1>3. Only(t)
  BY <1>2 DEF ReadClock, Goto, Only, IInv, TypeOK, Labels
<1>4. Honest(t)
  BY <1>2 DEF Honest, NotBefore, IInv, UnlinkedRefused, NeverEmptyHanded,
            StaleOnlyOnFailure
<1>5. asked[t].linked /\ (asked[t].cached => NotBefore(row[call[t].pubkey], asked[t]))
  BY DEF IInv, LinkedInv, CachedInv, Resolving, ReadClock
<1> QED
  BY <1>1, <1>2, <1>3, <1>4, <1>5, ThreadTypes, MoveIInv

\* A row that is stored is not older than LockWait.
LEMMA StoreIInv ==
  ASSUME IInv, NEW t \in Threads, Store(t)
  PROVE  IInv'
<1> USE DEF IInv, Store, Goto, environment
<1> DEFINE p == call[t].pubkey
           e == call[t].stored
<1>1. /\ p \in Pubkeys /\ e \in Entries /\ e.present
      /\ e.fetched_at <= now /\ e.fetched_at + LockWait >= now
  BY ThreadTypes DEF StoredInv, PastInv, TypeOK
<1>2. /\ row'[p] = e /\ \A q \in Pubkeys : q # p => row'[q] = row[q]
      /\ row' \in [Pubkeys -> Entries]
      /\ \A u \in Threads : u # t => pc'[u] = pc[u]
      /\ pc'[t] = "reread" /\ pc' \in [Threads -> Labels]
  BY <1>1 DEF TypeOK, Labels
<1>3. TypeOK'
  BY <1>1, <1>2 DEF TypeOK
<1>4. PastInv' /\ StoredInv' /\ LinkedInv'
  BY <1>2 DEF PastInv, StoredInv, LinkedInv, Resolving
<1>5. CachedInv'
  <2>1. ASSUME NEW u \in Threads, asked[u].cached, pc'[u] # "idle"
        PROVE  /\ NotBefore(row'[call[u].pubkey], asked[u])
               /\ pc'[u] \in {"age", "fetch"} => NotBefore(call[u].stale, asked[u])
    <3>1. pc[u] # "idle" /\ (pc'[u] \in {"age", "fetch"} => pc[u] = pc'[u])
      BY <1>2, <2>1
    <3>2. NotBefore(e, asked[u])
      BY <1>1, ThreadTypes, TimesAssumption DEF NotBefore, Times, Entries, Questions
    <3> QED
      BY <1>2, <2>1, <3>1, <3>2, ThreadTypes DEF CachedInv
  <2> QED
    BY <2>1 DEF CachedInv
<1>6. ASSUME NEW u \in Threads, pc'[u] = "reread"
      PROVE  row'[call[u].pubkey].fetched_at + LockWait >= asked[u].time
  <2>1. CASE call[u].pubkey = p
    BY <1>1, <1>2, <2>1, ThreadTypes, TimesAssumption DEF Times, Entries, Questions
  <2>2. CASE call[u].pubkey # p
    BY <1>2, <1>6, <2>2, ThreadTypes DEF RereadInv
  <2> QED
    BY <2>1, <2>2
<1>7. RereadInv'
  BY <1>6 DEF RereadInv
<1>8. UnlinkedRefused' /\ NeverEmptyHanded' /\ StaleOnlyOnFailure'
  BY DEF UnlinkedRefused, NeverEmptyHanded, StaleOnlyOnFailure, NotBefore
<1> QED
  BY <1>3, <1>4, <1>5, <1>7, <1>8

\* The row that is reread waited for less than the TTL.
LEMMA RereadIInv ==
  ASSUME IInv, NEW t \in Threads, Reread(t)
  PROVE  IInv'
<1> DEFINE e == row[call[t].pubkey]
<1>1. e \in Entries /\ asked[t].linked /\ e.fetched_at + LockWait >= asked[t].time
  BY ThreadTypes DEF IInv, LinkedInv, Resolving, RereadInv, Reread
<1>2. e.fetched_at + TTL > asked[t].time
  BY <1>1, ThreadTypes, TimesAssumption DEF Times, Entries, Questions
<1>3. /\ ResponseOf(e) \in Answers
      /\ ResponseOf(e).kind = "list" => e.present /\ ResponseOf(e).entry = e
  BY <1>1, EntryTypes, ReplyTypes DEF ResponseOf, Kinds, IInv
<1>4. asked[t].cached => NotBefore(e, asked[t])
  BY DEF IInv, CachedInv, Reread
<1> QED
  BY <1>1, <1>2, <1>3, <1>4, ReplyIInv DEF Reread

\* A request that meets a locked database is answered with an error.
LEMMA LockedIInv ==
  ASSUME IInv, NEW t \in Threads, Locked(t)
  PROVE  IInv'
BY EntryTypes, ReplyTypes, ReplyIInv DEF Locked, Kinds, IInv

\* A restart ends the requests and leaves the rows.
LEMMA RestartIInv ==
  ASSUME IInv, Restart
  PROVE  IInv'
<1> USE DEF IInv, Restart, environment
<1>1. NoReply \in Answers /\ NoReply.kind = "none"
  BY EntryTypes, ReplyTypes DEF NoReply, Kinds
<1>2. TypeOK'
  BY <1>1 DEF TypeOK, Labels
<1>3. PastInv' /\ StoredInv' /\ LinkedInv' /\ CachedInv' /\ RereadInv'
  BY DEF PastInv, StoredInv, LinkedInv, Resolving, CachedInv, RereadInv
<1>4. UnlinkedRefused' /\ NeverEmptyHanded' /\ StaleOnlyOnFailure'
  BY <1>1 DEF UnlinkedRefused, NeverEmptyHanded, StaleOnlyOnFailure, NotBefore
<1> QED
  BY <1>2, <1>3, <1>4

\* Linking a pubkey is remembered by the requests about it.
LEMMA LinkIInv ==
  ASSUME IInv, NEW p \in Pubkeys, Link(p)
  PROVE  IInv'
<1> USE DEF IInv, Link
<1>1. ASSUME NEW t \in Threads
      PROVE  /\ asked'[t] \in Questions
             /\ asked'[t].time = asked[t].time /\ asked'[t].cached = asked[t].cached
             /\ asked'[t].dated = asked[t].dated
             /\ asked'[t].failed = asked[t].failed
             /\ asked[t].linked => asked'[t].linked
             /\ call[t].pubkey = p /\ pc[t] # "idle" => asked'[t].linked
  BY ThreadTypes DEF Questions
<1>2. TypeOK'
  BY <1>1 DEF TypeOK
<1>3. UNCHANGED <<now, row, pc, call, answer>> /\ linked' = linked \cup {p}
  OBVIOUS
<1> HIDE DEF Link
<1>4. PastInv' /\ StoredInv' /\ LinkedInv' /\ CachedInv' /\ RereadInv'
  BY <1>1, <1>3 DEF PastInv, StoredInv, LinkedInv, CachedInv, RereadInv, NotBefore
<1>5. UnlinkedRefused' /\ NeverEmptyHanded' /\ StaleOnlyOnFailure'
  BY <1>1, <1>3 DEF UnlinkedRefused, NeverEmptyHanded, StaleOnlyOnFailure, NotBefore
<1> QED
  BY <1>2, <1>4, <1>5

\* Unlinking, publishing and time disturb no request.
LEMMA OthersIInv ==
  ASSUME IInv, (\E p \in Pubkeys : Unlink(p) \/ Publish(p)) \/ Tick \/ UNCHANGED vars
  PROVE  IInv'
<1> USE DEF IInv
<1>1. /\ UNCHANGED <<row, pc, call, answer, asked>>
      /\ linked' \subseteq linked /\ published' \subseteq Pubkeys
      /\ now' \in Times /\ now <= now'
      /\ \A t \in Threads : pc[t] = "store" => call[t].stored.fetched_at + LockWait >= now'
  <2>1. CASE \E p \in Pubkeys : Unlink(p) \/ Publish(p)
    BY <2>1, TimesAssumption DEF Unlink, Publish, TypeOK, Times
  <2>2. CASE Tick
    BY <2>2, ThreadTypes, TimesAssumption DEF Tick, TypeOK, Times, Entries
  <2>3. CASE UNCHANGED vars
    BY <2>3, TimesAssumption DEF vars, TypeOK, Times
  <2> QED
    BY <2>1, <2>2, <2>3
<1>2. TypeOK'
  BY <1>1, TimesAssumption DEF TypeOK, Times, Entries
<1>3. PastInv'
  BY <1>1, ThreadTypes, TimesAssumption DEF PastInv, Times, Entries, Questions
<1>4. StoredInv' /\ LinkedInv' /\ CachedInv' /\ RereadInv'
  BY <1>1 DEF StoredInv, LinkedInv, CachedInv, RereadInv
<1>5. UnlinkedRefused' /\ NeverEmptyHanded' /\ StaleOnlyOnFailure'
  BY <1>1 DEF UnlinkedRefused, NeverEmptyHanded, StaleOnlyOnFailure, NotBefore
<1> QED
  BY <1>2, <1>3, <1>4, <1>5

\* Every step of a thread, of another program or of the clock.
LEMMA NextIInv == IInv /\ [Next]_vars => IInv'
<1> SUFFICES ASSUME IInv, [Next]_vars PROVE IInv'
  OBVIOUS
<1>1. ASSUME NEW t \in Threads, Step(t) PROVE IInv'
  BY <1>1, LookUpIInv, ReadCacheIInv, AnswerFromCacheIInv, StartFetchIInv,
     FetchReturnsIInv, FetchRaisesIInv, ReadClockIInv, StoreIInv, RereadIInv,
     LockedIInv DEF Step
<1>2. ASSUME NEW t \in Threads, NEW p \in Pubkeys, Arrive(t, p) PROVE IInv'
  BY <1>2, ArriveIInv
<1>3. ASSUME NEW p \in Pubkeys, Link(p) PROVE IInv'
  BY <1>3, LinkIInv
<1> QED
  BY <1>1, <1>2, <1>3, RestartIInv, OthersIInv DEF Next

\* The inductive invariant holds in every state.
THEOREM Invariance == Spec => []IInv
BY InitIInv, NextIInv, PTL DEF Spec

-----------------------------------------------------------------------------
(* The properties                                                          *)

\* The types, and that no row is dated in the future.
THEOREM TypeCorrect == Spec => []TypeOK
<1>1. IInv => TypeOK
  BY DEF IInv
<1> QED
  BY <1>1, Invariance, PTL

\* A pubkey that was linked at no moment of a request is not answered for.
THEOREM UnlinkedRefusedHolds == Spec => []UnlinkedRefused
<1>1. IInv => UnlinkedRefused
  BY DEF IInv
<1> QED
  BY <1>1, Invariance, PTL

\* A request is answered with the list that was cached when it came, or with one
\* that is not older but for the wait for the lock.
THEOREM NeverEmptyHandedHolds == Spec => []NeverEmptyHanded
<1>1. IInv => NeverEmptyHanded
  BY DEF IInv
<1> QED
  BY <1>1, Invariance, PTL

\* Only a failed fetch of its own lets a request be answered with an old list,
\* as long as the wait for the lock is shorter than the TTL.
THEOREM StaleOnlyOnFailureHolds == Spec => []StaleOnlyOnFailure
<1>1. IInv => StaleOnlyOnFailure
  BY DEF IInv
<1> QED
  BY <1>1, Invariance, PTL
=============================================================================
