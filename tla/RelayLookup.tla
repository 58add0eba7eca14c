---------------------------- MODULE RelayLookup ----------------------------
(***************************************************************************)
(* ynh/relay_lookup_server.py: a thread per request answers which relays a *)
(* linked pubkey advertises, from the cache of identity/relay_cache.py or  *)
(* by a fetch of identity/relays.py.  Threads share the cache's file only; *)
(* other programs link and unlink meanwhile.                               *)
(*                                                                         *)
(* A list is "listed" or "empty": nothing in this server depends on more.  *)
(***************************************************************************)
EXTENDS Naturals

CONSTANTS
    Threads,
    Pubkeys,
    TTL,        \* relay_cache_ttl_seconds
    LockWait,   \* the longest a store may wait after it has read the clock
    MaxTime     \* bound on the clock

ASSUME TimesAssumption ==
    /\ TTL \in Nat \ {0}
    /\ LockWait \in 0..(TTL - 1)
    /\ MaxTime \in Nat

VARIABLES
    now,
    linked,     \* the pubkeys with an identity in force
    published,  \* the pubkeys with a list on some relay
    row,        \* the table relay_lists
    pc,         \* where each thread is
    call,       \* its locals
    answer,     \* what it answered last
    asked       \* history: see Questions

vars == <<now, linked, published, row, pc, call, answer, asked>>
environment == <<now, linked, published>>

-----------------------------------------------------------------------------
Times == 0..MaxTime
Lists == {"listed", "empty"}
Labels == {"idle", "mapping", "cache", "age", "fetch", "clock", "store", "reread"}

\* A row of relay_lists, or that there is none.
Entries == [present : BOOLEAN, relays : Lists, fetched_at : Times]
Absent == [present |-> FALSE, relays |-> "empty", fetched_at |-> 0]
Entry(list, time) == [present |-> TRUE, relays |-> list, fetched_at |-> time]

\* The row cache.store writes; dated when the store begins.
Dated_expiry(entry) == [entry EXCEPT !.fetched_at = now + TTL]
Dated(entry) == [entry EXCEPT !.fetched_at = now]

\* "stale" is the cached list a thread has read, "stored" the row it writes.
Locals == [pubkey : Pubkeys, stale : Entries, stored : Entries, reached : BOOLEAN]

\* What a request met: when it came, whether the cache had a list for it and of
\* what date, and whether since then its pubkey was linked and its fetch failed.
Questions == [time : Times, cached : BOOLEAN, dated : Times, linked : BOOLEAN,
              failed : BOOLEAN]

Kinds == {"none", "unlinked", "list", "error"}
Answers == [kind : Kinds, entry : Entries]
Reply(kind, entry) == [kind |-> kind, entry |-> entry]
NoReply == Reply("none", Absent)

\* _response of a row; without one it raises, and the handler reports an error.
ResponseOf(entry) == IF entry.present THEN Reply("list", entry) ELSE Reply("error", Absent)

\* cached.age_seconds() < cache_ttl_seconds
Fresh_inclusive(entry) == entry.present /\ now <= entry.fetched_at + TTL
Fresh(entry) == entry.present /\ now < entry.fetched_at + TTL

\* Only a linked pubkey is looked up at all.
Resolves_orCached(p) == p \in linked \/ row[p].present
Resolves(p) == p \in linked

\* The answer after a failed fetch.
Fallback_nothing(stale) == Reply("list", Absent)
Fallback(stale) == Reply("list", stale)

\* What fetch_relay_list may return.  A relay may hold an old list or none.
Fetchable(p, reached) == IF reached /\ p \in published THEN Lists ELSE {"empty"}

\* fetch_events has a timeout; connect and shutdown are taken to return.
FetchIsBounded_not == FALSE
FetchIsBounded == TRUE

-----------------------------------------------------------------------------
Init ==
    /\ now = 0
    /\ linked \in SUBSET Pubkeys
    /\ published = {}
    /\ row = [p \in Pubkeys |-> Absent]
    /\ pc = [t \in Threads |-> "idle"]
    /\ call \in [Threads -> {[pubkey |-> p, stale |-> Absent, stored |-> Absent,
                              reached |-> FALSE] : p \in Pubkeys}]
    /\ answer = [t \in Threads |-> NoReply]
    /\ asked = [t \in Threads |-> [time |-> 0, cached |-> FALSE, dated |-> 0,
                                   linked |-> FALSE, failed |-> FALSE]]

Goto(t, label) == pc' = [pc EXCEPT ![t] = label]

Finish(t, reply) ==
    /\ Goto(t, "idle")
    /\ answer' = [answer EXCEPT ![t] = reply]

(* _resolve_relays                                                         *)

Arrive(t, p) ==
    /\ pc[t] = "idle"
    /\ call' = [call EXCEPT ![t] = [pubkey |-> p, stale |-> Absent,
                                    stored |-> Absent, reached |-> FALSE]]
    /\ asked' = [asked EXCEPT ![t] = [time |-> now, cached |-> row[p].present,
                                      dated |-> row[p].fetched_at,
                                      linked |-> p \in linked, failed |-> FALSE]]
    /\ answer' = [answer EXCEPT ![t] = NoReply]
    /\ Goto(t, "mapping")
    /\ UNCHANGED <<environment, row>>

\* mappings.get_by_pubkey
LookUp(t) ==
    /\ pc[t] = "mapping"
    /\ IF Resolves(call[t].pubkey)
       THEN Goto(t, "cache") /\ UNCHANGED answer
       ELSE Finish(t, Reply("unlinked", Absent))
    /\ UNCHANGED <<environment, row, call, asked>>

\* cache.get
ReadCache(t) ==
    /\ pc[t] = "cache"
    /\ call' = [call EXCEPT ![t].stale = row[call[t].pubkey]]
    /\ Goto(t, "age")
    /\ UNCHANGED <<environment, row, answer, asked>>

\* A fresh list is the answer, anything else starts a fetch.
AnswerFromCache(t) ==
    /\ pc[t] = "age"
    /\ Fresh(call[t].stale)
    /\ Finish(t, ResponseOf(call[t].stale))
    /\ UNCHANGED <<environment, row, call, asked>>

StartFetch(t) ==
    /\ pc[t] = "age"
    /\ ~Fresh(call[t].stale)
    /\ Goto(t, "fetch")
    /\ UNCHANGED <<environment, row, call, answer, asked>>

\* Relays that do not answer are no error: the list is then empty.
FetchReturns(t, reached, list) ==
    /\ pc[t] = "fetch"
    /\ FetchIsBounded
    /\ list \in Fetchable(call[t].pubkey, reached)
    /\ call' = [call EXCEPT ![t].stored = Entry(list, 0), ![t].reached = reached]
    /\ Goto(t, "clock")
    /\ UNCHANGED <<environment, row, answer, asked>>

\* Stale is better than nothing.
FetchRaises(t) ==
    /\ pc[t] = "fetch"
    /\ FetchIsBounded
    /\ asked' = [asked EXCEPT ![t].failed = TRUE]
    /\ Finish(t, Fallback(call[t].stale))
    /\ UNCHANGED <<environment, row, call>>

\* cache.store dates the row before it waits for the table.
ReadClock(t) ==
    /\ pc[t] = "clock"
    /\ call' = [call EXCEPT ![t].stored = Dated(call[t].stored)]
    /\ Goto(t, "store")
    /\ UNCHANGED <<environment, row, answer, asked>>

\* INSERT ... ON CONFLICT(pubkey) DO UPDATE
Store(t) ==
    /\ pc[t] = "store"
    /\ row' = [row EXCEPT ![call[t].pubkey] = call[t].stored]
    /\ Goto(t, "reread")
    /\ UNCHANGED <<environment, call, answer, asked>>

\* The answer is the row as it is now, which another thread may have stored.
Reread(t) ==
    /\ pc[t] = "reread"
    /\ Finish(t, ResponseOf(row[call[t].pubkey]))
    /\ UNCHANGED <<environment, row, call, asked>>

\* "database is locked", at any statement.
Locked(t) ==
    /\ pc[t] \in {"mapping", "cache", "store", "reread"}
    /\ Finish(t, Reply("error", Absent))
    /\ UNCHANGED <<environment, row, call, asked>>

\* The threads end with the process, the rows stay.
Restart ==
    /\ \E t \in Threads : pc[t] # "idle"
    /\ pc' = [t \in Threads |-> "idle"]
    /\ answer' = [t \in Threads |-> NoReply]
    /\ UNCHANGED <<environment, row, call, asked>>

(* Everybody else                                                          *)

Link(p) ==
    /\ p \notin linked
    /\ linked' = linked \cup {p}
    /\ asked' = [t \in Threads |->
                    [asked[t] EXCEPT !.linked = @ \/ (call[t].pubkey = p /\ pc[t] # "idle")]]
    /\ UNCHANGED <<now, published, row, pc, call, answer>>

Unlink(p) ==
    /\ p \in linked
    /\ linked' = linked \ {p}
    /\ UNCHANGED <<now, published, row, pc, call, answer, asked>>

Publish(p) ==
    /\ p \notin published
    /\ published' = published \cup {p}
    /\ UNCHANGED <<now, linked, row, pc, call, answer, asked>>

\* A thread is not suspended for longer than LockWait inside cache.store.
Tick ==
    /\ now < MaxTime
    /\ \A t \in Threads : pc[t] = "store" => now < call[t].stored.fetched_at + LockWait
    /\ now' = now + 1
    /\ UNCHANGED <<linked, published, row, pc, call, answer, asked>>

\* What a thread does of itself.
Step(t) ==
    \/ LookUp(t)
    \/ ReadCache(t)
    \/ AnswerFromCache(t)
    \/ StartFetch(t)
    \/ \E reached \in BOOLEAN, list \in Lists : FetchReturns(t, reached, list)
    \/ FetchRaises(t)
    \/ ReadClock(t)
    \/ Store(t)
    \/ Reread(t)
    \/ Locked(t)

Next ==
    \/ \E t \in Threads : Step(t)
    \/ \E t \in Threads, p \in Pubkeys : Arrive(t, p)
    \/ \E p \in Pubkeys : Link(p) \/ Unlink(p) \/ Publish(p)
    \/ Restart
    \/ Tick

Spec == Init /\ [][Next]_vars

\* A thread keeps running, and its fetch comes to an end.
FairSpec == Spec /\ \A t \in Threads : WF_vars(Step(t))

-----------------------------------------------------------------------------
(* Properties                                                              *)

\* A row is never dated in the future, nor by more than LockWait too early.
TypeOK ==
    /\ now \in Times
    /\ linked \subseteq Pubkeys
    /\ published \subseteq Pubkeys
    /\ row \in [Pubkeys -> Entries]
    /\ pc \in [Threads -> Labels]
    /\ call \in [Threads -> Locals]
    /\ answer \in [Threads -> Answers]
    /\ asked \in [Threads -> Questions]
    /\ \A p \in Pubkeys : row[p].fetched_at <= now
    /\ \A t \in Threads : pc[t] = "store" => call[t].stored.fetched_at + LockWait >= now

\* relays.py and test_unlinked_pubkey_is_refused_not_resolved: a pubkey that
\* was linked at no moment of a request is not answered for, although its list
\* may still be in the cache.
UnlinkedRefused ==
    \A t \in Threads : answer[t].kind = "list" => asked[t].linked

\* relay_lookup_server.py:66-72: a request for which a list was cached is
\* answered with that list or a later one, but for the wait for the lock,
\* whether its fetch fails and it falls back to what it read before or its own
\* row is replaced by another thread's.
NeverEmptyHanded ==
    \A t \in Threads :
        answer[t].kind = "list" /\ asked[t].cached =>
            /\ answer[t].entry.present
            /\ answer[t].entry.fetched_at + LockWait >= asked[t].dated

\* An answer is older than the TTL only if this request's own fetch failed;
\* a late store of another thread does not bring an old date back.
StaleOnlyOnFailure ==
    \A t \in Threads :
        answer[t].kind = "list" /\ answer[t].entry.present /\ ~asked[t].failed
            => answer[t].entry.fetched_at + TTL > asked[t].time

\* A request does not wait for ever for relays that do not answer.
RequestsAnswered == \A t \in Threads : pc[t] # "idle" ~> pc[t] = "idle"

\* relay_lookup_server.py:67: "stale is better than nothing".  A fetch that
\* reached no relay leaves the list that is known.
KnownListKept ==
    [][\A t \in Threads :
          LET p == call[t].pubkey
          IN  pc[t] = "store" /\ pc'[t] = "reread" /\ row[p].relays = "listed"
                  => call[t].reached \/ row'[p].relays = "listed"]_vars
=============================================================================
