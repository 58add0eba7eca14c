------------------------- MODULE AuthService_proofs -------------------------
(***************************************************************************)
(* Proofs about AuthService: what its handlers, the CLI, the helper and    *)
(* restarts may do to one another, for any number of requests, challenges, *)
(* accounts, keys and hosts.                                               *)
(***************************************************************************)
EXTENDS AuthService, TLAPS

-----------------------------------------------------------------------------
(* The inductive invariant                                                 *)

\* The event loop: of the handlers that do not await a body, one is under way.
LoopInv == \A c, d \in Clients : Running(c) /\ Running(d) => c = d

\* Whose request it is, and that the settings of this process admit it.
AdmittedInv ==
    \A c \in Clients : req[c].at # "idle" =>
        /\ Admitted(req[c].kind)
        /\ req[c].who = Nobody <=> req[c].kind = "authenticate"

\* What a handler is about, by the stage it is at.
StageInv ==
    \A c \in Clients :
        /\ req[c].at = "body" => req[c].kind \in Signed \cup Admin
        /\ req[c].at = "consume" => req[c].kind \in Signed
        /\ req[c].at \in {"lookup", "mint", "mint_wait"} => req[c].kind = "authenticate"
        /\ req[c].at \in {"portal", "write"} => req[c].kind # "authenticate"
        /\ req[c].at \in {"consume", "portal"} /\ req[c].kind \in Signed
              => req[c].user = req[c].who
        /\ req[c].at \in {"mint", "mint_wait", "write"} => req[c].user \in Users
        /\ req[c].at # "mint_wait" => req[c].reply = "none"

\* The handler has redeemed its challenge and not yet done what it paid for.
HasPaid(c) ==
    \/ req[c].at \in {"lookup", "mint", "mint_wait"}
    \/ req[c].at \in {"portal", "write"} /\ req[c].kind \in Signed

NoEffect == [session |-> 0, link |-> 0]

PaidInv ==
    \A c \in Clients : HasPaid(c) =>
        /\ req[c].nonce \in Nonces
        /\ phase[req[c].nonce] = "accepted"
        /\ granted[req[c].nonce] = NoEffect
        /\ RightAction(req[c].kind, bound[req[c].nonce].action)

EffectInv == \A n \in Nonces : granted[n] # NoEffect => phase[n] = "accepted"

\* A caller waits for one job.
JobInv == \A j, k \in jobs : j.for = k.for /\ j.for # NoClient => j = k

KeyInv == \A p \in Pubkeys : key[p].enabled => key[p].user \in Users

\* What is gone is not in force, and no handler carries it.
RemovedInv ==
    /\ removed \cap InForce(key) = {}
    /\ \A c \in Clients : req[c].at \in {"mint", "mint_wait"}
                             => <<req[c].user, req[c].pubkey>> \notin removed

IInv ==
    /\ TypeOK /\ ChallengeBuysOneEffect
    /\ LoopInv /\ AdmittedInv /\ StageInv
    /\ PaidInv /\ EffectInv
    /\ JobInv /\ KeyInv /\ RemovedInv

-----------------------------------------------------------------------------
(* The invariant holds                                                     *)

\* NoRequest and NoBound are a request and what a nonce may be bound to.
LEMMA Defaults ==
  /\ NoRequest \in Requests
  /\ NoBound \in Bounds
  /\ NoRequest.at = "idle" /\ NoRequest.reply = "none"
<1>1. (CHOOSE h \in Hosts : TRUE) \in Hosts
  BY HostsAssumption
<1>2. (CHOOSE p \in Pubkeys : TRUE) \in Pubkeys
  BY PubkeysAssumption
<1> QED
  BY <1>1, <1>2 DEF NoRequest, Requests, Stages, Kinds, Signed, NoBound, Bounds,
       Actions

\* The initial state: no requests, no challenges, no keys.
LEMMA InitIInv == Init => IInv
<1> SUFFICES ASSUME Init PROVE IInv
  OBVIOUS
<1> USE Defaults DEF Init
<1>1. TypeOK
  BY DEF TypeOK, Nonce!TypeOK, Nonce!Phases, Keys!Free
<1>2. LoopInv /\ AdmittedInv /\ StageInv
  BY DEF LoopInv, Running, AdmittedInv, StageInv
<1>3. ChallengeBuysOneEffect /\ PaidInv /\ EffectInv
  BY DEF ChallengeBuysOneEffect, PaidInv, HasPaid, EffectInv, NoEffect
<1>4. JobInv /\ KeyInv /\ RemovedInv
  BY DEF JobInv, KeyInv, RemovedInv, Keys!Free
<1> QED
  BY <1>1, <1>2, <1>3, <1>4 DEF IInv

\* Accepted challenges stay accepted.
StillAccepted ==
    /\ Nonce!TypeOK'
    /\ \A n \in Nonces : phase[n] = "accepted" => phase'[n] = "accepted"

\* Without a change of phase every accepted challenge stays accepted.
LEMMA PhaseKept == TypeOK /\ UNCHANGED phase => StillAccepted
  BY DEF TypeOK, Nonce!TypeOK, StillAccepted

\* Answering a request keeps the invariant, if no job is left with its caller.
LEMMA AnswerIInv ==
  ASSUME IInv, NEW c \in Clients, Answer(c),
         UNCHANGED <<policy, bound, key, history>>, StillAccepted,
         jobs' \subseteq Jobs,
         \A j \in jobs' : j.for # NoClient => j \in jobs /\ j.for # c
  PROVE  IInv'
<1> USE Defaults DEF IInv, Answer, StillAccepted, history
<1>1. TypeOK'
  BY DEF TypeOK
<1>2. LoopInv' /\ AdmittedInv' /\ StageInv'
  BY DEF TypeOK, LoopInv, Running, AdmittedInv, Admitted, StageInv
<1>3. ChallengeBuysOneEffect' /\ PaidInv' /\ EffectInv'
  BY DEF TypeOK, ChallengeBuysOneEffect, PaidInv, HasPaid, EffectInv
<1>4. JobInv' /\ KeyInv' /\ RemovedInv'
  BY DEF TypeOK, JobInv, KeyInv, RemovedInv, InForce
<1> QED
  BY <1>1, <1>2, <1>3, <1>4

\* A challenge that is issued or lapses keeps the invariant: nobody has paid
\* with it.
LEMMA ChallengeIInv ==
  ASSUME IInv, NEW n \in Nonces, phase[n] # "accepted",
         Nonce!TypeOK', phase'[n] # "accepted",
         \A m \in Nonces : m # n => phase'[m] = phase[m],
         NEW b \in Bounds, bound' = [bound EXCEPT ![n] = b],
         UNCHANGED <<policy, key, req, jobs, history>>
  PROVE  IInv'
<1> USE DEF IInv, history
<1>1. TypeOK'
  BY DEF TypeOK
<1>2. LoopInv' /\ AdmittedInv' /\ StageInv'
  BY DEF LoopInv, Running, AdmittedInv, Admitted, StageInv
<1>3. granted[n] = NoEffect
  BY DEF EffectInv
<1>4. PaidInv' /\ EffectInv'
  BY DEF TypeOK, PaidInv, HasPaid, EffectInv
<1>5. ChallengeBuysOneEffect'
  BY <1>3 DEF TypeOK, ChallengeBuysOneEffect, NoEffect
<1>6. JobInv' /\ KeyInv' /\ RemovedInv'
  BY DEF JobInv, KeyInv, RemovedInv, InForce
<1> QED
  BY <1>1, <1>2, <1>4, <1>5, <1>6

\* A challenge is issued: no request has paid with it yet.
LEMMA IssueChallengeIInv ==
  ASSUME IInv, NEW n \in Nonces, NEW h \in Hosts, NEW a \in Actions,
         IssueChallenge(n, h, a)
  PROVE  IInv'
<1>1. [host |-> h, action |-> a] \in Bounds
  BY DEF Bounds
<1>2. /\ phase[n] # "accepted" /\ phase'[n] = "live"
      /\ \A m \in Nonces : m # n => phase'[m] = phase[m]
      /\ Nonce!TypeOK'
  BY DEF IInv, TypeOK, IssueChallenge, Nonce!Issue, Nonce!TypeOK, Nonce!Phases
<1> QED
  BY <1>1, <1>2, ChallengeIInv DEF IssueChallenge

\* A challenge that expires was not accepted.
LEMMA ExpireIInv ==
  ASSUME IInv, NEW n \in Nonces, Expire(n)
  PROVE  IInv'
<1>1. /\ phase[n] # "accepted" /\ phase'[n] = "lapsed"
      /\ \A m \in Nonces : m # n => phase'[m] = phase[m]
      /\ Nonce!TypeOK'
  BY DEF IInv, TypeOK, Expire, Nonce!Lapse, Nonce!TypeOK, Nonce!Phases
<1> QED
  BY <1>1, Defaults, ChallengeIInv DEF Expire

\* A request moves on to another stage, and at most accepts a challenge.  What
\* the invariant asks of handlers is then asked of this one only.
LEMMA MoveIInv ==
  ASSUME IInv, NEW c \in Clients, NEW r \in Requests,
         req' = [req EXCEPT ![c] = r],
         UNCHANGED <<policy, bound, key, jobs, history>>, StillAccepted,
         req[c].at # "mint_wait", r.at # "mint_wait", r.reply = "none",
         Running(c) \/ MayRun,
         r.at # "idle",
         Admitted(r.kind),
         r.who = Nobody <=> r.kind = "authenticate",
         r.at = "body" => r.kind \in Signed \cup Admin,
         r.at = "consume" => r.kind \in Signed,
         r.at \in {"lookup", "mint"} => r.kind = "authenticate",
         r.at \in {"portal", "write"} => r.kind # "authenticate",
         r.at \in {"consume", "portal"} /\ r.kind \in Signed => r.user = r.who,
         r.at \in {"mint", "write"} => r.user \in Users,
         \/ r.at \in {"lookup", "mint"}
         \/ r.at \in {"portal", "write"} /\ r.kind \in Signed
         => /\ r.nonce \in Nonces
            /\ phase'[r.nonce] = "accepted"
            /\ granted[r.nonce] = NoEffect
            /\ RightAction(r.kind, bound[r.nonce].action),
         r.at = "mint" => <<r.user, r.pubkey>> \notin removed
  PROVE  IInv'
<1> USE DEF IInv, StillAccepted, history
<1>1. req'[c] = r /\ \A d \in Clients : d # c => req'[d] = req[d]
  BY DEF TypeOK
<1>2. TypeOK'
  BY <1>1 DEF TypeOK
<1>3. LoopInv'
  BY <1>1 DEF LoopInv, Running, MayRun
<1>4. AdmittedInv' /\ StageInv'
  BY <1>1 DEF AdmittedInv, Admitted, StageInv
<1>5. ChallengeBuysOneEffect' /\ EffectInv'
  BY DEF ChallengeBuysOneEffect, EffectInv
<1>6. PaidInv'
  BY <1>1 DEF PaidInv, HasPaid
<1>7. JobInv' /\ KeyInv' /\ RemovedInv'
  BY <1>1 DEF JobInv, KeyInv, RemovedInv, InForce
<1> QED
  BY <1>2, <1>3, <1>4, <1>5, <1>6, <1>7

\* A request arrives that has done nothing yet.
LEMMA ArriveIInv ==
  ASSUME IInv, NEW c \in Clients, NEW kind \in Kinds, NEW h \in Hosts,
         NEW who \in Users \cup {Nobody}, Arrive(c, kind, h, who)
  PROVE  IInv'
<1> DEFINE r == [req[c] EXCEPT !.at = IF kind \in Signed THEN "body" ELSE "portal",
                               !.kind = kind, !.host = h, !.who = who]
<1>0. req[c] \in Requests /\ req[c].at = "idle" /\ MayRun
  BY DEF IInv, TypeOK, Arrive
<1>1. r \in Requests
  BY <1>0 DEF Requests, Stages
<1>2. req' = [req EXCEPT ![c] = r]
  BY DEF Arrive
<1>3. /\ r.reply = "none" /\ r.at \in {"body", "portal"}
      /\ r.kind = kind /\ r.who = who
      /\ r.at = "portal" <=> kind \notin Signed
  BY <1>0 DEF IInv, StageInv, Requests
<1>4. /\ Admitted(kind) /\ (who = Nobody <=> kind = "authenticate")
      /\ UNCHANGED <<policy, stores, jobs, history>> /\ StillAccepted
  BY PhaseKept DEF Arrive, IInv, stores
<1> HIDE DEF r
<1> QED
  BY <1>0, <1>1, <1>2, <1>3, <1>4, MoveIInv DEF stores, Signed

\* The body arrives; a request that goes on has a sound event.
LEMMA BodyArrivesIInv ==
  ASSUME IInv, NEW c \in Clients, NEW n \in Nonces \cup {NoNonce},
         NEW p \in Pubkeys, NEW sound \in BOOLEAN,
         NEW target \in Users \cup {Nobody}, BodyArrives(c, n, p, sound, target)
  PROVE  IInv'
<1>0. /\ req[c] \in Requests /\ req[c].at = "body" /\ req[c].reply = "none"
      /\ req[c].kind \in Signed \cup Admin
      /\ Admitted(req[c].kind)
      /\ req[c].who = Nobody <=> req[c].kind = "authenticate"
      /\ MayRun /\ UNCHANGED <<policy, stores, jobs, history>>
  BY DEF IInv, TypeOK, AdmittedInv, StageInv, BodyArrives
<1> StillAccepted
  BY <1>0, PhaseKept DEF IInv, stores
<1>1. CASE req[c].kind \in Signed
  <2> DEFINE r == [req[c] EXCEPT !.at = "consume", !.nonce = n, !.pubkey = p,
                                 !.sound = sound, !.user = target]
  <2>1. r \in Requests /\ req' = [req EXCEPT ![c] = r]
    BY <1>0, <1>1 DEF IInv, TypeOK, Requests, Stages, BodyArrives
  <2>2. /\ r.at = "consume" /\ r.reply = "none" /\ r.kind = req[c].kind
        /\ r.who = req[c].who /\ r.user = r.who
    BY <1>0, <1>1 DEF Requests, BodyArrives
  <2> HIDE DEF r
  <2> QED
    BY <1>0, <1>1, <2>1, <2>2, MoveIInv DEF stores
<1>2. CASE req[c].kind \notin Signed
  <2> DEFINE r == [req[c] EXCEPT !.at = "write", !.pubkey = p, !.user = target]
  <2>1. r \in Requests /\ req' = [req EXCEPT ![c] = r]
    BY <1>0, <1>2 DEF IInv, TypeOK, Requests, Stages, BodyArrives
  <2>2. /\ r.at = "write" /\ r.reply = "none" /\ r.kind = req[c].kind
        /\ r.who = req[c].who /\ r.user \in Users
    BY <1>0, <1>2 DEF Requests, BodyArrives
  <2> HIDE DEF r
  <2> QED
    BY <1>0, <1>2, <2>1, <2>2, MoveIInv DEF stores, Signed
<1> QED
  BY <1>1, <1>2

\* A handler that ends, with nobody's job left behind.
LEMMA EndIInv ==
  ASSUME IInv, NEW c \in Clients, Answer(c), req[c].at # "mint_wait",
         UNCHANGED <<policy, stores, jobs, history>>
  PROVE  IInv'
<1>1. \A j \in jobs' : j.for # NoClient => j \in jobs /\ j.for # c
  BY DEF IInv, TypeOK
<1> QED
  BY <1>1, AnswerIInv, PhaseKept DEF IInv, TypeOK, stores

\* A challenge is accepted for one request, which has then paid.
LEMMA RedeemIInv ==
  ASSUME IInv, NEW c \in Clients, Redeem(c)
  PROVE  IInv'
<1> DEFINE n == req[c].nonce
           kind == req[c].kind
<1>0. /\ req[c] \in Requests /\ req[c].at = "consume" /\ req[c].reply = "none"
      /\ kind \in Signed /\ Admitted(kind) /\ req[c].user = req[c].who
      /\ req[c].who = Nobody <=> kind = "authenticate"
  BY DEF IInv, TypeOK, AdmittedInv, StageInv, Redeem
<1>1. /\ n \in Nonces /\ phase[n] = "live" /\ phase'[n] = "accepted"
      /\ StillAccepted
      /\ UNCHANGED <<policy, bound, key, jobs, history>>
  BY DEF IInv, TypeOK, Redeem, Nonce!Live, Nonce!Accept, Nonce!TypeOK,
         Nonce!Phases, StillAccepted
<1>2. granted[n] = NoEffect
  BY <1>1 DEF IInv, EffectInv
<1>3. CASE Answer(c)
  <2>1. \A j \in jobs' : j.for # NoClient => j \in jobs /\ j.for # c
    BY <1>0, <1>1 DEF IInv, TypeOK
  <2> QED
    BY <1>1, <1>3, <2>1, AnswerIInv DEF IInv, TypeOK
<1>4. ASSUME NEW stage \in {"portal", "lookup"}, Goto(c, stage),
             stage = "lookup" <=> kind = "authenticate",
             RightAction(kind, bound[n].action)
      PROVE  IInv'
  <2> DEFINE r == [req[c] EXCEPT !.at = stage]
  <2>1. r \in Requests /\ req' = [req EXCEPT ![c] = r]
    BY <1>0, <1>4 DEF IInv, TypeOK, Requests, Stages, Goto
  <2>2. /\ r.at = stage /\ r.reply = "none" /\ r.kind = kind
        /\ r.who = req[c].who /\ r.user = r.who /\ r.nonce = n
    BY <1>0, <1>4 DEF Requests
  <2>3. Running(c)
    BY <1>0 DEF Running
  <2> HIDE DEF r, n, kind
  <2> QED
    BY <1>0, <1>1, <1>2, <1>4, <2>1, <2>2, <2>3, MoveIInv DEF kind
<1>5. \/ Answer(c)
      \/ RightAction(kind, bound[n].action) /\ kind # "authenticate" /\ Goto(c, "portal")
      \/ RightAction(kind, bound[n].action) /\ kind = "authenticate" /\ Goto(c, "lookup")
  BY DEF Redeem
<1> HIDE DEF n, kind
<1> QED
  BY <1>3, <1>4, <1>5

\* The portal confirms a session, and what needed no more is done.
LEMMA PortalConfirmsIInv ==
  ASSUME IInv, NEW c \in Clients, NEW p \in Pubkeys, PortalConfirms(c, p)
  PROVE  IInv'
<1> DEFINE kind == req[c].kind
<1>0. /\ req[c] \in Requests /\ req[c].at = "portal" /\ req[c].reply = "none"
      /\ kind \in Kinds \ {"authenticate"} /\ Admitted(kind) /\ req[c].who \in Users
      /\ kind \in Signed => req[c].user = req[c].who
      /\ UNCHANGED <<policy, stores, jobs, history>>
  BY DEF IInv, TypeOK, AdmittedInv, StageInv, PortalConfirms, Requests
<1>1. Running(c) /\ StillAccepted
  BY <1>0, PhaseKept DEF Running, IInv, stores
<1>2. CASE Answer(c)
  BY <1>0, <1>2, EndIInv
<1>3. CASE kind \in Admin /\ Goto(c, "body")
  <2> DEFINE r == [req[c] EXCEPT !.at = "body"]
  <2>1. r \in Requests /\ req' = [req EXCEPT ![c] = r]
    BY <1>0, <1>3 DEF IInv, TypeOK, Requests, Stages, Goto
  <2>2. r.at = "body" /\ r.reply = "none" /\ r.kind = kind /\ r.who = req[c].who
    BY <1>0 DEF Requests
  <2> HIDE DEF r
  <2> QED
    BY <1>0, <1>1, <1>3, <2>1, <2>2, NobodyAssumption, MoveIInv DEF stores
<1>4. CASE kind \in {"unlink", "revoke"}
  <2> DEFINE r == [req[c] EXCEPT !.at = "write", !.user = req[c].who, !.pubkey = p]
  <2>1. r \in Requests /\ req' = [req EXCEPT ![c] = r]
    BY <1>0, <1>4 DEF IInv, TypeOK, Requests, Stages, PortalConfirms, Admin
  <2>2. /\ r.at = "write" /\ r.reply = "none" /\ r.kind = kind
        /\ r.who = req[c].who /\ r.user \in Users
    BY <1>0 DEF Requests
  <2> HIDE DEF r
  <2> QED
    BY <1>0, <1>1, <1>4, <2>1, <2>2, NobodyAssumption, MoveIInv DEF stores, Signed
<1>5. CASE kind \in Signed /\ Goto(c, "write")
  <2> DEFINE r == [req[c] EXCEPT !.at = "write"]
  <2>1. r \in Requests /\ req' = [req EXCEPT ![c] = r]
    BY <1>0, <1>5 DEF IInv, TypeOK, Requests, Stages, Goto
  <2>2. /\ r.at = "write" /\ r.reply = "none" /\ r.kind = kind
        /\ r.who = req[c].who /\ r.user \in Users /\ r.nonce = req[c].nonce
    BY <1>0, <1>5 DEF Requests
  <2>3. HasPaid(c)
    BY <1>0, <1>5 DEF HasPaid
  <2>4. /\ r.nonce \in Nonces
        /\ phase'[r.nonce] = "accepted"
        /\ granted[r.nonce] = NoEffect
        /\ RightAction(r.kind, bound[r.nonce].action)
    BY <1>0, <2>2, <2>3 DEF IInv, PaidInv, stores
  <2> HIDE DEF r
  <2> QED
    BY <1>0, <1>1, <2>1, <2>2, <2>4, NobodyAssumption, MoveIInv DEF stores
<1>6. \/ Answer(c)
      \/ kind \in Admin /\ Goto(c, "body")
      \/ kind \in {"unlink", "revoke"}
      \/ kind \in Signed /\ Goto(c, "write")
  BY <1>0 DEF PortalConfirms, Kinds, OwnKeys, Signed
<1> QED
  BY <1>2, <1>3, <1>4, <1>5, <1>6

\* A login reads whose pubkey it is.
LEMMA LookupIInv ==
  ASSUME IInv, NEW c \in Clients, Lookup(c)
  PROVE  IInv'
<1> DEFINE p == req[c].pubkey
<1>0. /\ req[c] \in Requests /\ req[c].at = "lookup" /\ req[c].reply = "none"
      /\ req[c].kind = "authenticate" /\ Admitted(req[c].kind)
      /\ req[c].who = Nobody
      /\ UNCHANGED <<policy, stores, jobs, history>>
  BY DEF IInv, TypeOK, AdmittedInv, StageInv, Lookup
<1>1. Running(c) /\ HasPaid(c) /\ StillAccepted
  BY <1>0, PhaseKept DEF Running, HasPaid, IInv, stores
<1>2. CASE ~key[p].enabled
  BY <1>0, <1>2, EndIInv DEF Lookup
<1>3. CASE key[p].enabled
  <2> DEFINE r == [req[c] EXCEPT !.at = "mint", !.user = key[p].user]
  <2>1. p \in Pubkeys /\ key[p].user \in Users
    BY <1>0, <1>3 DEF IInv, KeyInv, Requests
  <2>2. <<key[p].user, p>> \notin removed
    BY <1>3, <2>1 DEF IInv, RemovedInv, InForce
  <2>3. r \in Requests /\ req' = [req EXCEPT ![c] = r]
    BY <1>0, <1>3, <2>1 DEF IInv, TypeOK, Requests, Stages, Lookup
  <2>4. /\ r.at = "mint" /\ r.reply = "none" /\ r.kind = "authenticate"
        /\ r.who = Nobody /\ r.user = key[p].user /\ r.pubkey = p
        /\ r.nonce = req[c].nonce
    BY <1>0 DEF Requests
  <2>5. /\ r.nonce \in Nonces
        /\ phase'[r.nonce] = "accepted"
        /\ granted[r.nonce] = NoEffect
        /\ RightAction(r.kind, bound[r.nonce].action)
    BY <1>0, <1>1, <2>4 DEF IInv, PaidInv, stores
  <2> HIDE DEF r, p
  <2> QED
    BY <1>0, <1>1, <2>1, <2>2, <2>3, <2>4, <2>5, MoveIInv DEF stores
<1> QED
  BY <1>2, <1>3

\* The helper starts a job for the request.
LEMMA AskForSessionIInv ==
  ASSUME IInv, NEW c \in Clients, AskForSession(c)
  PROVE  IInv'
<1> USE DEF IInv, AskForSession, Goto, stores, history
<1> DEFINE job == [for |-> c, user |-> req[c].user, host |-> bound[req[c].nonce].host]
<1>1. /\ req[c] \in Requests /\ req[c].at = "mint" /\ req[c].reply = "none"
      /\ req[c].kind = "authenticate" /\ req[c].user \in Users
      /\ req[c].nonce \in Nonces
  BY DEF TypeOK, StageInv, PaidInv, HasPaid
<1>2. job \in Jobs /\ job.for = c
  BY <1>1 DEF TypeOK, Jobs, Bounds
<1>3. jobs' = jobs \cup {job} /\ \A j \in jobs : j.for # c
  BY <1>1, NoClientAssumption DEF TypeOK
<1>4. /\ req'[c].at = "mint_wait"
      /\ req'[c] = [req[c] EXCEPT !.at = "mint_wait"]
      /\ req'[c] \in Requests
      /\ \A d \in Clients : d # c => req'[d] = req[d]
  BY <1>1 DEF TypeOK, Requests, Stages
<1>5. TypeOK'
  BY <1>1, <1>2, <1>3, <1>4 DEF TypeOK, Nonce!TypeOK, Jobs, Requests
<1>6. LoopInv' /\ AdmittedInv' /\ StageInv'
  BY <1>1, <1>4 DEF LoopInv, Running, AdmittedInv, Admitted, StageInv
<1>7. ChallengeBuysOneEffect' /\ EffectInv' /\ KeyInv'
  BY DEF ChallengeBuysOneEffect, EffectInv, KeyInv
<1>8. PaidInv'
  BY <1>1, <1>4 DEF PaidInv, HasPaid
<1>9. JobInv'
  BY <1>2, <1>3 DEF JobInv
<1>10. RemovedInv'
  BY <1>1, <1>4 DEF RemovedInv, InForce
<1> QED
  BY <1>5, <1>6, <1>7, <1>8, <1>9, <1>10

\* The cookie is what the challenge was for, and the only thing.
LEMMA DeliverCookieIInv ==
  ASSUME IInv, NEW c \in Clients, DeliverCookie(c)
  PROVE  IInv'
<1> USE Defaults DEF IInv, DeliverCookie, Answer, stores
<1> DEFINE n == req[c].nonce
<1>1. /\ n \in Nonces /\ phase[n] = "accepted" /\ granted[n] = NoEffect
      /\ bound[n].action = LOGIN_ACTION
      /\ req[c].kind = "authenticate"
  BY DEF PaidInv, HasPaid, StageInv, RightAction
<1>2. /\ \A j \in jobs : j.for # c
      /\ req'[c] = NoRequest /\ \A d \in Clients : d # c => req'[d] = req[d]
  BY NoClientAssumption DEF TypeOK
<1>3. /\ granted'[n] = [session |-> 1, link |-> 0]
      /\ \A m \in Nonces : m # n => granted'[m] = granted[m]
      /\ granted' \in [Nonces -> [session : Nat, link : Nat]]
  BY <1>1 DEF TypeOK, NoEffect
<1>4. TypeOK'
  BY <1>2, <1>3 DEF TypeOK, Nonce!TypeOK
<1>5. LoopInv' /\ AdmittedInv' /\ StageInv'
  BY <1>2 DEF LoopInv, Running, AdmittedInv, Admitted, StageInv
<1>6. ASSUME NEW m \in Nonces
      PROVE  /\ granted'[m].session + granted'[m].link <= 1
             /\ granted'[m].session > 0 => bound'[m].action = LOGIN_ACTION
             /\ granted'[m].link > 0 => bound'[m].action = LINK_ACTION
  <2>1. CASE m = n
    BY <1>1, <1>3, <2>1
  <2>2. CASE m # n
    BY <1>3, <2>2 DEF ChallengeBuysOneEffect
  <2> QED
    BY <2>1, <2>2
<1>7. ChallengeBuysOneEffect' /\ EffectInv'
  BY <1>1, <1>3, <1>6 DEF ChallengeBuysOneEffect, EffectInv
<1>8. PaidInv'
  <2> SUFFICES ASSUME NEW d \in Clients, HasPaid(d)' PROVE d # c /\ HasPaid(d) /\ FALSE
    BY DEF PaidInv
  <2>1. d # c /\ HasPaid(d) /\ Running(d) /\ Running(c)
    BY <1>2 DEF HasPaid, Running
  <2> QED
    BY <2>1 DEF LoopInv
<1>9. JobInv' /\ KeyInv' /\ RemovedInv'
  BY <1>2 DEF JobInv, KeyInv, RemovedInv, InForce
<1> QED
  BY <1>4, <1>5, <1>7, <1>8, <1>9

\* The helper fails, or answers something else.
LEMMA MintErrorIInv ==
  ASSUME IInv, NEW c \in Clients, MintError(c)
  PROVE  IInv'
<1>1. \A j \in jobs' : j.for # NoClient => j \in jobs /\ j.for # c
  BY DEF IInv, TypeOK, MintError
<1> QED
  BY <1>1, AnswerIInv, PhaseKept DEF IInv, TypeOK, stores, MintError

\* The request gives up, and its job goes on for nobody.
LEMMA MintTimeoutIInv ==
  ASSUME IInv, NEW c \in Clients, MintTimeout(c)
  PROVE  IInv'
<1>1. jobs' \subseteq Jobs /\ \A j \in jobs' : j.for # NoClient => j \in jobs /\ j.for # c
  BY DEF IInv, TypeOK, MintTimeout, Orphaned, Jobs
<1>2. StillAccepted
  BY PhaseKept DEF IInv, MintTimeout, stores
<1> QED
  BY <1>1, <1>2, AnswerIInv DEF stores, MintTimeout

\* What a write may do to the bindings.
LEMMA KeyChanges ==
  ASSUME TypeOK, KeyInv, NEW u \in Users, NEW p \in Pubkeys,
         Keys!Link(u, p) \/ Keys!Add(u, p) \/ Keys!Unlink(u) \/ Keys!Revoke(u, p)
  PROVE  /\ key' \in [Pubkeys -> [user : Users \cup {Nobody}, enabled : BOOLEAN]]
         /\ KeyInv'
<1> USE DEF TypeOK, KeyInv, Keys!Binding, Keys!Revoked, Keys!Free
<1>1. CASE Keys!Link(u, p)
  BY <1>1 DEF Keys!Link
<1>2. CASE Keys!Add(u, p)
  BY <1>2 DEF Keys!Add
<1>3. CASE Keys!Unlink(u)
  BY <1>3 DEF Keys!Unlink
<1>4. CASE Keys!Revoke(u, p)
  BY <1>4 DEF Keys!Revoke
<1> QED
  BY <1>1, <1>2, <1>3, <1>4

\* A write is the link a challenge was for, or needs none; whatever it
\* removes, no login is under way to take.
LEMMA WriteIInv ==
  ASSUME IInv, NEW c \in Clients, Write(c)
  PROVE  IInv'
<1> USE Defaults DEF IInv
<1> DEFINE n == req[c].nonce
           kind == req[c].kind
           u == req[c].user
           p == req[c].pubkey
<1>1. /\ req[c] \in Requests /\ req[c].at = "write"
      /\ kind \in Kinds \ {"authenticate"} /\ u \in Users /\ p \in Pubkeys
      /\ kind \in Signed => HasPaid(c)
  BY DEF TypeOK, StageInv, Write, Requests, HasPaid
<1>2. /\ Keys!Link(u, p) \/ Keys!Add(u, p) \/ Keys!Unlink(u) \/ Keys!Revoke(u, p)
      /\ removed' = (removed \cup ToldGone(kind, u, p)) \ InForce(key')
      /\ granted' = IF kind \in Signed
                    THEN [granted EXCEPT ![n].link = @ + 1]
                    ELSE granted
      /\ UNCHANGED <<policy, phase, bound, jobs>>
      /\ req' = [req EXCEPT ![c] = NoRequest]
  BY DEF Write, Answer
<1>3. key' \in [Pubkeys -> [user : Users \cup {Nobody}, enabled : BOOLEAN]] /\ KeyInv'
  BY <1>1, <1>2, KeyChanges
<1>4. /\ \A j \in jobs : j.for # c
      /\ req'[c] = NoRequest /\ \A d \in Clients : d # c => req'[d] = req[d]
  BY <1>1, <1>2, NoClientAssumption DEF TypeOK
<1>5. ASSUME NEW d \in Clients, d # c PROVE ~Running(d)
  BY <1>1, <1>5 DEF LoopInv, Running
<1>6. ToldGone(kind, u, p) \subseteq Users \X Pubkeys
  BY <1>1 DEF ToldGone, Kinds, Signed, OwnKeys, Admin
<1>7. /\ kind \in Signed =>
            /\ n \in Nonces /\ phase[n] = "accepted"
            /\ bound[n].action = LINK_ACTION
            /\ granted'[n] = [session |-> 0, link |-> 1]
      /\ kind \notin Signed => granted' = granted
      /\ \A m \in Nonces : m # n => granted'[m] = granted[m]
      /\ granted' \in [Nonces -> [session : Nat, link : Nat]]
  BY <1>1, <1>2 DEF TypeOK, PaidInv, NoEffect, RightAction
<1>8. TypeOK'
  <2>1. removed' \subseteq Users \X Pubkeys
    BY <1>2, <1>6 DEF TypeOK
  <2> HIDE DEF n, kind, u, p
  <2> QED
    BY <1>2, <1>3, <1>4, <1>7, <2>1 DEF TypeOK, Nonce!TypeOK
<1>9. LoopInv' /\ AdmittedInv' /\ StageInv'
  BY <1>2, <1>4 DEF LoopInv, Running, AdmittedInv, Admitted, StageInv
<1>10. ASSUME NEW m \in Nonces
       PROVE  /\ granted'[m].session + granted'[m].link <= 1
              /\ granted'[m].session > 0 => bound'[m].action = LOGIN_ACTION
              /\ granted'[m].link > 0 => bound'[m].action = LINK_ACTION
              /\ granted'[m] # NoEffect => phase'[m] = "accepted"
  <2>1. CASE m = n /\ kind \in Signed
    BY <1>2, <1>7, <2>1
  <2>2. CASE m # n \/ kind \notin Signed
    BY <1>2, <1>7, <2>2 DEF ChallengeBuysOneEffect, EffectInv
  <2> QED
    BY <2>1, <2>2
<1>11. ChallengeBuysOneEffect' /\ EffectInv'
  BY <1>10 DEF ChallengeBuysOneEffect, EffectInv
<1>12. PaidInv'
  <2> SUFFICES ASSUME NEW d \in Clients, HasPaid(d)' PROVE FALSE
    BY DEF PaidInv
  <2>1. d # c /\ Running(d)
    BY <1>4 DEF HasPaid, Running
  <2> QED
    BY <1>5, <2>1
<1>13. RemovedInv'
  <2>1. removed' \cap InForce(key)' = {}
    BY <1>2 DEF InForce
  <2>2. \A d \in Clients : req'[d].at \notin {"mint", "mint_wait"}
    BY <1>4, <1>5 DEF Running
  <2> QED
    BY <2>1, <2>2 DEF RemovedInv
<1>14. JobInv'
  BY <1>2 DEF JobInv
<1> QED
  BY <1>3, <1>8, <1>9, <1>11, <1>12, <1>13, <1>14

\* The helper answers the one caller that waits for this job.
LEMMA HelperRepliesIInv ==
  ASSUME IInv, NEW j \in jobs, NEW reply \in {"token", "error"},
         HelperReplies(j, reply)
  PROVE  IInv'
<1> USE DEF IInv, HelperReplies, stores, history
<1>1. CASE j.for = NoClient
  <2>1. TypeOK'
    BY <1>1 DEF TypeOK, Nonce!TypeOK
  <2>2. LoopInv' /\ AdmittedInv' /\ StageInv' /\ JobInv'
    BY <1>1 DEF LoopInv, Running, AdmittedInv, Admitted, StageInv, JobInv
  <2>3. ChallengeBuysOneEffect' /\ EffectInv' /\ PaidInv' /\ KeyInv' /\ RemovedInv'
    BY <1>1 DEF ChallengeBuysOneEffect, EffectInv, PaidInv, HasPaid, KeyInv,
       RemovedInv, InForce
  <2> QED
    BY <2>1, <2>2, <2>3
<1>2. CASE j.for # NoClient
  <2> DEFINE c == j.for
  <2>1. /\ c \in Clients /\ req[c] \in Requests /\ req[c].at = "mint_wait"
        /\ \A k \in jobs' : k.for # c
    BY <1>2 DEF TypeOK, Jobs, JobInv
  <2>2. /\ req'[c] = [req[c] EXCEPT !.reply = reply] /\ req'[c] \in Requests
        /\ \A d \in Clients : d # c => req'[d] = req[d]
    BY <1>2, <2>1 DEF TypeOK, Requests
  <2>3. \A d \in Clients : /\ req'[d].at = req[d].at /\ req'[d].kind = req[d].kind
                           /\ req'[d].who = req[d].who /\ req'[d].user = req[d].user
                           /\ req'[d].nonce = req[d].nonce
                           /\ req'[d].pubkey = req[d].pubkey
    BY <2>1, <2>2 DEF Requests
  <2> HIDE DEF c
  <2>4. TypeOK'
    <3>1. req' \in [Clients -> Requests]
      BY <1>2, <2>2 DEF TypeOK
    <3>2. \A k \in jobs' : k.for # NoClient =>
             req'[k.for].at = "mint_wait" /\ req'[k.for].reply = "none"
      <4>1. ASSUME NEW k \in jobs', k.for # NoClient
            PROVE  k \in jobs /\ k.for \in Clients /\ k.for # c
        BY <2>1, <4>1 DEF TypeOK, Jobs
      <4> QED
        BY <2>2, <4>1 DEF TypeOK
    <3> QED
      BY <3>1, <3>2 DEF TypeOK, Nonce!TypeOK
  <2>5. LoopInv' /\ AdmittedInv'
    BY <2>3 DEF LoopInv, Running, AdmittedInv, Admitted
  <2>6. StageInv'
    <3>1. \A d \in Clients : req'[d].at # "mint_wait" => req'[d].reply = "none"
      <4>1. ASSUME NEW d \in Clients, d # c, req[d].at # "mint_wait"
            PROVE  req'[d].reply = "none"
        BY <2>2, <4>1 DEF StageInv
      <4> QED
        BY <2>1, <2>3, <4>1
    <3> HIDE DEF HelperReplies
    <3> QED
      BY <2>3, <3>1 DEF StageInv
  <2>7. ChallengeBuysOneEffect' /\ EffectInv' /\ KeyInv' /\ JobInv'
    BY DEF ChallengeBuysOneEffect, EffectInv, KeyInv, JobInv
  <2>8. PaidInv'
    BY <2>3 DEF PaidInv, HasPaid
  <2>9. RemovedInv'
    BY <2>3 DEF RemovedInv, InForce
  <2> QED
    BY <2>4, <2>5, <2>6, <2>7, <2>8, <2>9
<1> QED
  BY <1>1, <1>2

\* The administrator changes the identities from the command line.
LEMMA CliIInv ==
  ASSUME IInv, Cli
  PROVE  IInv'
<1> USE DEF IInv
<1>1. /\ removed' = removed \ InForce(key')
      /\ UNCHANGED <<policy, phase, bound, req, jobs, granted>>
  BY DEF Cli
<1>2. key' \in [Pubkeys -> [user : Users \cup {Nobody}, enabled : BOOLEAN]] /\ KeyInv'
  BY PubkeysAssumption, KeyChanges DEF Cli
<1>3. TypeOK'
  BY <1>1, <1>2 DEF TypeOK, Nonce!TypeOK
<1>4. LoopInv' /\ AdmittedInv' /\ StageInv' /\ JobInv'
  BY <1>1 DEF LoopInv, Running, AdmittedInv, Admitted, StageInv, JobInv
<1>5. ChallengeBuysOneEffect' /\ EffectInv' /\ PaidInv'
  BY <1>1 DEF ChallengeBuysOneEffect, EffectInv, PaidInv, HasPaid
<1>6. RemovedInv'
  BY <1>1 DEF RemovedInv, InForce
<1> QED
  BY <1>2, <1>3, <1>4, <1>5, <1>6

\* A restart drops the requests; challenges, identities and jobs stay.
LEMMA RestartIInv ==
  ASSUME IInv, NEW new \in Policies, Restart(new)
  PROVE  IInv'
<1> USE Defaults DEF IInv, Restart, stores, history
<1>1. /\ jobs' \subseteq Jobs /\ \A j \in jobs' : j.for = NoClient
      /\ \A c \in Clients : req'[c] = NoRequest
  BY DEF TypeOK, Jobs
<1>2. TypeOK'
  BY <1>1 DEF TypeOK, Nonce!TypeOK
<1>3. LoopInv' /\ AdmittedInv' /\ StageInv' /\ JobInv'
  BY <1>1 DEF LoopInv, Running, AdmittedInv, StageInv, JobInv
<1>4. ChallengeBuysOneEffect' /\ EffectInv' /\ PaidInv' /\ KeyInv' /\ RemovedInv'
  BY <1>1 DEF ChallengeBuysOneEffect, EffectInv, PaidInv, HasPaid, KeyInv,
     RemovedInv, InForce
<1> QED
  BY <1>2, <1>3, <1>4

\* Every step of the service and of the programs around it keeps the invariant.
LEMMA NextIInv == IInv /\ [Next]_vars => IInv'
<1> SUFFICES ASSUME IInv, [Next]_vars PROVE IInv'
  OBVIOUS
<1>1. ASSUME NEW n \in Nonces, NEW h \in Hosts, NEW a \in Actions,
             IssueChallenge(n, h, a)
      PROVE  IInv'
  BY <1>1, IssueChallengeIInv
<1>2. ASSUME NEW n \in Nonces, Expire(n) PROVE IInv'
  BY <1>2, ExpireIInv
<1>3. ASSUME NEW c \in Clients, NEW kind \in Kinds, NEW h \in Hosts,
             NEW who \in Users \cup {Nobody}, Arrive(c, kind, h, who)
      PROVE  IInv'
  BY <1>3, ArriveIInv
<1>4. ASSUME NEW c \in Clients, NEW n \in Nonces \cup {NoNonce},
             NEW p \in Pubkeys, NEW sound \in BOOLEAN,
             NEW target \in Users \cup {Nobody}, BodyArrives(c, n, p, sound, target)
      PROVE  IInv'
  BY <1>4, BodyArrivesIInv
<1>5. ASSUME NEW c \in Clients,
             Disconnect(c) \/ RefuseNonce(c) \/ PortalRefuses(c) \/ Fail(c)
      PROVE  IInv'
  <2>1. /\ Answer(c) /\ req[c].at # "mint_wait"
        /\ UNCHANGED <<policy, stores, jobs, history>>
    BY <1>5 DEF Disconnect, RefuseNonce, PortalRefuses, Fail
  <2> QED
    BY <2>1, EndIInv
<1>6. ASSUME NEW c \in Clients, Step(c) PROVE IInv'
  <2>1. CASE Redeem(c)
    BY <2>1, RedeemIInv
  <2>2. CASE \E p \in Pubkeys : PortalConfirms(c, p)
    BY <2>2, PortalConfirmsIInv
  <2>3. CASE Lookup(c)
    BY <2>3, LookupIInv
  <2>4. CASE AskForSession(c)
    BY <2>4, AskForSessionIInv
  <2>5. CASE DeliverCookie(c)
    BY <2>5, DeliverCookieIInv
  <2>6. CASE MintError(c)
    BY <2>6, MintErrorIInv
  <2>7. CASE MintTimeout(c)
    BY <2>7, MintTimeoutIInv
  <2>8. CASE Write(c)
    BY <2>8, WriteIInv
  <2> QED
    BY <1>5, <1>6, <2>1, <2>2, <2>3, <2>4, <2>5, <2>6, <2>7, <2>8 DEF Step
<1>7. ASSUME Environment PROVE IInv'
  BY <1>7, HelperRepliesIInv, CliIInv DEF Environment
<1>8. ASSUME NEW new \in Policies, Restart(new) PROVE IInv'
  BY <1>8, RestartIInv
<1>9. CASE UNCHANGED vars
  BY <1>9 DEF vars, IInv, TypeOK, Nonce!TypeOK, ChallengeBuysOneEffect, LoopInv,
     Running, AdmittedInv, Admitted, StageInv, PaidInv, HasPaid, EffectInv,
     JobInv, KeyInv, RemovedInv, InForce
<1> QED
  BY <1>1, <1>2, <1>3, <1>4, <1>5, <1>6, <1>7, <1>8, <1>9 DEF Next

\* The inductive invariant holds in every state.
THEOREM Invariance == Spec => []IInv
BY InitIInv, NextIInv, PTL DEF Spec

-----------------------------------------------------------------------------
(* The properties                                                          *)

\* The types, and that a job with a caller is the one its caller waits for.
THEOREM TypeCorrect == Spec => []TypeOK
<1>1. IInv => TypeOK
  BY DEF IInv
<1> QED
  BY <1>1, Invariance, PTL

\* A challenge pays for one session or one link of its own sort, whatever
\* requests present it, however they interleave and wherever they fail.
THEOREM ChallengeBuysOneEffectHolds == Spec => []ChallengeBuysOneEffect
<1>1. IInv => ChallengeBuysOneEffect
  BY DEF IInv
<1> QED
  BY <1>1, Invariance, PTL

\* A cookie is never delivered for a binding a page was told is gone: whoever
\* removed it had the event loop, so the login had not looked it up yet.
THEOREM RemovalBeatsLoginHolds == Spec => RemovalBeatsLogin
<1>1. ASSUME IInv, NEW c \in Clients, DeliverCookie(c)
      PROVE  <<req[c].user, req[c].pubkey>> \notin removed
  BY <1>1 DEF IInv, RemovedInv, DeliverCookie
<1>2. IInv => \A c \in Clients :
                 DeliverCookie(c) => <<req[c].user, req[c].pubkey>> \notin removed
  BY <1>1
<1>3. []IInv => RemovalBeatsLogin
  BY <1>2, PTL DEF RemovalBeatsLogin
<1> QED
  BY <1>3, Invariance, PTL

\* Nothing but an answer with a cookie or a successful write uses up what a
\* challenge may bring about.
LEMMA GrantedBy ==
  ASSUME [Next]_vars, granted' # granted
  PROVE  \E c \in Clients : DeliverCookie(c) \/ Write(c)
<1>1. ASSUME NEW c \in Clients, Step(c)
      PROVE  granted' = granted \/ DeliverCookie(c) \/ Write(c)
  BY <1>1 DEF Step, Redeem, RefuseNonce, PortalConfirms, PortalRefuses, Lookup,
     AskForSession, MintError, MintTimeout, Fail, history
<1>2. ASSUME NEW n \in Nonces, NEW h \in Hosts, NEW a \in Actions,
             IssueChallenge(n, h, a)
      PROVE  granted' = granted
  BY <1>2 DEF IssueChallenge, history
<1>3. ASSUME NEW c \in Clients, NEW kind \in Kinds, NEW h \in Hosts,
             NEW who \in Users \cup {Nobody}, Arrive(c, kind, h, who)
      PROVE  granted' = granted
  BY <1>3 DEF Arrive, history
<1>4. ASSUME NEW c \in Clients, NEW n \in Nonces \cup {NoNonce}, NEW p \in Pubkeys,
             NEW sound \in BOOLEAN, NEW target \in Users \cup {Nobody},
             BodyArrives(c, n, p, sound, target)
      PROVE  granted' = granted
  BY <1>4 DEF BodyArrives, history
<1>5. ASSUME NEW c \in Clients, Disconnect(c) PROVE granted' = granted
  BY <1>5 DEF Disconnect, history
<1>6. ASSUME Environment \/ \E new \in Policies : Restart(new)
      PROVE  granted' = granted
  BY <1>6 DEF Environment, HelperReplies, Cli, Restart, history
<1>7. ASSUME (\E n \in Nonces : Expire(n)) \/ UNCHANGED vars
      PROVE  granted' = granted
  BY <1>7 DEF vars, Expire, history
<1> QED
  BY <1>1, <1>2, <1>3, <1>4, <1>5, <1>6, <1>7 DEF Next

\* While a setting is off, no challenge brings about what it forbids, not even
\* one that was issued before.
THEOREM PauseHoldsAlways == Spec => PauseHolds
<1>1. ASSUME IInv, [Next]_vars
      PROVE  /\ ~policy.login =>
                   \A n \in Nonces : granted'[n].session = granted[n].session
             /\ ~policy.linking =>
                   \A n \in Nonces : granted'[n].link = granted[n].link
  <2>1. CASE granted' = granted
    BY <2>1
  <2>2. ASSUME NEW c \in Clients, DeliverCookie(c)
        PROVE  /\ policy.login
               /\ \A n \in Nonces : granted'[n].link = granted[n].link
    <3>1. policy.login
      BY <1>1, <2>2 DEF IInv, AdmittedInv, StageInv, Admitted, DeliverCookie
    <3> QED
      BY <1>1, <2>2, <3>1 DEF IInv, TypeOK, DeliverCookie
  <2>3. ASSUME NEW c \in Clients, Write(c)
        PROVE  /\ granted' = granted \/ policy.linking
               /\ \A n \in Nonces : granted'[n].session = granted[n].session
    <3>1. req[c].kind # "authenticate" /\ Admitted(req[c].kind)
      BY <1>1, <2>3 DEF IInv, AdmittedInv, StageInv, Write
    <3>2. /\ req[c].kind \in Signed => policy.linking
          /\ req[c].kind \notin Signed => granted' = granted
      BY <2>3, <3>1 DEF Admitted, Signed, Write
    <3> QED
      BY <1>1, <2>3, <3>2 DEF IInv, TypeOK, Write
  <2> QED
    BY <1>1, <2>1, <2>2, <2>3, GrantedBy
<1> QED
  BY <1>1, Invariance, PTL DEF PauseHolds, Spec
=============================================================================
