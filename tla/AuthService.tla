---------------------------- MODULE AuthService ----------------------------
(***************************************************************************)
(* server.py with auth/login.py, identity/linking.py and ynh/sessions.py:  *)
(* the web service at work on its two stores, between the YunoHost portal, *)
(* the session-mint helper and the admin CLI.                              *)
(*                                                                         *)
(* The service is one asyncio process.  Its handlers call the stores, the  *)
(* portal and the helper synchronously, so they give the event loop up     *)
(* only where they await the body of a request; the other programs run     *)
(* between any two of a handler's calls.                                   *)
(*                                                                         *)
(* The stores are what OneShotNonce and AccountKeys say they are, which    *)
(* ChallengeStore and MappingStore implement.  Rows are known here by      *)
(* their pubkey; touch_identity, labels and reads are left out.  Sessions   *)
(* of the portal begin and end without the service, so the portal may      *)
(* confirm or refuse any cookie.                                           *)
(***************************************************************************)
EXTENDS Naturals

CONSTANTS
    Clients,    \* requests the service has open at the same time
    NoClient,   \* a session-mint job whose caller has gone
    Nonces,
    NoNonce,    \* the event carries no nonce, or one never issued
    Users,
    Nobody,
    Admins,     \* the members of the YunoHost group "admins"
    Pubkeys,
    Hosts,      \* values of the Host header that reach the service
    Policies    \* the settings it may be started with

ASSUME AdminsAssumption == Admins \subseteq Users
ASSUME NobodyAssumption == Nobody \notin Users
ASSUME NoNonceAssumption == NoNonce \notin Nonces
ASSUME NoClientAssumption == NoClient \notin Clients
ASSUME PubkeysAssumption == Pubkeys # {}
ASSUME HostsAssumption == Hosts # {}
ASSUME PoliciesAssumption == Policies \subseteq [login : BOOLEAN, linking : BOOLEAN]

VARIABLES
    policy,     \* allow_nostr_login, allow_identity_linking: fixed at start
    phase,      \* the challenge store
    bound,      \* the host and action a nonce was issued for
    key,        \* the mapping store
    req,        \* the request each client has open
    jobs,       \* what the session-mint helper has been asked for
    granted,    \* history: what every challenge has brought about
    removed     \* history: bindings a page was told are gone

vars == <<policy, phase, bound, key, req, jobs, granted, removed>>

Nonce == INSTANCE OneShotNonce
Keys == INSTANCE AccountKeys
            WITH Inherited <- [p \in Pubkeys |-> [user |-> Nobody, enabled |-> FALSE]]

history == <<granted, removed>>
stores == <<phase, bound, key>>

-----------------------------------------------------------------------------
(* Requests                                                                *)

LOGIN_ACTION == "yunohost-login"
LINK_ACTION == "yunohost-link"
Actions == {LOGIN_ACTION, LINK_ACTION}

Signed == {"authenticate", "link", "add"}
OwnKeys == {"link", "add", "unlink", "revoke"}
Admin == {"admin_link", "admin_add", "admin_unlink", "admin_revoke"}
Kinds == Signed \cup OwnKeys \cup Admin

Stages == {"idle", "body", "consume", "portal", "lookup", "mint", "mint_wait", "write"}

\* who: the account the request's cookie belongs to.  user: the account it
\* is about.  sound: the event verifies for the challenge its nonce names.
Requests == [at : Stages, kind : Kinds, host : Hosts, who : Users \cup {Nobody},
             nonce : Nonces \cup {NoNonce}, pubkey : Pubkeys, sound : BOOLEAN,
             user : Users \cup {Nobody}, reply : {"none", "token", "error"}]

NoRequest == [at |-> "idle", kind |-> "authenticate", host |-> CHOOSE h \in Hosts : TRUE,
              who |-> Nobody, nonce |-> NoNonce, pubkey |-> CHOOSE p \in Pubkeys : TRUE,
              sound |-> FALSE, user |-> Nobody, reply |-> "none"]

Jobs == [for : Clients \cup {NoClient}, user : Users, host : Hosts]
Bounds == [host : Hosts, action : Actions]
NoBound == [host |-> CHOOSE h \in Hosts : TRUE, action |-> LOGIN_ACTION]

Goto(c, stage) == req' = [req EXCEPT ![c].at = stage]
Answer(c) == req' = [req EXCEPT ![c] = NoRequest]

\* A handler is in the event loop unless it awaits the body.
Running(c) == req[c].at \notin {"idle", "body"}

\* Another handler may enter the loop, or be resumed in it.
MayRun_threaded == TRUE
MayRun == \A c \in Clients : ~Running(c)

\* The 403 at the top of the handlers.
Admitted_challengeOnly(kind) == kind \in {"link", "add"} => policy.linking
Admitted(kind) ==
    /\ kind = "authenticate" => policy.login
    /\ kind \in {"link", "add"} => policy.linking

\* The challenge was issued for what the handler is about to do.
RightAction_any(kind, action) == TRUE
RightAction(kind, action) ==
    action = IF kind = "authenticate" THEN LOGIN_ACTION ELSE LINK_ACTION

-----------------------------------------------------------------------------
Init ==
    /\ policy \in Policies
    /\ phase = [n \in Nonces |-> "unissued"]
    /\ bound = [n \in Nonces |-> NoBound]
    /\ key = [p \in Pubkeys |-> Keys!Free]
    /\ req = [c \in Clients |-> NoRequest]
    /\ jobs = {}
    /\ granted = [n \in Nonces |-> [session |-> 0, link |-> 0]]
    /\ removed = {}

(* GET /challenge and POST /link/challenge: one step of the loop.  The     *)
(* former hands out link challenges whatever the linking policy is.        *)
IssueChallenge(n, h, action) ==
    /\ MayRun
    /\ action = LOGIN_ACTION => policy.login
    /\ Nonce!Issue(n, {})
    /\ bound' = [bound EXCEPT ![n] = [host |-> h, action |-> action]]
    /\ UNCHANGED <<policy, key, req, jobs, history>>

\* The challenge's time runs out, or another call's purge takes it.
Expire(n) ==
    /\ Nonce!Lapse(n)
    /\ bound' = [bound EXCEPT ![n] = NoBound]
    /\ UNCHANGED <<policy, key, req, jobs, history>>

(* A request up to the first thing its handler waits for                   *)

\* Signed requests await the body first; the others ask the portal.
Arrive(c, kind, h, who) ==
    /\ req[c].at = "idle"
    /\ MayRun
    /\ Admitted(kind)
    /\ who = Nobody <=> kind = "authenticate"
    /\ req' = [req EXCEPT ![c].at = IF kind \in Signed THEN "body" ELSE "portal",
                          ![c].kind = kind, ![c].host = h, ![c].who = who]
    /\ UNCHANGED <<policy, stores, jobs, history>>

\* The body of a signed request, or of an admin's.
BodyArrives(c, n, p, sound, target) ==
    /\ req[c].at = "body"
    /\ MayRun
    /\ IF req[c].kind \in Signed
       THEN /\ target = req[c].who /\ (n = NoNonce => ~sound)
            /\ req' = [req EXCEPT ![c].at = "consume", ![c].nonce = n, ![c].pubkey = p,
                                  ![c].sound = sound, ![c].user = target]
       ELSE /\ target # Nobody /\ n = NoNonce /\ ~sound
            /\ req' = [req EXCEPT ![c].at = "write", ![c].pubkey = p, ![c].user = target]
    /\ UNCHANGED <<policy, stores, jobs, history>>

\* The client goes away before it has sent the body.
Disconnect(c) ==
    /\ req[c].at = "body"
    /\ Answer(c)
    /\ UNCHANGED <<policy, stores, jobs, history>>

(* ChallengeStore.consume and the check of the action that follows it      *)

Redeem(c) ==
    /\ req[c].at = "consume"
    /\ req[c].nonce \in Nonce!Live
    /\ LET n == req[c].nonce
           kind == req[c].kind
       IN  /\ Nonce!Accept(n)
           /\ IF ~RightAction(kind, bound[n].action)
              THEN Answer(c)
              ELSE IF kind # "authenticate"
              THEN Goto(c, "portal")
              ELSE IF req[c].sound THEN Goto(c, "lookup") ELSE Answer(c)
    /\ UNCHANGED <<policy, bound, key, jobs, history>>

\* "unknown, expired, or already-used challenge"
RefuseNonce(c) ==
    /\ req[c].at = "consume"
    /\ req[c].nonce \notin Nonce!Live
    /\ Answer(c)
    /\ UNCHANGED <<policy, stores, jobs, history>>

(* GET /me of the portal, with the request's own cookie and Host           *)

\* An admin's handler awaits the body only now, and lets others run.
PortalConfirms(c, p) ==
    /\ req[c].at = "portal"
    /\ LET kind == req[c].kind
       IN  IF kind \in Admin
           THEN /\ p = req[c].pubkey
                /\ IF req[c].who \in Admins THEN Goto(c, "body") ELSE Answer(c)
           ELSE IF kind \in {"unlink", "revoke"}
           THEN req' = [req EXCEPT ![c].at = "write", ![c].user = req[c].who,
                                   ![c].pubkey = p]
           ELSE /\ p = req[c].pubkey
                /\ IF req[c].sound THEN Goto(c, "write") ELSE Answer(c)
    /\ UNCHANGED <<policy, stores, jobs, history>>

\* The cookie is rejected, or the portal does not answer in time.
PortalRefuses(c) ==
    /\ req[c].at = "portal"
    /\ Answer(c)
    /\ UNCHANGED <<policy, stores, jobs, history>>

(* authenticate: the account, and its session                              *)

\* get_by_pubkey finds bindings in force only.
Lookup(c) ==
    /\ req[c].at = "lookup"
    /\ LET binding == key[req[c].pubkey]
       IN  IF binding.enabled
           THEN req' = [req EXCEPT ![c].at = "mint", ![c].user = binding.user]
           ELSE Answer(c)
    /\ UNCHANGED <<policy, stores, jobs, history>>

\* The session is asked for in the name of the host the challenge was for.
AskForSession(c) ==
    /\ req[c].at = "mint"
    /\ jobs' = jobs \cup {[for |-> c, user |-> req[c].user,
                           host |-> bound[req[c].nonce].host]}
    /\ Goto(c, "mint_wait")
    /\ UNCHANGED <<policy, stores, history>>

\* The response sets the cookie.
DeliverCookie(c) ==
    /\ req[c].at = "mint_wait"
    /\ req[c].reply = "token"
    /\ granted' = [granted EXCEPT ![req[c].nonce].session = @ + 1]
    /\ Answer(c)
    /\ UNCHANGED <<policy, stores, jobs, removed>>

\* 502: the helper reports an error, or closes the connection.
MintError(c) ==
    /\ req[c].at = "mint_wait"
    /\ req[c].reply = "error"
    /\ Answer(c)
    /\ UNCHANGED <<policy, stores, jobs, history>>

\* The socket's timeout.  The helper is not told, but its answer will go nowhere.
Orphaned_keep(c) == jobs
Orphaned(c) == {IF j.for = c THEN [j EXCEPT !.for = NoClient] ELSE j : j \in jobs}

TimesOut_never(c) == FALSE
TimesOut(c) == req[c].reply = "none"

MintTimeout(c) ==
    /\ req[c].at = "mint_wait"
    /\ TimesOut(c)
    /\ jobs' = Orphaned(c)
    /\ Answer(c)
    /\ UNCHANGED <<policy, stores, history>>

(* The writes to the mapping store                                         *)

InForce(bindings) == {<<bindings[p].user, p>> : p \in {q \in Pubkeys : bindings[q].enabled}}

\* What the page that gets a success may take to be gone.
ToldGone(kind, u, p) ==
    CASE kind \in {"link", "admin_link"} -> {u} \X (Pubkeys \ {p})
      [] kind \in {"unlink", "admin_unlink"} -> {u} \X Pubkeys
      [] kind \in {"revoke", "admin_revoke"} -> {<<u, p>>}
      [] kind \in {"add", "admin_add"} -> {}

Write(c) ==
    /\ req[c].at = "write"
    /\ LET kind == req[c].kind
           u == req[c].user
           p == req[c].pubkey
       IN  /\ \/ kind \in {"link", "admin_link"} /\ Keys!Link(u, p)
              \/ kind \in {"add", "admin_add"} /\ Keys!Add(u, p)
              \/ kind \in {"unlink", "admin_unlink"} /\ Keys!Unlink(u)
              \/ kind \in {"revoke", "admin_revoke"} /\ key[p].enabled /\ Keys!Revoke(u, p)
           /\ removed' = (removed \cup ToldGone(kind, u, p)) \ InForce(key')
           /\ granted' = IF kind \in Signed
                         THEN [granted EXCEPT ![req[c].nonce].link = @ + 1]
                         ELSE granted
    /\ Answer(c)
    /\ UNCHANGED <<policy, phase, bound, jobs>>

\* A 4xx for a pubkey that is taken or an identity that is not there, a 500
\* for "database is locked" or a helper that cannot be reached.
Fail(c) ==
    /\ req[c].at \in {"consume", "lookup", "mint", "write"}
    /\ Answer(c)
    /\ UNCHANGED <<policy, stores, jobs, history>>

-----------------------------------------------------------------------------
(* The other programs                                                      *)

\* mint_session_server.py: with the token a session file is made, also for a
\* caller that has gone.  The helper may fail before or after that.
HelperReplies(j, reply) ==
    /\ j \in jobs
    /\ jobs' = jobs \ {j}
    /\ req' = IF j.for = NoClient THEN req
              ELSE [req EXCEPT ![j.for].reply = reply]
    /\ UNCHANGED <<policy, stores, history>>

\* admin_cli.py: link, link --add, revoke and unlink, in a process of its own.
Cli ==
    /\ \/ \E u \in Users, p \in Pubkeys :
             Keys!Link(u, p) \/ Keys!Add(u, p) \/ Keys!Revoke(u, p)
       \/ \E u \in Users : Keys!Unlink(u)
    /\ removed' = removed \ InForce(key')
    /\ UNCHANGED <<policy, phase, bound, req, jobs, granted>>

\* The service dies or is stopped, and starts with the policy of that moment.
\* Both stores survive, and so do jobs the helper has begun.
Restart(new) ==
    /\ policy' = new
    /\ req' = [c \in Clients |-> NoRequest]
    /\ jobs' = {[j EXCEPT !.for = NoClient] : j \in jobs}
    /\ UNCHANGED <<stores, history>>

-----------------------------------------------------------------------------
\* The next call of a handler that is in the event loop.
Step(c) ==
    \/ Redeem(c)
    \/ RefuseNonce(c)
    \/ \E p \in Pubkeys : PortalConfirms(c, p)
    \/ PortalRefuses(c)
    \/ Lookup(c)
    \/ AskForSession(c)
    \/ DeliverCookie(c)
    \/ MintError(c)
    \/ MintTimeout(c)
    \/ Write(c)
    \/ Fail(c)

Environment ==
    \/ \E j \in jobs, reply \in {"token", "error"} : HelperReplies(j, reply)
    \/ Cli

Next ==
    \/ \E n \in Nonces, h \in Hosts, a \in Actions : IssueChallenge(n, h, a)
    \/ \E n \in Nonces : Expire(n)
    \/ \E c \in Clients, kind \in Kinds, h \in Hosts, who \in Users \cup {Nobody} :
          Arrive(c, kind, h, who)
    \/ \E c \in Clients, n \in Nonces \cup {NoNonce}, p \in Pubkeys, sound \in BOOLEAN,
          target \in Users \cup {Nobody} : BodyArrives(c, n, p, sound, target)
    \/ \E c \in Clients : Disconnect(c) \/ Step(c)
    \/ Environment
    \/ \E new \in Policies : Restart(new)

Spec == Init /\ [][Next]_vars

\* The service keeps being scheduled while a handler holds its event loop; the
\* portal and the helper answer or a timeout strikes.
FairSpec == Spec /\ WF_vars(\E c \in Clients : Step(c))

-----------------------------------------------------------------------------
(* Properties                                                              *)

\* Besides the types: a job with a caller is the one its caller waits for.
TypeOK ==
    /\ policy \in Policies
    /\ Nonce!TypeOK
    /\ bound \in [Nonces -> Bounds]
    /\ key \in [Pubkeys -> [user : Users \cup {Nobody}, enabled : BOOLEAN]]
    /\ req \in [Clients -> Requests]
    /\ jobs \subseteq Jobs
    /\ \A j \in jobs : j.for # NoClient =>
          req[j.for].at = "mint_wait" /\ req[j.for].reply = "none"
    /\ granted \in [Nonces -> [session : Nat, link : Nat]]
    /\ removed \subseteq Users \X Pubkeys

\* auth/challenge.py:4-6 and the action checks of login.py and linking.py: a
\* challenge pays for one session or for one link, of the sort it was issued
\* for, whatever requests present it and whatever they present it to.
ChallengeBuysOneEffect ==
    \A n \in Nonces :
        /\ granted[n].session + granted[n].link <= 1
        /\ granted[n].session > 0 => bound[n].action = LOGIN_ACTION
        /\ granted[n].link > 0 => bound[n].action = LINK_ACTION

\* Once a page has been told that an identity is gone, no login with its key
\* is answered with a cookie for that account until it is linked again: not
\* the ones that were under way either.
RemovalBeatsLogin ==
    [][\A c \in Clients :
          DeliverCookie(c) => <<req[c].user, req[c].pubkey>> \notin removed]_vars

\* config.py:24-25: an administrator can "pause Nostr login or self-service
\* linking".  Challenges issued before the pause bring nothing about in it.
PauseHolds ==
    [][/\ ~policy.login => \A n \in Nonces : granted'[n].session = granted[n].session
       /\ ~policy.linking => \A n \in Nonces : granted'[n].link = granted[n].link]_vars

\* No call keeps the event loop for ever, even if the helper never answers.
LoopReleased == ~MayRun ~> MayRun

\* auth/session.py:28-29: "`host` must be the exact `Host` header of the
\* request that reached us (the same value used as the challenge's `domain`
\* claim)".
SessionHostIsRequestHost ==
    \A c \in Clients : \A j \in jobs : j.for = c => j.host = req[c].host
=============================================================================
