----------------------------- MODULE AdminPage -----------------------------
(***************************************************************************)
(* web/static/nostr-admin-page.js: the page on which administrators manage *)
(* the identities of all accounts.  Every click starts a flow, an async    *)
(* function that others may run between any two awaits of.                 *)
(*                                                                         *)
(* One account is enough: requests name theirs, and the others' only come  *)
(* and go.  An identity is known by its pubkey.  A banner is known by what *)
(* it says; every message that is not a success is an error.  Labels, and  *)
(* what is typed into the form after it was sent, are left out.            *)
(***************************************************************************)
EXTENDS Naturals, Sequences

CONSTANTS
    Flows,      \* the handlers that may be under way at once
    Keys,       \* the pubkeys
    Searches,   \* the sets of pubkeys that a search may match
    MaxTimers,  \* a bound: the timers that are pending at once
    NoKey       \* no pubkey

ASSUME SearchesAssumption == Searches \subseteq SUBSET Keys
ASSUME MaxTimersAssumption == MaxTimers \in Nat
ASSUME NoKeyAssumption == NoKey \notin Keys

VARIABLES
    view,       \* checking the session, denied, or in
    list,       \* identities, as they were last loaded
    matching,   \* the pubkeys that match the search
    revokedToo, \* the show-revoked box
    table,      \* the rows that are drawn
    banner,     \* what the banner says
    timers,     \* the successes that are to fade, in the order of their timers
    addDisabled,\* whether the form's button is disabled
    row,        \* the server's rows
    kind,       \* what a flow does
    at,         \* where a flow is
    about,      \* the pubkey it is about
    answer,     \* the list a flow was sent
    later       \* history: what about was since the flow's request was served

filter == <<matching, revokedToo>>
message == <<banner, timers>>
flow == <<kind, at, about, answer, later>>
vars == <<view, list, filter, table, message, addDisabled, row, flow>>

-----------------------------------------------------------------------------
Kinds == {"load", "rename", "revoke", "add", "replace"}
Adds == {"add", "replace"}
Stages == {"idle", "post", "answered", "load", "loaded"}
States == {"none", "active", "revoked"}
Nothing == [k \in Keys |-> "none"]

Successes == {"renamed", "revoked", "linked"}
SuccessOf(f) ==
    CASE kind[f] = "rename" -> "renamed"
      [] kind[f] = "revoke" -> "revoked"
      [] OTHER -> "linked"


Goto(f, stage) == at' = [at EXCEPT ![f] = stage]

\* renderRows.
Rows(identities, pattern, all) ==
    {k \in pattern : identities[k] \in IF all THEN {"active", "revoked"}
                                       ELSE {"active"}}
Redrawn(f) == Rows(answer[f], matching, revokedToo)

\* showBanner; a success starts a timer, which clears the banner only if it
\* still says the same.
Timers_oneAtATime(text) ==
    IF text \in Successes /\ timers = <<>> THEN <<text>> ELSE timers
Timers(text) == IF text \in Successes THEN Append(timers, text) ELSE timers
Cleared(text) == IF banner = text THEN "none" ELSE banner

ShowBanner(text) ==
    /\ banner' = text
    /\ timers' = Timers(text)

\* What GET /nostr-admin/api/identities answers with.
Served_cached == list
Served == row

\* The finally of the form's handler.
Disabled_byNone(f) == FALSE
Disabled(f) == addDisabled /\ kind[f] \notin Adds

Init ==
    /\ view = "checking"
    /\ list = Nothing
    /\ matching = Keys
    /\ revokedToo = FALSE
    /\ table = {}
    /\ banner = "none"
    /\ timers = <<>>
    /\ addDisabled = FALSE
    /\ row \in [Keys -> States]
    /\ kind = [f \in Flows |-> "load"]
    /\ at = [f \in Flows |-> "idle"]
    /\ about = [f \in Flows |-> NoKey]
    /\ answer = [f \in Flows |-> Nothing]
    /\ later = [f \in Flows |-> {}]

-----------------------------------------------------------------------------
(* Clicks                                                                  *)

\* init: the session is an administrator's, or it is not or cannot be checked.
Admit(f) ==
    /\ view = "checking"
    /\ view' = "in"
    /\ Goto(f, "load")
    /\ UNCHANGED <<list, filter, table, message, addDisabled, row, kind, about,
                   answer, later>>

Deny ==
    /\ view = "checking"
    /\ view' = "denied"
    /\ UNCHANGED <<list, filter, table, message, addDisabled, row, flow>>

Start(f, k, key, stage) ==
    /\ view = "in"
    /\ at[f] = "idle"
    /\ kind' = [kind EXCEPT ![f] = k]
    /\ about' = [about EXCEPT ![f] = key]
    /\ Goto(f, stage)
    /\ UNCHANGED <<view, list, filter, table, message, row, answer, later>>

Refresh(f) == Start(f, "load", NoKey, "load") /\ UNCHANGED addDisabled

\* Only active rows have buttons, which are never disabled.
Manage(f) ==
    /\ \E key \in table, k \in {"rename", "revoke"} :
          list[key] = "active" /\ Start(f, k, key, "post")
    /\ UNCHANGED addDisabled

EmptyLabel ==
    /\ view = "in"
    /\ \E key \in table : list[key] = "active"
    /\ ShowBanner("error")
    /\ UNCHANGED <<view, list, filter, table, addDisabled, row, flow>>

\* What the form holds is read once, here.
Submit(f) ==
    /\ ~addDisabled
    /\ \E key \in Keys, k \in Adds : Start(f, k, key, "post")
    /\ addDisabled' = TRUE

Filter ==
    /\ view = "in"
    /\ matching' \in Searches
    /\ revokedToo' \in BOOLEAN
    /\ table' = Rows(list, matching', revokedToo')
    /\ UNCHANGED <<view, list, message, addDisabled, row, flow>>

-----------------------------------------------------------------------------
(* How flows go on                                                         *)

End(f) ==
    /\ Goto(f, "idle")
    /\ kind' = [kind EXCEPT ![f] = "load"]
    /\ about' = [about EXCEPT ![f] = NoKey]
    /\ addDisabled' = Disabled(f)
    /\ answer' = [answer EXCEPT ![f] = Nothing]
    /\ later' = [later EXCEPT ![f] = {}]
    /\ UNCHANGED <<view, filter, row>>

\* No answer, or one that says no, whether or not the server did its part.
Failed(f) ==
    /\ at[f] \in {"post", "answered"}
    /\ ShowBanner("error")
    /\ End(f)
    /\ UNCHANGED <<list, table>>

Succeeded(f) ==
    /\ at[f] = "answered"
    /\ Len(timers) < MaxTimers
    /\ Goto(f, "load")
    /\ ShowBanner(SuccessOf(f))
    /\ UNCHANGED <<view, list, filter, table, addDisabled, row, kind, about,
                   answer, later>>

Reloaded(f) ==
    /\ at[f] = "loaded"
    /\ list' = answer[f]
    /\ table' = Redrawn(f)
    /\ End(f)
    /\ UNCHANGED message

\* loadIdentities catches what goes wrong in it.
NotReloaded(f) ==
    /\ at[f] \in {"load", "loaded"}
    /\ ShowBanner("error")
    /\ End(f)
    /\ UNCHANGED <<list, table>>

\* Four seconds later.
TimerFires ==
    /\ timers # <<>>
    /\ banner' = Cleared(Head(timers))
    /\ timers' = Tail(timers)
    /\ UNCHANGED <<view, list, filter, table, addDisabled, row, flow>>

-----------------------------------------------------------------------------
(* The server                                                              *)

\* add_identity refuses a pubkey that has a row, a revoked one too.
Conflict(f) ==
    /\ at[f] = "post"
    /\ kind[f] = "add"
    /\ row[about[f]] # "none"
    /\ Failed(f)

\* The row of every request that was served has another state to show.
Recorded ==
    later' = [f \in Flows |->
                 IF about[f] # NoKey
                        /\ at'[f] \in {"answered", "load", "loaded"}
                 THEN later[f] \cup {row'[about[f]]} ELSE later[f]]

After(f) ==
    CASE kind[f] = "rename" -> row
      [] kind[f] = "revoke" -> [row EXCEPT ![about[f]] = "revoked"]
      [] kind[f] = "add" -> [row EXCEPT ![about[f]] = "active"]
      [] kind[f] = "replace" -> [Nothing EXCEPT ![about[f]] = "active"]

Serve(f) ==
    /\ at[f] = "post"
    /\ kind[f] = "add" => row[about[f]] = "none"
    /\ kind[f] \in {"rename", "revoke"} => row[about[f]] = "active"
    /\ Goto(f, "answered")
    /\ row' = After(f)
    /\ Recorded
    /\ UNCHANGED <<view, list, filter, table, message, addDisabled, kind,
                   about, answer>>

ServeList(f) ==
    /\ at[f] = "load"
    /\ Goto(f, "loaded")
    /\ answer' = [answer EXCEPT ![f] = Served]
    /\ UNCHANGED <<view, list, filter, table, message, addDisabled, row, kind,
                   about, later>>

\* The account itself, the CLI or another administrator.
Elsewhere ==
    /\ \E k \in Keys :
          \/ row[k] = "none" /\ row' = [row EXCEPT ![k] = "active"]
          \/ row[k] = "active" /\ row' = [row EXCEPT ![k] = "revoked"]
          \/ row[k] # "none" /\ row' = [row EXCEPT ![k] = "none"]
    /\ UNCHANGED <<view, list, filter, table, message, addDisabled, kind, at,
                   about, answer>>
    /\ Recorded

Next ==
    \/ Deny
    \/ EmptyLabel
    \/ Filter
    \/ TimerFires
    \/ Elsewhere
    \/ \E f \in Flows :
          \/ Admit(f)
          \/ Refresh(f)
          \/ Manage(f)
          \/ Submit(f)
          \/ Failed(f)
          \/ Conflict(f)
          \/ Succeeded(f)
          \/ Reloaded(f)
          \/ NotReloaded(f)
          \/ Serve(f)
          \/ ServeList(f)

Spec == Init /\ [][Next]_vars

-----------------------------------------------------------------------------
(* Properties                                                              *)

\* Besides the types: only successes fade, and the form's button is disabled as
\* long as an identity is being added, whatever else ends meanwhile.
TypeOK ==
    /\ view \in {"checking", "denied", "in"}
    /\ list \in [Keys -> States]
    /\ matching \subseteq Keys
    /\ revokedToo \in BOOLEAN
    /\ table \subseteq Keys
    /\ banner \in Successes \cup {"none", "error"}
    /\ timers \in Seq(Successes)
    /\ addDisabled \in BOOLEAN
    /\ row \in [Keys -> States]
    /\ kind \in [Flows -> Kinds]
    /\ at \in [Flows -> Stages]
    /\ about \in [Flows -> Keys \cup {NoKey}]
    /\ answer \in [Flows -> [Keys -> States]]
    /\ later \in [Flows -> SUBSET States]
    /\ addDisabled <=> \E f \in Flows : kind[f] \in Adds

\* The timers that overlap do no harm: an error stays until another message,
\* and a success is not left standing, for a timer that will clear it is pending
\* although those of equal texts mix.
BannerClears ==
    [][/\ banner = "error" /\ banner' # "error" => banner' \in Successes
       /\ banner' \in Successes => \E i \in 1..Len(timers') :
                                       timers'[i] = banner']_vars

\* nostr-admin-page.js:160, :176, :200: the list that a change is followed by
\* has it, or what became of the identity after it, however the
\* requests of other handlers and programs are served in between.
OwnChangeShown ==
    [][\A f \in Flows :
          Reloaded(f) /\ about[f] # NoKey => list'[about[f]] \in later[f]]_vars
=============================================================================
