-------------------------- MODULE AdminPage_proofs --------------------------
(***************************************************************************)
(* Proofs about AdminPage: the form's button, banners and their timers,    *)
(* and what a reload shows, for any number of handlers, pubkeys and        *)
(* timers.                                                                 *)
(***************************************************************************)
EXTENDS AdminPage, TLAPS

-----------------------------------------------------------------------------
(* The inductive invariant                                                 *)

\* Nothing is under way before the session is checked.
CheckingInv == view = "checking" => \A f \in Flows : at[f] = "idle"

\* The form is sent once at a time.
OneFormInv == \A f, g \in Flows : kind[f] \in Adds /\ kind[g] \in Adds => f = g

\* A flow that is not under way does nothing, and one that is about a pubkey
\* has a request to make about it.
StageInv(f) ==
    /\ at[f] = "idle" => kind[f] = "load"
    /\ kind[f] = "load" <=> about[f] = NoKey
    /\ at[f] \in {"post", "answered"} => kind[f] # "load"

\* The history has every state of the pubkey since the request was served, and
\* the list that was sent is of that time.
LaterInv(f) ==
    about[f] # NoKey =>
        /\ at[f] \in {"answered", "load", "loaded"} => row[about[f]] \in later[f]
        /\ at[f] = "loaded" => answer[f][about[f]] \in later[f]

\* A success that is shown has a timer.
BannerInv == banner \in Successes => \E i \in 1..Len(timers) : timers[i] = banner

IInv ==
    /\ TypeOK
    /\ CheckingInv /\ OneFormInv /\ BannerInv
    /\ \A f \in Flows : StageInv(f) /\ LaterInv(f)

-----------------------------------------------------------------------------
(* The invariant holds                                                     *)

\* The initial state: nothing shown, nothing under way.
LEMMA InitIInv == Init => IInv
<1> SUFFICES ASSUME Init PROVE IInv
  OBVIOUS
<1> USE NoKeyAssumption DEF Init
<1>1. TypeOK
  <2>1. timers \in Seq(Successes) /\ Nothing \in [Keys -> States]
    BY DEF Nothing, States
  <2> QED
    BY <2>1 DEF TypeOK, Successes, Kinds, Stages, Adds
<1>2. CheckingInv /\ OneFormInv /\ BannerInv
  BY DEF CheckingInv, OneFormInv, BannerInv, Adds, Successes
<1>3. \A f \in Flows : StageInv(f) /\ LaterInv(f)
  BY DEF StageInv, LaterInv
<1> QED
  BY <1>1, <1>2, <1>3 DEF IInv

\* Timers are appended at the end, and the first one fires.
LEMMA TimerFacts ==
  ASSUME NEW s \in Seq(Successes)
  PROVE  /\ Len(s) \in Nat
         /\ \A text \in Successes : /\ Append(s, text) \in Seq(Successes)
                                    /\ Len(Append(s, text)) = Len(s) + 1
                                    /\ Append(s, text)[Len(s) + 1] = text
         /\ s # <<>> => /\ Head(s) \in Successes /\ Head(s) = s[1]
                        /\ Tail(s) \in Seq(Successes)
                        /\ Len(Tail(s)) = Len(s) - 1
                        /\ \A i \in 1..(Len(s) - 1) : Tail(s)[i] = s[i + 1]
OBVIOUS

\* A banner is shown: a success comes with its timer.
LEMMA ShowBannerFacts ==
  ASSUME IInv, NEW text \in Successes \cup {"error"}, ShowBanner(text)
  PROVE  /\ banner' = text /\ banner' \in Successes \cup {"none", "error"}
         /\ timers' \in Seq(Successes) /\ BannerInv'
<1>1. timers \in Seq(Successes)
  BY DEF IInv, TypeOK
<1>2. CASE text \in Successes
  <2>1. banner' = text /\ timers' = Append(timers, text)
    BY <1>2 DEF ShowBanner, Timers
  <2>2. /\ timers' \in Seq(Successes) /\ Len(timers') = Len(timers) + 1
        /\ timers'[Len(timers) + 1] = text /\ Len(timers) \in Nat
    BY <1>1, <1>2, <2>1, TimerFacts
  <2>3. BannerInv'
    BY <2>1, <2>2 DEF BannerInv
  <2> QED
    BY <2>1, <2>2, <2>3
<1>3. CASE text = "error"
  BY <1>1, <1>3 DEF ShowBanner, Timers, Successes, BannerInv
<1> QED
  BY <1>2, <1>3

\* A timer fires: what is still shown has another one.
LEMMA TimerFiresFacts ==
  ASSUME IInv, TimerFires
  PROVE  /\ banner' \in {banner, "none"} /\ (banner = "error" => banner' = "error")
         /\ timers' \in Seq(Successes) /\ BannerInv'
<1>1. /\ timers \in Seq(Successes) /\ timers # <<>> /\ timers' = Tail(timers)
      /\ banner' = IF banner = Head(timers) THEN "none" ELSE banner
  BY DEF TimerFires, Cleared, IInv, TypeOK
<1>2. /\ Len(timers) \in Nat /\ Head(timers) \in Successes /\ Head(timers) = timers[1]
      /\ Tail(timers) \in Seq(Successes) /\ Len(Tail(timers)) = Len(timers) - 1
      /\ \A i \in 1..(Len(timers) - 1) : Tail(timers)[i] = timers[i + 1]
  BY <1>1, TimerFacts
<1>3. ASSUME banner' \in Successes
      PROVE  \E i \in 1..Len(timers') : timers'[i] = banner'
  <2>1. banner' = banner /\ banner # timers[1]
    BY <1>1, <1>2, <1>3 DEF Successes
  <2>2. PICK i \in 1..Len(timers) : timers[i] = banner
    BY <1>3, <2>1 DEF IInv, BannerInv
  <2>3. i - 1 \in 1..(Len(timers) - 1) /\ (i - 1) + 1 = i
    BY <1>2, <2>1, <2>2
  <2>4. timers'[i - 1] = timers[i]
    BY <1>1, <1>2, <2>3
  <2> QED
    BY <1>1, <1>2, <2>1, <2>2, <2>3, <2>4
<1> QED
  BY <1>1, <1>2, <1>3 DEF BannerInv, Successes

-----------------------------------------------------------------------------
(* Steps of no flow                                                        *)

\* The flows, the form and the rows stay as they are.
LEMMA QuietIInv ==
  ASSUME IInv, TypeOK', UNCHANGED <<flow, row>>, view' = "checking" => view = "checking",
         BannerInv'
  PROVE  IInv'
BY DEF IInv, flow, CheckingInv, OneFormInv, StageInv, LaterInv

LEMMA OthersQuietIInv ==
  ASSUME IInv, Deny \/ EmptyLabel \/ Filter \/ TimerFires \/ UNCHANGED vars
  PROVE  IInv'
<1> USE DEF IInv
<1>1. CASE Deny \/ Filter \/ UNCHANGED vars
  <2>1. /\ UNCHANGED <<flow, row, list, message, addDisabled>>
        /\ view' \in {view, "denied"}
        /\ matching' \subseteq Keys /\ revokedToo' \in BOOLEAN /\ table' \subseteq Keys
    <3>1. CASE Deny
      BY <3>1 DEF Deny, filter, TypeOK
    <3>2. CASE Filter
      BY <3>2, SearchesAssumption DEF Filter, Rows
    <3>3. CASE UNCHANGED vars
      BY <3>3 DEF vars, filter, TypeOK
    <3> QED
      BY <1>1, <3>1, <3>2, <3>3
  <2>2. TypeOK' /\ BannerInv'
    BY <2>1 DEF flow, message, TypeOK, BannerInv
  <2> QED
    BY <2>1, <2>2, QuietIInv
<1>2. CASE EmptyLabel
  <2>1. /\ ShowBanner("error")
        /\ UNCHANGED <<view, list, filter, table, addDisabled, row, flow>>
    BY <1>2 DEF EmptyLabel
  <2>2. TypeOK' /\ BannerInv'
    BY <2>1, ShowBannerFacts DEF flow, filter, TypeOK
  <2> QED
    BY <2>1, <2>2, QuietIInv
<1>3. CASE TimerFires
  <2>1. UNCHANGED <<view, list, filter, table, addDisabled, row, flow>>
    BY <1>3 DEF TimerFires
  <2>2. TypeOK' /\ BannerInv'
    BY <1>3, <2>1, TimerFiresFacts DEF flow, filter, TypeOK
  <2> QED
    BY <2>1, <2>2, QuietIInv
<1> QED
  BY <1>1, <1>2, <1>3

\* A flow that stays where it is, with what it has to show recorded.
LEMMA FrameFlow ==
  ASSUME IInv, NEW g \in Flows,
         at'[g] = at[g], kind'[g] = kind[g], about'[g] = about[g], answer'[g] = answer[g],
         later[g] \subseteq later'[g],
         row' = row \/ (about[g] # NoKey /\ at[g] \in {"answered", "load", "loaded"}
                           => row'[about[g]] \in later'[g])
  PROVE  StageInv(g)' /\ LaterInv(g)'
BY DEF IInv, StageInv, LaterInv

\* What Recorded adds to the history of a flow.
LEMMA RecordedFacts ==
  ASSUME IInv, row' \in [Keys -> States], Recorded
  PROVE  /\ later' \in [Flows -> SUBSET States]
         /\ \A f \in Flows :
               /\ later[f] \subseteq later'[f]
               /\ about[f] # NoKey /\ at'[f] \in {"answered", "load", "loaded"}
                     => row'[about[f]] \in later'[f]
<1>1. ASSUME NEW f \in Flows
      PROVE  /\ later'[f] = IF about[f] # NoKey /\ at'[f] \in {"answered", "load", "loaded"}
                            THEN later[f] \cup {row'[about[f]]} ELSE later[f]
             /\ later[f] \subseteq States /\ (about[f] # NoKey => about[f] \in Keys)
  BY DEF Recorded, IInv, TypeOK
<1>2. ASSUME NEW f \in Flows PROVE later'[f] \in SUBSET States
  <2>1. CASE about[f] = NoKey
    BY <1>1, <2>1
  <2>2. CASE about[f] # NoKey
    <3>1. row'[about[f]] \in States
      BY <1>1, <2>2
    <3> QED
      BY <1>1, <3>1
  <2> QED
    BY <2>1, <2>2
<1>3. later' \in [Flows -> SUBSET States]
  BY <1>2 DEF Recorded
<1> QED
  BY <1>1, <1>3

\* Other programs change a row, which the history of the flows about it has.
LEMMA ElsewhereIInv ==
  ASSUME IInv, Elsewhere
  PROVE  IInv'
<1> USE DEF IInv
<1>1. /\ UNCHANGED <<view, list, filter, table, message, addDisabled, kind, at, about,
                     answer>>
      /\ Recorded
  BY DEF Elsewhere
<1>2. row' \in [Keys -> States]
  BY DEF Elsewhere, TypeOK, States
<1>3. TypeOK'
  BY <1>1, <1>2, RecordedFacts DEF TypeOK, filter, message
<1>4. CheckingInv' /\ OneFormInv' /\ BannerInv'
  BY <1>1 DEF CheckingInv, OneFormInv, BannerInv, message
<1>5. ASSUME NEW f \in Flows PROVE StageInv(f)' /\ LaterInv(f)'
  BY <1>1, <1>2, RecordedFacts, FrameFlow
<1> QED
  BY <1>3, <1>4, <1>5

-----------------------------------------------------------------------------
(* Steps of a flow                                                         *)

\* A click starts a flow; the form's only while its button is enabled.
LEMMA StartIInv ==
  ASSUME IInv, NEW f \in Flows, NEW k \in Kinds, NEW key \in Keys \cup {NoKey},
         NEW stage \in {"load", "post"}, Start(f, k, key, stage),
         k = "load" <=> key = NoKey, k = "load" <=> stage = "load",
         k \in Adds => ~addDisabled,
         addDisabled' = (addDisabled \/ k \in Adds)
  PROVE  IInv'
<1> USE DEF IInv
<1>1. /\ view = "in" /\ at[f] = "idle" /\ kind[f] = "load"
      /\ at' \in [Flows -> Stages] /\ at'[f] = stage
      /\ kind' \in [Flows -> Kinds] /\ kind'[f] = k
      /\ about' \in [Flows -> Keys \cup {NoKey}] /\ about'[f] = key
      /\ \A g \in Flows \ {f} : at'[g] = at[g] /\ kind'[g] = kind[g] /\ about'[g] = about[g]
      /\ UNCHANGED <<view, list, filter, table, message, row, answer, later>>
  BY DEF Start, Goto, TypeOK, Stages, StageInv
<1>2. addDisabled' <=> \E g \in Flows : kind'[g] \in Adds
  <2>1. addDisabled <=> \E g \in Flows \ {f} : kind[g] \in Adds
    BY <1>1 DEF TypeOK, Adds
  <2> QED
    BY <1>1, <2>1
<1>3. TypeOK'
  BY <1>1, <1>2 DEF TypeOK, filter, message
<1>4. OneFormInv'
  <2>1. k \in Adds => \A g \in Flows : kind[g] \notin Adds
    BY DEF TypeOK
  <2> QED
    BY <1>1, <2>1 DEF OneFormInv
<1>5. CheckingInv' /\ BannerInv'
  BY <1>1 DEF CheckingInv, BannerInv, message
<1>6. StageInv(f)' /\ LaterInv(f)'
  BY <1>1 DEF StageInv, LaterInv
<1>7. ASSUME NEW g \in Flows \ {f} PROVE StageInv(g)' /\ LaterInv(g)'
  BY <1>1, FrameFlow
<1> QED
  BY <1>3, <1>4, <1>5, <1>6, <1>7

\* The clicks that start a flow.
LEMMA StartsIInv ==
  ASSUME IInv, NEW f \in Flows, Refresh(f) \/ Manage(f) \/ Submit(f)
  PROVE  IInv'
<1>1. addDisabled \in BOOLEAN /\ table \subseteq Keys
  BY DEF IInv, TypeOK
<1>2. CASE Refresh(f)
  BY <1>1, <1>2, StartIInv DEF Refresh, Kinds, Adds
<1>3. CASE Manage(f)
  BY <1>1, <1>3, StartIInv, NoKeyAssumption DEF Manage, Kinds, Adds
<1>4. CASE Submit(f)
  BY <1>1, <1>4, StartIInv, NoKeyAssumption DEF Submit, Kinds, Adds
<1> QED
  BY <1>2, <1>3, <1>4

\* The first load.
LEMMA AdmitIInv ==
  ASSUME IInv, NEW f \in Flows, Admit(f)
  PROVE  IInv'
<1> USE DEF IInv
<1>1. /\ at[f] = "idle" /\ kind[f] = "load" /\ view' = "in"
      /\ at' \in [Flows -> Stages] /\ at'[f] = "load"
      /\ \A g \in Flows \ {f} : at'[g] = at[g]
      /\ UNCHANGED <<list, filter, table, message, addDisabled, row, kind, about, answer,
                     later>>
  BY DEF Admit, Goto, TypeOK, Stages, CheckingInv, StageInv
<1>2. TypeOK'
  BY <1>1 DEF TypeOK, filter, message
<1>3. CheckingInv' /\ OneFormInv' /\ BannerInv'
  BY <1>1 DEF CheckingInv, OneFormInv, BannerInv, message
<1>4. StageInv(f)' /\ LaterInv(f)'
  BY <1>1 DEF StageInv, LaterInv
<1>5. ASSUME NEW g \in Flows \ {f} PROVE StageInv(g)' /\ LaterInv(g)'
  BY <1>1, FrameFlow
<1> QED
  BY <1>2, <1>3, <1>4, <1>5

\* A flow ends; only the one that sent the form enables its button again.
LEMMA EndIInv ==
  ASSUME IInv, NEW f \in Flows, at[f] # "idle", End(f),
         list' \in [Keys -> States], table' \subseteq Keys,
         banner' \in Successes \cup {"none", "error"}, timers' \in Seq(Successes), BannerInv'
  PROVE  IInv'
<1> USE DEF IInv
<1>1. /\ at' \in [Flows -> Stages] /\ at'[f] = "idle"
      /\ kind' \in [Flows -> Kinds] /\ kind'[f] = "load"
      /\ about' \in [Flows -> Keys \cup {NoKey}] /\ about'[f] = NoKey
      /\ answer' \in [Flows -> [Keys -> States]]
      /\ later' \in [Flows -> SUBSET States]
      /\ \A g \in Flows \ {f} : /\ at'[g] = at[g] /\ kind'[g] = kind[g]
                                /\ about'[g] = about[g] /\ answer'[g] = answer[g]
                                /\ later'[g] = later[g]
      /\ addDisabled' = (addDisabled /\ kind[f] \notin Adds)
      /\ UNCHANGED <<view, filter, row>>
  <2>1. Nothing \in [Keys -> States] /\ "idle" \in Stages /\ "load" \in Kinds
    BY DEF Nothing, States, Stages, Kinds
  <2> QED
    BY <2>1 DEF End, Goto, Disabled, TypeOK
<1>2. addDisabled' <=> \E g \in Flows : kind'[g] \in Adds
  <2>1. kind'[f] \notin Adds
    BY <1>1 DEF Adds
  <2>2. CASE kind[f] \in Adds
    BY <1>1, <2>1, <2>2 DEF OneFormInv
  <2>3. CASE kind[f] \notin Adds
    BY <1>1, <2>1, <2>3 DEF TypeOK
  <2> QED
    BY <2>2, <2>3
<1>3. TypeOK'
  BY <1>1, <1>2 DEF TypeOK, filter
<1>4. CheckingInv' /\ OneFormInv'
  BY <1>1 DEF CheckingInv, OneFormInv, Adds
<1>5. StageInv(f)' /\ LaterInv(f)'
  BY <1>1 DEF StageInv, LaterInv
<1>6. ASSUME NEW g \in Flows \ {f} PROVE StageInv(g)' /\ LaterInv(g)'
  BY <1>1, FrameFlow
<1> QED
  BY <1>3, <1>4, <1>5, <1>6

\* The flows that end as EndIInv says.
LEMMA EndsIInv ==
  ASSUME IInv, NEW f \in Flows,
         Failed(f) \/ Conflict(f) \/ Reloaded(f) \/ NotReloaded(f)
  PROVE  IInv'
<1>1. at[f] # "idle" /\ End(f)
  BY DEF Failed, Conflict, Reloaded, NotReloaded
<1>2. list' \in [Keys -> States] /\ table' \subseteq Keys
  BY DEF Failed, Conflict, Reloaded, NotReloaded, Redrawn, Rows, IInv, TypeOK
<1>3. /\ banner' \in Successes \cup {"none", "error"} /\ timers' \in Seq(Successes)
      /\ BannerInv'
  <2>1. CASE Reloaded(f)
    BY <2>1 DEF Reloaded, message, IInv, TypeOK, BannerInv
  <2>2. CASE Failed(f) \/ Conflict(f) \/ NotReloaded(f)
    <3>1. ShowBanner("error")
      BY <2>2 DEF Failed, Conflict, NotReloaded
    <3> QED
      BY <3>1, ShowBannerFacts
  <2> QED
    BY <2>1, <2>2
<1> QED
  BY <1>1, <1>2, <1>3, EndIInv

\* A flow goes from a stage to the next.
LEMMA MoveIInv ==
  ASSUME IInv, TypeOK', BannerInv', NEW f \in Flows, at[f] # "idle",
         NEW stage \in {"answered", "load", "loaded"}, Goto(f, stage),
         UNCHANGED <<view, kind, about>>,
         \A g \in Flows : row' = row \/ (about[g] # NoKey
                              /\ at'[g] \in {"answered", "load", "loaded"}
                              => row'[about[g]] \in later'[g]),
         \A g \in Flows : later[g] \subseteq later'[g],
         \A g \in Flows \ {f} : answer'[g] = answer[g],
         StageInv(f)', LaterInv(f)'
  PROVE  IInv'
<1> USE DEF IInv
<1>1. \A g \in Flows \ {f} : at'[g] = at[g]
  BY DEF Goto, TypeOK
<1>2. CheckingInv' /\ OneFormInv'
  BY DEF CheckingInv, OneFormInv
<1>3. ASSUME NEW g \in Flows \ {f} PROVE StageInv(g)' /\ LaterInv(g)'
  BY <1>1, FrameFlow
<1> QED
  BY <1>2, <1>3

LEMMA SucceededIInv ==
  ASSUME IInv, NEW f \in Flows, Succeeded(f)
  PROVE  IInv'
<1>1. /\ at[f] = "answered" /\ Goto(f, "load") /\ ShowBanner(SuccessOf(f))
      /\ UNCHANGED <<view, list, filter, table, addDisabled, row, kind, about, answer,
                     later>>
      /\ at' \in [Flows -> Stages] /\ at'[f] = "load"
  BY DEF Succeeded, Goto, IInv, TypeOK, Stages
<1>2. SuccessOf(f) \in Successes
  BY DEF SuccessOf, Successes
<1>3. TypeOK' /\ BannerInv'
  BY <1>1, <1>2, ShowBannerFacts DEF filter, IInv, TypeOK
<1>4. StageInv(f)' /\ LaterInv(f)'
  BY <1>1 DEF IInv, StageInv, LaterInv
<1> QED
  BY <1>1, <1>3, <1>4, MoveIInv

\* The list that is sent has the state its flow's request left, or a later one.
LEMMA ServeListIInv ==
  ASSUME IInv, NEW f \in Flows, ServeList(f)
  PROVE  IInv'
<1>1. /\ at[f] = "load" /\ Goto(f, "loaded") /\ answer' = [answer EXCEPT ![f] = row]
      /\ UNCHANGED <<view, list, filter, table, message, addDisabled, row, kind, about,
                     later>>
  BY DEF ServeList, Served
<1>2. /\ at' \in [Flows -> Stages] /\ at'[f] = "loaded"
      /\ answer' \in [Flows -> [Keys -> States]] /\ answer'[f] = row
      /\ \A g \in Flows \ {f} : answer'[g] = answer[g]
  BY <1>1 DEF Goto, IInv, TypeOK, Stages
<1>3. TypeOK' /\ BannerInv'
  BY <1>1, <1>2 DEF filter, message, IInv, TypeOK, BannerInv
<1>4. StageInv(f)' /\ LaterInv(f)'
  BY <1>1, <1>2 DEF IInv, StageInv, LaterInv
<1> QED
  BY <1>1, <1>2, <1>3, <1>4, MoveIInv

\* A request is served, and its flow has a state to show.
LEMMA ServeIInv ==
  ASSUME IInv, NEW f \in Flows, Serve(f)
  PROVE  IInv'
<1>1. /\ at[f] = "post" /\ Goto(f, "answered") /\ row' = After(f) /\ Recorded
      /\ UNCHANGED <<view, list, filter, table, message, addDisabled, kind, about, answer>>
  BY DEF Serve
<1>2. /\ at' \in [Flows -> Stages] /\ at'[f] = "answered"
  BY <1>1 DEF Goto, IInv, TypeOK, Stages
<1>3. row' \in [Keys -> States]
  <2>1. kind[f] \in {"rename", "revoke", "add", "replace"}
    BY <1>1 DEF IInv, TypeOK, StageInv, Kinds
  <2>2. Nothing \in [Keys -> States]
    BY DEF Nothing, States
  <2> QED
    BY <1>1, <2>1, <2>2 DEF After, IInv, TypeOK, States
<1>4. TypeOK' /\ BannerInv'
  BY <1>1, <1>2, <1>3, RecordedFacts DEF filter, message, IInv, TypeOK, BannerInv
<1>5. StageInv(f)' /\ LaterInv(f)'
  BY <1>1, <1>2, <1>3, RecordedFacts DEF IInv, StageInv, LaterInv
<1> QED
  BY <1>1, <1>3, <1>4, <1>5, RecordedFacts, MoveIInv

\* Every step of the page, the server and other programs.
LEMMA NextIInv == IInv /\ [Next]_vars => IInv'
BY OthersQuietIInv, ElsewhereIInv, StartsIInv, AdmitIInv, EndsIInv, SucceededIInv,
   ServeListIInv, ServeIInv DEF Next

\* The inductive invariant holds in every state.
THEOREM Invariance == Spec => []IInv
BY InitIInv, NextIInv, PTL DEF Spec

-----------------------------------------------------------------------------
(* The properties                                                          *)

\* The types, and that the form's button is disabled exactly while it is sent.
THEOREM TypeCorrect == Spec => []TypeOK
<1>1. IInv => TypeOK
  BY DEF IInv
<1> QED
  BY <1>1, Invariance, PTL

\* Errors stay, and a success that is shown will fade.
THEOREM BannerClearsHolds == Spec => BannerClears
<1>1. ASSUME IInv, IInv', [Next]_vars
      PROVE  /\ banner = "error" /\ banner' # "error" => banner' \in Successes
             /\ banner' \in Successes => \E i \in 1..Len(timers') : timers'[i] = banner'
  <2>1. banner = "error" /\ banner' # "error" => banner' \in Successes
    <3>1. CASE TimerFires
      BY <1>1, <3>1, TimerFiresFacts
    <3>2. CASE ~TimerFires
      <4>1. banner' \in {banner, "error"} \cup Successes
        BY <1>1, <3>2 DEF Next, vars, message, Deny, EmptyLabel, Filter, Elsewhere, Admit,
           Refresh, Manage, Submit, Start, Failed, Conflict, Succeeded, SuccessOf, Successes,
           Reloaded, NotReloaded, Serve, ServeList, ShowBanner
      <4> QED
        BY <4>1
    <3> QED
      BY <3>1, <3>2
  <2> QED
    BY <1>1, <2>1 DEF IInv, BannerInv
<1>2. IInv /\ IInv' /\ [Next]_vars
         => [/\ banner = "error" /\ banner' # "error" => banner' \in Successes
             /\ banner' \in Successes => \E i \in 1..Len(timers') :
                                             timers'[i] = banner']_vars
  BY <1>1
<1>3. []IInv /\ [][Next]_vars => BannerClears
  BY <1>2, PTL DEF BannerClears
<1> QED
  BY <1>3, Invariance, PTL DEF Spec

\* The list a change ends with shows it or what came after it.
THEOREM OwnChangeShownHolds == Spec => OwnChangeShown
<1>1. ASSUME IInv, NEW f \in Flows, Reloaded(f), about[f] # NoKey
      PROVE  list'[about[f]] \in later[f]
  BY <1>1 DEF Reloaded, IInv, LaterInv
<1>2. IInv => [\A f \in Flows :
                  Reloaded(f) /\ about[f] # NoKey => list'[about[f]] \in later[f]]_vars
  BY <1>1
<1>3. []IInv => OwnChangeShown
  BY <1>2, PTL DEF OwnChangeShown
<1> QED
  BY <1>3, Invariance, PTL
=============================================================================
