------------------------- MODULE AccountPage_proofs -------------------------
(***************************************************************************)
(* Proofs about AccountPage: what overlapping clicks do to the page and to *)
(* each other, for any number of clicks and of other devices' identities.  *)
(***************************************************************************)
EXTENDS AccountPage, FiniteSetTheorems, TLAPS

-----------------------------------------------------------------------------
(* The inductive invariant                                                 *)

\* A button that is disabled has a flow that will enable it.
HeldInv ==
    /\ "link" \in disabled => Linkers # {}
    /\ "reveal" \in disabled => Linkers # {} \/ \E f \in Busy : kind[f] = "reveal"
    /\ "unlink" \in disabled => \E f \in Busy : kind[f] = "unlink"

\* As long as no restore joins it, a flow that links keeps others out.
AloneInv ==
    ~joined => /\ \A f, g \in Linkers : f = g
               /\ Linkers # {} => "link" \in disabled

\* One can choose to add only to identities that are shown.
ModeInv == linkMode = "add" => list # {}

\* Where a flow is, and the signer it has.
StageInv(f) ==
    /\ f \notin Busy => kind[f] = NoKind
    /\ kind[f] = "reveal" => at[f] \in {"unused", "connect", "done"}
    /\ at[f] = "sign" => kind[f] \in Linking
    /\ f \in open => f \in Linkers /\ at[f] # "connect"
    /\ f \in adding => at[f] \in {"post", "answered", "load", "loaded"}

\* The choice a flow was started with is the one that is shown until it posts.
Deciding(f) == f \in Linkers /\ at[f] \in {"connect", "sign"}
AskedInv(f) ==
    /\ f \in asked => Deciding(f)
    /\ Deciding(f) /\ ~joined => (f \in asked <=> linkMode = "add")

\* What a flow links has a row only once the server has answered it, and what
\* it removes is gone from then on.
Changed(f) == at[f] \in {"answered", "load", "loaded"}
RowInv(f) ==
    /\ row[f] # "unused" => Changed(f) \/ at[f] = "done"
    /\ Changed(f) /\ kind[f] \in Linking => row[f] # "unused"
    /\ Changed(f) /\ kind[f] # "rename" => \A i \in about[f] : row[i] = "gone"

\* The list it was sent shows it.
AnswerInv(f) ==
    at[f] = "loaded" =>
        /\ kind[f] \in Linking => f \in answer[f] \/ row[f] = "gone"
        /\ kind[f] # "rename" => answer[f] \cap about[f] = {}

FlowInv(f) == StageInv(f) /\ AskedInv(f) /\ RowInv(f) /\ AnswerInv(f)

IInv ==
    /\ TypeOK
    /\ CancelHasATarget /\ HeldInv /\ AloneInv /\ ModeInv
    /\ \A f \in Flows : FlowInv(f)

-----------------------------------------------------------------------------
(* The invariant holds                                                     *)

\* The initial state: no clicks, and identities of other devices only.
LEMMA InitIInv == Init => IInv
<1> SUFFICES ASSUME Init PROVE IInv
  OBVIOUS
<1> USE NoneAssumption DEF Init
<1>1. Busy = {} /\ Linkers = {}
  BY DEF Busy, Linkers
<1>2. TypeOK
  BY DEF TypeOK, Kinds, Stages, Ids, NoKind
<1>3. CancelHasATarget /\ HeldInv /\ AloneInv /\ ModeInv
  BY <1>1 DEF CancelHasATarget, HeldInv, AloneInv, ModeInv
<1>4. ASSUME NEW f \in Flows PROVE FlowInv(f)
  BY <1>1 DEF FlowInv, StageInv, Deciding, AskedInv, Changed, RowInv, AnswerInv
<1> QED
  BY <1>2, <1>3, <1>4 DEF IInv

\* What the kinds and the stages say of a flow.
LEMMA KindFacts ==
  /\ Linking \subseteq Kinds /\ {"qr", "restore"} \subseteq Linking
  /\ {NoKind, "unlink", "revoke", "rename"} \subseteq Kinds \ Linking
  /\ NoKind = "reveal"
BY DEF Linking, ByPasskey, Kinds, NoKind

\* A step leaves flow g where it is.
Frame(g) ==
    /\ at'[g] = at[g] /\ kind'[g] = kind[g]
    /\ about'[g] = about[g] /\ answer'[g] = answer[g]
    /\ g \in open' => g \in open
    /\ g \in adding' => g \in adding

\* Nor does it change what g was asked for.
ChoiceKept(g) ==
    /\ g \in asked' => g \in asked
    /\ joined /\ Deciding(g) => joined'
    /\ ~joined' /\ Deciding(g) =>
          \/ linkMode' = linkMode /\ (g \in asked' <=> g \in asked)
          \/ linkMode' = "replace" /\ g \notin asked'

\* What is gone stays gone, and rows appear by their own flow's request only.
RowsKept(g) ==
    /\ \A i \in Ids : row[i] = "gone" => row'[i] = "gone"
    /\ row'[g] = "unused" <=> row[g] = "unused"

\* What is known of a flow that stays where it is goes on to hold.
LEMMA FrameFlow ==
  ASSUME IInv, NEW g \in Flows, Frame(g), ChoiceKept(g), RowsKept(g)
  PROVE  FlowInv(g)'
<1> USE DEF Frame
<1>1. StageInv(g) /\ AskedInv(g) /\ RowInv(g) /\ AnswerInv(g) /\ about[g] \subseteq Ids
  BY DEF IInv, FlowInv, TypeOK
<1>2. /\ g \in Busy' <=> g \in Busy
      /\ g \in Linkers' <=> g \in Linkers
      /\ Deciding(g)' <=> Deciding(g)
      /\ Changed(g)' <=> Changed(g)
  BY DEF Busy, Linkers, Deciding, Changed
<1>3. StageInv(g)'
  BY <1>1, <1>2 DEF StageInv
<1>4. AskedInv(g)'
  BY <1>1, <1>2 DEF AskedInv, ChoiceKept
<1>5. g \in Ids
  BY DEF Ids
<1>6. RowInv(g)'
  BY <1>1, <1>2, <1>5 DEF RowInv, RowsKept
<1>7. AnswerInv(g)'
  BY <1>1, <1>5 DEF AnswerInv, RowsKept
<1> QED
  BY <1>3, <1>4, <1>6, <1>7 DEF FlowInv

-----------------------------------------------------------------------------
(* Steps of no flow                                                        *)

\* Every flow stays where it is, and no button is disabled but "restore".
LEMMA QuietIInv ==
  ASSUME IInv, TypeOK',
         UNCHANGED <<at, kind, adding, about, answer, open, joined, controller>>,
         disabled' \subseteq disabled \cup {"restore"},
         "link" \in disabled => "link" \in disabled',
         qrBox' => qrBox, ModeInv',
         \A g \in Flows : ChoiceKept(g) /\ RowsKept(g)
  PROVE  IInv'
<1> USE DEF IInv
<1>1. Busy' = Busy /\ Linkers' = Linkers
  BY DEF Busy, Linkers
<1>2. CancelHasATarget'
  BY <1>1 DEF CancelHasATarget
<1>3. HeldInv' /\ AloneInv'
  BY <1>1 DEF HeldInv, AloneInv
<1>4. ASSUME NEW g \in Flows PROVE FlowInv(g)'
  BY FrameFlow DEF Frame
<1> QED
  BY <1>2, <1>3, <1>4

\* The list is shown, and an empty one leaves nothing to add to.
LEMMA RenderFacts ==
  ASSUME IInv, NEW identities \in SUBSET Ids, Render(identities)
  PROVE  /\ view' = "in" /\ list' = identities /\ list' \subseteq Ids
         /\ linkMode' \in {"replace", "add"} /\ offered' \in BOOLEAN
         /\ asked' \subseteq asked /\ asked' \subseteq Flows
         /\ ModeInv'
         /\ \/ linkMode' = linkMode /\ asked' = asked
            \/ linkMode' = "replace" /\ asked' = {}
BY DEF IInv, TypeOK, Render, ModeFor, ModeInv

\* Rows that do not change are kept.
LEMMA SameRows == row' = row => \A g \in Flows : RowsKept(g)
BY DEF RowsKept

\* So is the choice, as long as neither it nor the history changes.
LEMMA SameChoice ==
  UNCHANGED <<asked, linkMode, joined>> => \A g \in Flows : ChoiceKept(g)
BY DEF ChoiceKept

\* The first load ends.
LEMMA OpenIInv ==
  ASSUME IInv, Open
  PROVE  IInv'
<1>1. /\ UNCHANGED <<at, kind, adding, about, answer, open, joined, qr, row, recovery,
                     keypair, storage>>
      /\ disabled' = PasskeyButtons(disabled, passkey)
  BY DEF Open
<1>2. /\ view' \in {"in", "out"} /\ list' \subseteq Ids
      /\ linkMode' \in {"replace", "add"} /\ offered' \in BOOLEAN
      /\ asked' \subseteq asked /\ ModeInv'
      /\ \/ linkMode' = linkMode /\ asked' = asked
         \/ linkMode' = "replace" /\ asked' = {}
  <2>1. CASE Render(Active)
    BY <2>1, RenderFacts DEF Active
  <2>2. CASE view' = "out" /\ UNCHANGED <<list, linkMode, asked, offered>>
    BY <2>2 DEF IInv, TypeOK, ModeInv
  <2> QED
    BY <2>1, <2>2 DEF Open
<1>3. /\ disabled' \subseteq disabled \cup {"restore"}
      /\ "link" \in disabled => "link" \in disabled'
  BY <1>1 DEF PasskeyButtons
<1>4. TypeOK'
  BY <1>1, <1>2, <1>3 DEF IInv, TypeOK, qr, storage, Buttons
<1>5. \A g \in Flows : ChoiceKept(g) /\ RowsKept(g)
  BY <1>1, <1>2, SameRows DEF ChoiceKept
<1> QED
  BY <1>1, <1>2, <1>3, <1>4, <1>5, QuietIInv DEF qr

\* The choice is offered only while no flow that links is under way.
LEMMA ChooseModeIInv ==
  ASSUME IInv, ChooseMode
  PROVE  IInv'
<1>1. /\ UNCHANGED <<view, offered, list, keypair, disabled, recovery, qr, storage,
                     open, row, flow, at>>
      /\ list # {} /\ linkMode' \in {"replace", "add"} /\ "link" \notin disabled
  BY DEF ChooseMode, ModeUsable, Usable
<1>2. TypeOK' /\ ModeInv'
  BY <1>1 DEF IInv, TypeOK, ModeInv, qr, storage, flow
<1>3. ~joined => Linkers = {}
  BY <1>1 DEF IInv, AloneInv
<1>4. \A g \in Flows : ChoiceKept(g) /\ RowsKept(g)
  BY <1>1, <1>3, SameRows DEF ChoiceKept, Deciding, flow
<1> QED
  BY <1>1, <1>2, <1>4, QuietIInv DEF qr, flow, IInv, CancelHasATarget

\* The other steps that change neither the list nor the choice.
LEMMA OtherQuietIInv ==
  ASSUME IInv,
         Generate \/ ForgetPasskey \/ HideRecovery \/ ForgetSaved \/ ClickCancel
            \/ Elsewhere \/ OtherTab \/ UNCHANGED vars
  PROVE  IInv'
<1>1. /\ UNCHANGED <<view, offered, linkMode, list, controller, open, flow, at>>
      /\ disabled' \in {disabled, PasskeyButtons(disabled, passkey'),
                        PasskeyButtons(disabled, passkey)}
      /\ keypair' \in BOOLEAN /\ recovery' \in BOOLEAN /\ passkey' \in BOOLEAN
      /\ saved' \subseteq {"bunker", "key"}
      /\ qrBox' \in BOOLEAN /\ (qrBox' => qrBox)
      /\ aborted' \subseteq aborted \cup ({controller} \ {None})
  <2>0. /\ keypair \in BOOLEAN /\ recovery \in BOOLEAN /\ passkey \in BOOLEAN
        /\ qrBox \in BOOLEAN /\ saved \subseteq {"bunker", "key"}
    BY DEF IInv, TypeOK
  <2> USE <2>0 DEF page, qr, storage
  <2>1. CASE Generate
    BY <2>1 DEF Generate
  <2>2. CASE ForgetPasskey
    BY <2>2 DEF ForgetPasskey
  <2>3. CASE HideRecovery
    BY <2>3 DEF HideRecovery
  <2>4. CASE ForgetSaved
    <3>1. saved' \subseteq {"bunker", "key"}
      BY <2>4 DEF ForgetSaved
    <3> QED
      BY <2>4, <3>1 DEF ForgetSaved
  <2>5. CASE ClickCancel
    BY <2>5 DEF ClickCancel, Cancelled
  <2>6. CASE Elsewhere
    BY <2>6 DEF Elsewhere
  <2>7. CASE OtherTab
    BY <2>7 DEF OtherTab
  <2>8. CASE UNCHANGED vars
    BY <2>8 DEF vars
  <2> QED
    BY <2>1, <2>2, <2>3, <2>4, <2>5, <2>6, <2>7, <2>8
<1>2. row' = row \/ Elsewhere
  BY DEF Generate, ForgetPasskey, HideRecovery, ForgetSaved, ClickCancel, OtherTab, vars
<1>3. /\ row' \in [Ids -> {"unused", "linked", "gone"}]
      /\ \A g \in Flows : RowsKept(g)
  <2>1. CASE row' = row
    BY <2>1, SameRows DEF IInv, TypeOK
  <2>2. CASE Elsewhere
    <3>1. CASE \E i \in Others :
                  row[i] = "unused" /\ row' = [row EXCEPT ![i] = "linked"]
      BY <3>1, OthersAssumption DEF RowsKept, IInv, TypeOK, Ids
    <3>2. CASE \E i \in Active : row' = Unlinked({i})
      BY <3>2 DEF RowsKept, IInv, TypeOK, Ids, Active, Unlinked
    <3> QED
      BY <2>2, <3>1, <3>2 DEF Elsewhere
  <2> QED
    BY <1>2, <2>1, <2>2
<1>4. /\ disabled' \subseteq disabled \cup {"restore"} /\ disabled' \subseteq Buttons
      /\ "link" \in disabled => "link" \in disabled'
  BY <1>1 DEF PasskeyButtons, Buttons, IInv, TypeOK
<1>5. \A i \in aborted' : i \in Flows /\ kind[i] = "qr"
  BY <1>1 DEF IInv, TypeOK, CancelHasATarget
<1>6. TypeOK' /\ ModeInv'
  BY <1>1, <1>3, <1>4, <1>5 DEF IInv, TypeOK, ModeInv, flow
<1>7. \A g \in Flows : ChoiceKept(g)
  BY <1>1, SameChoice DEF flow
<1> QED
  BY <1>1, <1>3, <1>4, <1>6, <1>7, QuietIInv DEF flow

-----------------------------------------------------------------------------
(* Steps of a flow                                                         *)

\* A click starts flow f.  Those that link disable the buttons of the others,
\* which are enabled if there is no other, unless f restores a passkey and joins it.
LEMMA StartIInv ==
  ASSUME IInv, NEW f \in Flows, NEW k \in Kinds, NEW stage \in {"connect", "sign", "post"},
         Start(f, k, stage),
         saved' \subseteq {"bunker", "key"}, recovery' \in BOOLEAN,
         about' \in [Flows -> SUBSET Ids], \A g \in Flows \ {f} : about'[g] = about[g],
         k \in Linking =>
            /\ stage # "post"
            /\ "link" \notin disabled \/ k = "restore"
            /\ disabled' = disabled \cup LinkButtons,
         k = "reveal" => stage = "connect",
         stage = "sign" => k \in Linking,
         k \notin Linking =>
            /\ disabled \subseteq disabled'
            /\ disabled' \subseteq disabled \cup ({k} \cap {"unlink", "reveal"}),
         open' = open \/ (k \in Linking /\ stage = "sign" /\ open' = open \cup {f}),
         \/ UNCHANGED <<qrBox, controller>>
         \/ k = "qr" /\ stage = "connect" /\ qrBox' = TRUE /\ controller' = f
  PROVE  IInv'
<1> USE DEF IInv
<1>1. /\ at[f] = "unused" /\ at' \in [Flows -> Stages] /\ at'[f] = stage
      /\ kind' \in [Flows -> Kinds] /\ kind'[f] = k
      /\ \A g \in Flows \ {f} : at'[g] = at[g] /\ kind'[g] = kind[g]
      /\ UNCHANGED <<view, offered, linkMode, list, keypair, aborted, passkey, row,
                     adding, answer>>
      /\ joined' = (joined \/ (k = "restore" /\ Linkers # {}))
      /\ asked' = IF linkMode = "add" /\ k \in Linking THEN asked \cup {f} ELSE asked
  BY DEF Start, Goto, TypeOK, page, Stages
<1>2. /\ f \notin Busy /\ kind[f] = NoKind /\ f \notin open /\ f \notin adding
      /\ f \notin asked /\ row[f] = "unused"
  BY <1>1 DEF FlowInv, StageInv, AskedInv, Deciding, RowInv, Changed, Busy, Linkers
<1>3. f \notin aborted /\ controller # f
  BY <1>2, KindFacts, NoneAssumption DEF TypeOK, CancelHasATarget
<1>4. /\ Busy' = Busy \cup {f}
      /\ Linkers' = IF k \in Linking THEN Linkers \cup {f} ELSE Linkers
  BY <1>1, <1>2 DEF Busy, Linkers
<1>5. TypeOK'
  <2>1. disabled' \subseteq Buttons
    BY DEF TypeOK, Buttons, LinkButtons
  <2>2. open' \subseteq Flows /\ controller' \in Flows \cup {None} /\ qrBox' \in BOOLEAN
    BY DEF TypeOK
  <2>3. asked' \subseteq Flows /\ joined' \in BOOLEAN
    BY <1>1 DEF TypeOK
  <2> QED
    BY <1>1, <1>3, <2>1, <2>2, <2>3 DEF TypeOK
<1>6. CancelHasATarget'
  BY <1>1, <1>3, <1>4, NoneAssumption DEF CancelHasATarget, TypeOK
<1>7. HeldInv'
  <2>1. \A g \in Busy : g \in Busy' /\ kind'[g] = kind[g] /\ (g \in Linkers => g \in Linkers')
    BY <1>1, <1>2, <1>4 DEF Busy
  <2>2. CASE k \in Linking
    BY <1>4, <2>1, <2>2 DEF HeldInv, LinkButtons
  <2>3. CASE k \notin Linking
    <3>1. f \in Busy' /\ kind'[f] = k
      BY <1>1, <1>4
    <3> QED
      BY <2>1, <2>3, <3>1 DEF HeldInv, Linkers
  <2> QED
    BY <2>2, <2>3
<1>8. AloneInv'
  BY <1>1, <1>4 DEF AloneInv, LinkButtons
<1>9. ModeInv'
  BY <1>1 DEF ModeInv
<1>10. FlowInv(f)'
  <2>1. StageInv(f)'
    BY <1>1, <1>2, <1>4 DEF StageInv
  <2>2. AskedInv(f)'
    <3>1. Deciding(f)' <=> k \in Linking
      BY <1>1, <1>2, <1>4 DEF Deciding, Linkers
    <3>2. f \in asked' <=> (k \in Linking /\ linkMode' = "add")
      BY <1>1, <1>2
    <3> QED
      BY <3>1, <3>2 DEF AskedInv
  <2>3. RowInv(f)' /\ AnswerInv(f)'
    BY <1>1, <1>2 DEF RowInv, Changed, AnswerInv
  <2> QED
    BY <2>1, <2>2, <2>3 DEF FlowInv
<1>11. ASSUME NEW g \in Flows \ {f} PROVE FlowInv(g)'
  <2>1. Frame(g) /\ ChoiceKept(g)
    BY <1>1 DEF Frame, ChoiceKept
  <2> QED
    BY <1>1, <2>1, SameRows, FrameFlow
<1> QED
  BY <1>5, <1>6, <1>7, <1>8, <1>9, <1>10, <1>11

\* The buttons that the end of a flow enables, and those it leaves as they are.
LEMMA EndButtons ==
  ASSUME IInv, NEW f \in Busy, End(f)
  PROVE  /\ disabled' \subseteq disabled \cup {"restore"} /\ disabled' \subseteq Buttons
         /\ kind[f] \in Linking => "link" \notin disabled' /\ "reveal" \notin disabled'
         /\ kind[f] \notin Linking /\ "link" \in disabled => "link" \in disabled'
         /\ kind[f] \in {"unlink", "reveal"} => kind[f] \notin disabled'
<1>1. kind[f] \in ByPasskey => kind[f] \in Linking
  BY DEF Linking
<1>2. CASE kind[f] \in Linking
  BY <1>2, KindFacts DEF End, Released, LinkButtons, PasskeyButtons, IInv, TypeOK, Buttons
<1>3. CASE kind[f] \notin Linking
  BY <1>1, <1>3 DEF End, Released, IInv, TypeOK, Buttons
<1> QED
  BY <1>2, <1>3

\* A flow ends, with or without the list rendered.
LEMMA EndIInv ==
  ASSUME IInv, NEW f \in Busy, End(f),
         view' \in {"in", "out", "loading"}, offered' \in BOOLEAN,
         list' \subseteq Ids, linkMode' \in {"replace", "add"}, ModeInv',
         asked' \subseteq asked, f \notin asked',
         \A g \in Flows \ {f} : ChoiceKept(g)
  PROVE  IInv'
<1> USE DEF IInv
<1>1. f \in Flows /\ kind[f] \in Kinds
  BY DEF Busy, TypeOK
<1>2. /\ at' \in [Flows -> Stages] /\ at'[f] = "done"
      /\ kind' \in [Flows -> Kinds] /\ kind'[f] = NoKind
      /\ about' \in [Flows -> SUBSET Ids]
      /\ answer' \in [Flows -> SUBSET Ids]
      /\ \A g \in Flows \ {f} : /\ at'[g] = at[g] /\ kind'[g] = kind[g]
                                /\ about'[g] = about[g] /\ answer'[g] = answer[g]
  BY <1>1, KindFacts DEF End, Goto, TypeOK, Stages
<1>3. /\ open' = open \ {f} /\ adding' = adding \ {f} /\ aborted' = aborted \ {f}
      /\ recovery' \in BOOLEAN /\ UNCHANGED <<keypair, saved, passkey, row>>
      /\ joined' = (joined /\ Linkers \ {f} # {})
      /\ controller' = IF kind[f] = "qr" THEN None ELSE controller
      /\ qrBox' = IF kind[f] \in Linking /\ (at[f] # "connect" \/ kind[f] = "qr")
                  THEN FALSE ELSE qrBox
  BY DEF End, Disposed, Dropped, BoxAfter, storage, TypeOK
<1>4. Busy' = Busy \ {f} /\ Linkers' = Linkers \ {f}
  BY <1>1, <1>2, KindFacts DEF Busy, Linkers
<1>5. TypeOK'
  <2>1. \A g \in aborted' : kind'[g] = "qr"
    BY <1>2, <1>3 DEF TypeOK
  <2>2. qrBox' \in BOOLEAN /\ controller' \in Flows \cup {None}
    BY <1>3 DEF TypeOK
  <2> QED
    BY <1>2, <1>3, <2>1, <2>2, EndButtons DEF TypeOK
<1>6. CancelHasATarget'
  <2>1. CASE controller = f
    BY <1>3, <2>1, KindFacts DEF CancelHasATarget
  <2>2. CASE controller # f
    <3>1. controller' \in {controller, None} /\ (qrBox' => qrBox)
      BY <1>3 DEF TypeOK
    <3>2. kind[f] = "qr" => ~qrBox'
      BY <1>3, KindFacts
    <3> QED
      BY <1>2, <1>3, <1>4, <2>2, <3>1, <3>2 DEF CancelHasATarget, Busy
  <2> QED
    BY <2>1, <2>2
<1>7. HeldInv'
  <2>1. \A g \in Busy \ {f} : g \in Busy' /\ kind'[g] = kind[g]
                              /\ (g \in Linkers => g \in Linkers')
    BY <1>2, <1>4 DEF Busy
  <2>2. CASE kind[f] \in Linking
    BY <2>1, <2>2, EndButtons, KindFacts DEF HeldInv
  <2>3. CASE kind[f] \notin Linking
    <3>1. Linkers' = Linkers
      BY <1>4, <2>3 DEF Linkers
    <3> QED
      BY <2>1, <2>3, <3>1, EndButtons DEF HeldInv
  <2> QED
    BY <2>2, <2>3
<1>8. AloneInv'
  <2>1. CASE Linkers' = {}
    BY <2>1 DEF AloneInv
  <2>2. CASE Linkers' # {}
    <3>1. SUFFICES ASSUME ~joined' PROVE AloneInv'
      BY DEF AloneInv
    <3>2. ~joined
      BY <1>3, <1>4, <2>2, <3>1 DEF TypeOK
    <3>3. kind[f] \notin Linking
      BY <1>4, <2>2, <3>2 DEF AloneInv, Linkers
    <3>4. "link" \in disabled /\ \A g, h \in Linkers : g = h
      BY <1>4, <2>2, <3>2 DEF AloneInv
    <3> QED
      BY <1>4, <3>3, <3>4, EndButtons DEF AloneInv
  <2> QED
    BY <2>1, <2>2
<1>9. FlowInv(f)'
  BY <1>1, <1>2, <1>3, <1>4 DEF FlowInv, StageInv, AskedInv, Deciding, RowInv, Changed,
     AnswerInv
<1>10. ASSUME NEW g \in Flows \ {f} PROVE FlowInv(g)'
  <2>1. Frame(g)
    BY <1>2, <1>3 DEF Frame
  <2> QED
    BY <1>3, <2>1, SameRows, FrameFlow
<1> QED
  BY <1>5, <1>6, <1>7, <1>8, <1>9, <1>10

\* A flow goes on; the QR flow takes its box away when it stops waiting.
LEMMA MoveIInv ==
  ASSUME IInv, TypeOK', NEW f \in Busy, NEW stage \in Stages \ {"unused", "connect", "done"},
         Goto(f, stage),
         UNCHANGED <<list, linkMode, kind, joined, controller>>,
         disabled' \subseteq disabled \cup {"restore"} \cup
                               (IF f \in Linkers THEN LinkButtons ELSE {}),
         "link" \in disabled => "link" \in disabled',
         qrBox' => qrBox /\ ~(at[f] = "connect" /\ kind[f] = "qr"),
         FlowInv(f)',
         \A g \in Flows \ {f} :
            /\ about'[g] = about[g] /\ answer'[g] = answer[g]
            /\ g \in open' => g \in open
            /\ g \in adding' => g \in adding
            /\ g \in asked' <=> g \in asked
            /\ RowsKept(g)
  PROVE  IInv'
<1> USE DEF IInv
<1>1. /\ f \in Flows /\ at'[f] = stage /\ \A g \in Flows \ {f} : at'[g] = at[g]
  BY DEF Goto, Busy, TypeOK
<1>2. Busy' = Busy /\ Linkers' = Linkers
  BY <1>1 DEF Busy, Linkers
<1>3. CancelHasATarget'
  <2>1. controller = f => kind[f] = "qr"
    BY <1>1, NoneAssumption DEF CancelHasATarget
  <2>2. CASE controller = f
    BY <2>1, <2>2, <1>2 DEF CancelHasATarget
  <2>3. CASE controller # f
    BY <1>1, <1>2, <2>3 DEF CancelHasATarget, Busy
  <2> QED
    BY <2>2, <2>3
<1>4. HeldInv' /\ AloneInv' /\ ModeInv'
  BY <1>2 DEF HeldInv, AloneInv, ModeInv, LinkButtons
<1>5. ASSUME NEW g \in Flows \ {f} PROVE FlowInv(g)'
  BY <1>1, FrameFlow DEF Frame, ChoiceKept
<1> QED
  BY <1>3, <1>4, <1>5

\* A signer is connected, and the QR flow hides its box.
LEMMA ConnectedIInv ==
  ASSUME IInv, NEW f \in Flows, Connected(f)
  PROVE  IInv'
<1>1. /\ at[f] = "connect" /\ kind[f] \in Linking /\ Goto(f, "sign")
      /\ open' = open \cup {f} /\ saved' \subseteq {"bunker", "key"}
      /\ passkey' \in BOOLEAN
      /\ qrBox' = (qrBox /\ kind[f] # "qr")
      /\ disabled' = disabled \cup LinkButtons
      /\ UNCHANGED <<view, offered, linkMode, list, keypair, recovery, controller,
                     aborted, row, kind, adding, about, answer, asked, joined>>
  BY DEF Connected, page, flow, IInv, TypeOK
<1>2. f \in Linkers /\ f \in Busy
  BY <1>1 DEF Linkers, Busy
<1>3. /\ at' \in [Flows -> Stages] /\ at'[f] = "sign"
      /\ f \in Linkers' /\ f \in Busy'
  BY <1>1 DEF Goto, Stages, IInv, TypeOK, Linkers, Busy
<1>4. TypeOK'
  BY <1>1, <1>3 DEF IInv, TypeOK, LinkButtons, Buttons
<1>5. FlowInv(f)'
  <2>1. StageInv(f) /\ AskedInv(f) /\ RowInv(f)
    BY DEF IInv, FlowInv
  <2>2. StageInv(f)' /\ AskedInv(f)'
    BY <1>1, <1>2, <1>3, <2>1, KindFacts DEF StageInv, AskedInv, Deciding
  <2>3. RowInv(f)' /\ AnswerInv(f)'
    BY <1>1, <1>3, <2>1 DEF RowInv, Changed, AnswerInv
  <2> QED
    BY <2>2, <2>3 DEF FlowInv
<1> QED
  BY <1>1, <1>2, <1>4, <1>5, SameRows, MoveIInv DEF Stages

\* What is requested is what the flow was asked for.
LEMMA PostIInv ==
  ASSUME IInv, NEW f \in Flows, Post(f)
  PROVE  IInv'
<1>1. /\ at[f] = "sign" /\ Goto(f, "post") /\ asked' = asked \ {f}
      /\ adding' \in {adding, adding \cup {f}}
      /\ UNCHANGED <<view, offered, linkMode, list, keypair, disabled, recovery, qrBox,
                     controller, aborted, saved, passkey, open, row, kind, about, answer,
                     joined>>
  BY DEF Post, page, qr, storage
<1>2. f \in Busy
  BY <1>1 DEF Busy
<1>3. at' \in [Flows -> Stages] /\ at'[f] = "post" /\ f \in Busy'
  BY <1>1 DEF Goto, Stages, IInv, TypeOK, Busy
<1>4. TypeOK'
  BY <1>1, <1>3 DEF IInv, TypeOK
<1>5. FlowInv(f)'
  BY <1>1, <1>2, <1>3 DEF IInv, FlowInv, StageInv, AskedInv, Deciding, RowInv, Changed,
     AnswerInv, Linkers
<1> QED
  BY <1>1, <1>2, <1>4, <1>5, SameRows, MoveIInv DEF Stages

\* After a success the flow loads the list.
LEMMA SucceededIInv ==
  ASSUME IInv, NEW f \in Flows, Succeeded(f)
  PROVE  IInv'
<1>1. /\ at[f] = "answered" /\ Goto(f, "load")
      /\ keypair' \in BOOLEAN /\ recovery' \in BOOLEAN /\ saved' \subseteq {"bunker", "key"}
      /\ disabled' \in {disabled, PasskeyButtons(disabled, passkey)}
      /\ UNCHANGED <<view, offered, linkMode, list, qrBox, controller, aborted, passkey,
                     open, row, kind, adding, about, answer, asked, joined>>
  BY DEF Succeeded, qr, flow, IInv, TypeOK
<1>2. f \in Busy
  BY <1>1 DEF Busy
<1>3. at' \in [Flows -> Stages] /\ at'[f] = "load" /\ f \in Busy'
  BY <1>1 DEF Goto, Stages, IInv, TypeOK, Busy
<1>4. /\ disabled' \subseteq disabled \cup {"restore"} /\ disabled' \subseteq Buttons
      /\ "link" \in disabled => "link" \in disabled'
  BY <1>1 DEF PasskeyButtons, Buttons, IInv, TypeOK
<1>5. TypeOK'
  BY <1>1, <1>3, <1>4 DEF IInv, TypeOK
<1>6. FlowInv(f)'
  BY <1>1, <1>2, <1>3 DEF IInv, FlowInv, StageInv, AskedInv, Deciding, RowInv, Changed,
     AnswerInv, Linkers
<1> QED
  BY <1>1, <1>2, <1>4, <1>5, <1>6, SameRows, MoveIInv DEF Stages

\* The list that is sent has what was linked, unless it is gone again, and
\* nothing of what is gone.
LEMMA ServeListIInv ==
  ASSUME IInv, NEW f \in Flows, ServeList(f)
  PROVE  IInv'
<1>1. /\ at[f] = "load" /\ Goto(f, "loaded") /\ answer' = [answer EXCEPT ![f] = Active]
      /\ UNCHANGED <<view, offered, linkMode, list, keypair, disabled, recovery, qrBox,
                     controller, aborted, saved, passkey, open, row, kind, adding, about,
                     asked, joined>>
  BY DEF ServeList, Served, page, qr, storage
<1>2. f \in Busy /\ f \in Ids
  BY <1>1 DEF Busy, Ids
<1>3. /\ at' \in [Flows -> Stages] /\ at'[f] = "loaded" /\ f \in Busy'
      /\ answer' \in [Flows -> SUBSET Ids] /\ answer'[f] = Active
      /\ \A g \in Flows \ {f} : answer'[g] = answer[g]
  BY <1>1 DEF Goto, Stages, IInv, TypeOK, Busy, Active
<1>4. TypeOK'
  BY <1>1, <1>3 DEF IInv, TypeOK
<1>5. StageInv(f) /\ AskedInv(f) /\ RowInv(f)
  BY DEF IInv, FlowInv
<1>6. StageInv(f)' /\ AskedInv(f)' /\ RowInv(f)'
  BY <1>1, <1>2, <1>3, <1>5 DEF StageInv, AskedInv, Deciding, RowInv, Changed, Linkers
<1>7. AnswerInv(f)'
  BY <1>1, <1>2, <1>3, <1>5 DEF RowInv, Changed, AnswerInv, Active, IInv, TypeOK
<1> QED
  BY <1>1, <1>2, <1>3, <1>4, <1>6, <1>7, SameRows, MoveIInv DEF Stages, FlowInv

\* The server's part: what a request removes is gone, what it links is linked.
LEMMA ServeIInv ==
  ASSUME IInv, NEW f \in Flows, Serve(f)
  PROVE  IInv'
<1>1. /\ at[f] = "post" /\ Goto(f, "answered")
      /\ UNCHANGED <<view, offered, linkMode, list, keypair, disabled, recovery, qrBox,
                     controller, aborted, saved, passkey, open, kind, adding, answer,
                     asked, joined>>
  BY DEF Serve, page, qr, storage
<1>2. f \in Busy /\ f \in Ids
  BY <1>1 DEF Busy, Ids
<1>3. /\ at' \in [Flows -> Stages] /\ at'[f] = "answered" /\ f \in Busy'
  BY <1>1 DEF Goto, Stages, IInv, TypeOK, Busy
<1>4. StageInv(f) /\ AskedInv(f) /\ RowInv(f) /\ row[f] = "unused"
  BY <1>1 DEF IInv, FlowInv, RowInv, Changed
<1>5. Removed(f) \subseteq Ids /\ (kind[f] \in Linking => f \notin Removed(f))
  BY <1>4, KindFacts DEF Removed, Active, IInv, TypeOK
<1>6. /\ row' \in [Ids -> {"unused", "linked", "gone"}]
      /\ \A i \in Ids : row[i] = "gone" => row'[i] = "gone"
      /\ kind[f] \in Linking => row'[f] = "linked"
      /\ kind[f] # "rename" => \A i \in Removed(f) : row'[i] = "gone"
  BY <1>2, <1>4, <1>5, KindFacts DEF Serve, Unlinked, IInv, TypeOK
<1>7. /\ about' \in [Flows -> SUBSET Ids]
      /\ kind[f] # "rename" => about'[f] = Removed(f)
      /\ \A g \in Flows \ {f} : about'[g] = about[g]
  BY <1>5 DEF Serve, IInv, TypeOK
<1>8. TypeOK'
  BY <1>1, <1>3, <1>6, <1>7 DEF IInv, TypeOK
<1>9. FlowInv(f)'
  <2>1. StageInv(f)' /\ AskedInv(f)'
    BY <1>1, <1>2, <1>3, <1>4 DEF StageInv, AskedInv, Deciding, Linkers
  <2>2. RowInv(f)' /\ AnswerInv(f)'
    BY <1>1, <1>3, <1>6, <1>7 DEF RowInv, Changed, AnswerInv
  <2> QED
    BY <2>1, <2>2 DEF FlowInv
<1>10. ASSUME NEW g \in Flows \ {f} PROVE RowsKept(g)
  <2>1. \A i \in Removed(f) : row[i] # "unused"
    <3>1. kind[f] \in Linking \cup {"unlink", "revoke", "rename"}
      BY <1>1, <1>4 DEF StageInv, Linking, ByPasskey, Kinds, IInv, TypeOK
    <3>2. kind[f] \in {"revoke", "rename"} => about[f] \subseteq Active
      BY DEF Serve
    <3> QED
      BY <3>1, <3>2, KindFacts DEF Removed, Active
  <2>2. g \in Ids /\ (row'[g] = row[g] \/ (g \in Removed(f) /\ row'[g] = "gone"))
    BY <1>2 DEF Ids, Serve, Unlinked, IInv, TypeOK
  <2> QED
    BY <1>6, <2>1, <2>2 DEF RowsKept
<1> QED
  BY <1>1, <1>2, <1>3, <1>7, <1>8, <1>9, <1>10, MoveIInv DEF Stages

\* Showing the recovery key ends its flow.
LEMMA RevealedIInv ==
  ASSUME IInv, NEW f \in Flows, Revealed(f)
  PROVE  IInv'
<1> USE DEF IInv
<1>1. /\ at[f] = "connect" /\ kind[f] = "reveal" /\ recovery' = TRUE
      /\ disabled' = disabled \ {"reveal"}
      /\ at' \in [Flows -> Stages] /\ at'[f] = "done"
      /\ \A g \in Flows \ {f} : at'[g] = at[g]
      /\ UNCHANGED <<view, offered, linkMode, list, keypair, qrBox, controller, aborted,
                     saved, passkey, open, row, kind, adding, about, answer, asked,
                     joined>>
  BY KindFacts DEF Revealed, Released, Goto, TypeOK, Stages, page, qr, storage, flow
<1>2. /\ Busy' = Busy \ {f} /\ Linkers' = Linkers /\ controller # f
      /\ f \notin Linkers
  BY <1>1, KindFacts, NoneAssumption DEF Busy, Linkers, CancelHasATarget, TypeOK
<1>3. TypeOK' /\ ModeInv'
  BY <1>1 DEF TypeOK, ModeInv
<1>4. CancelHasATarget'
  BY <1>1, <1>2 DEF CancelHasATarget, Busy
<1>5. HeldInv' /\ AloneInv'
  BY <1>1, <1>2 DEF HeldInv, AloneInv
<1>6. FlowInv(f)'
  <2>1. StageInv(f) /\ AskedInv(f) /\ RowInv(f)
    BY DEF FlowInv
  <2>2. StageInv(f)' /\ AskedInv(f)'
    BY <1>1, <1>2, <2>1, KindFacts DEF StageInv, AskedInv, Deciding
  <2>3. RowInv(f)' /\ AnswerInv(f)'
    BY <1>1, <2>1, KindFacts DEF RowInv, Changed, AnswerInv
  <2> QED
    BY <2>2, <2>3 DEF FlowInv
<1>7. ASSUME NEW g \in Flows \ {f} PROVE FlowInv(g)'
  BY <1>1, SameRows, FrameFlow DEF Frame, ChoiceKept
<1> QED
  BY <1>3, <1>4, <1>5, <1>6, <1>7

\* The flows that end as EndIInv says.
LEMMA EndsIInv ==
  ASSUME IInv, NEW f \in Flows,
         Declined(f) \/ Failed(f) \/ Reloaded(f) \/ NotReloaded(f)
  PROVE  IInv'
<1>1. f \in Busy /\ End(f) /\ joined' = (joined /\ Linkers \ {f} # {})
  BY DEF Declined, Failed, Reloaded, NotReloaded, End, Busy
<1>2. at[f] \in {"post", "answered", "load", "loaded"} => f \notin asked
  BY DEF IInv, FlowInv, AskedInv, Deciding
<1>3. CASE Declined(f) \/ Failed(f) \/ NotReloaded(f)
  <2>1. /\ view' \in {view, "out"} /\ UNCHANGED <<offered, list, linkMode>>
        /\ asked' = asked \ {f}
    BY <1>2, <1>3 DEF Declined, Failed, NotReloaded
  <2>2. \A g \in Flows \ {f} : ChoiceKept(g)
    BY <1>1, <2>1 DEF ChoiceKept, Deciding
  <2>3. ModeInv'
    BY <2>1 DEF IInv, ModeInv
  <2> QED
    BY <1>1, <2>1, <2>2, <2>3, EndIInv DEF IInv, TypeOK
<1>4. CASE Reloaded(f)
  <2>1. answer[f] \in SUBSET Ids /\ Render(answer[f]) /\ f \notin asked
    BY <1>2, <1>4 DEF Reloaded, IInv, TypeOK
  <2>2. \A g \in Flows \ {f} : ChoiceKept(g)
    BY <1>1, <2>1, RenderFacts DEF ChoiceKept, Deciding
  <2> QED
    BY <1>1, <2>1, <2>2, RenderFacts, EndIInv
<1> QED
  BY <1>3, <1>4

\* The clicks that start a flow.
LEMMA StartsIInv ==
  ASSUME IInv, NEW f \in Flows,
         LinkNip07(f) \/ UseGeneratedKey(f) \/ Connect(f) \/ ShowQr(f)
            \/ RestorePasskey(f) \/ RevealRecovery(f) \/ Unlink(f) \/ Manage(f)
  PROVE  IInv'
<1>1. /\ saved \subseteq {"bunker", "key"} /\ recovery \in BOOLEAN
      /\ about \in [Flows -> SUBSET Ids]
  BY DEF IInv, TypeOK
<1>2. {"nip07", "generated", "bunker", "unlock", "register"} \subseteq Linking
  BY DEF Linking, ByPasskey
<1> USE <1>1, <1>2, KindFacts
<1>3. CASE LinkNip07(f)
  BY <1>3, StartIInv DEF LinkNip07, Usable
<1>4. CASE UseGeneratedKey(f)
  BY <1>4, StartIInv DEF UseGeneratedKey, Usable
<1>5. CASE Connect(f)
  BY <1>5, StartIInv DEF Connect, Usable
<1>6. CASE ShowQr(f)
  BY <1>6, StartIInv DEF ShowQr, Usable
<1>7. CASE RestorePasskey(f)
  BY <1>7, StartIInv DEF RestorePasskey
<1>8. CASE RevealRecovery(f)
  BY <1>8, StartIInv DEF RevealRecovery
<1>9. CASE Unlink(f)
  BY <1>9, StartIInv DEF Unlink
<1>10. CASE Manage(f)
  <2>1. PICK i \in list : /\ Start(f, "revoke", "post") \/ Start(f, "rename", "post")
                          /\ about' = [about EXCEPT ![f] = {i}]
    BY <1>10 DEF Manage
  <2>2. about' \in [Flows -> SUBSET Ids] /\ \A g \in Flows \ {f} : about'[g] = about[g]
    BY <2>1 DEF IInv, TypeOK
  <2> QED
    BY <1>10, <2>1, <2>2, StartIInv DEF Manage
<1> QED
  BY <1>3, <1>4, <1>5, <1>6, <1>7, <1>8, <1>9, <1>10

\* Every step of the page, the server, other devices and other tabs.
LEMMA NextIInv == IInv /\ [Next]_vars => IInv'
<1> SUFFICES ASSUME IInv, [Next]_vars PROVE IInv'
  OBVIOUS
<1>1. ASSUME NEW f \in Flows, Step(f) PROVE IInv'
  BY <1>1, ConnectedIInv, RevealedIInv, PostIInv, SucceededIInv, ServeIInv, ServeListIInv,
     EndsIInv DEF Step
<1> QED
  BY <1>1, OpenIInv, ChooseModeIInv, OtherQuietIInv, StartsIInv DEF Next

\* The inductive invariant holds in every state.
THEOREM Invariance == Spec => []IInv
BY InitIInv, NextIInv, PTL DEF Spec

-----------------------------------------------------------------------------
(* The properties                                                          *)

\* The types, and that only QR flows are aborted.
THEOREM TypeCorrect == Spec => []TypeOK
<1>1. IInv => TypeOK
  BY DEF IInv
<1> QED
  BY <1>1, Invariance, PTL

\* Signers are disposed of, and buttons come back when every flow has ended.
THEOREM FlowsCleanUpHolds == Spec => []FlowsCleanUp
<1>1. IInv => FlowsCleanUp
  <2> SUFFICES ASSUME IInv PROVE FlowsCleanUp
    OBVIOUS
  <2>1. open \subseteq {f \in Linkers : at[f] # "connect"}
    BY DEF IInv, TypeOK, FlowInv, StageInv
  <2>2. Busy = {} => disabled \subseteq {"restore"}
    BY DEF IInv, TypeOK, HeldInv, Linkers, Buttons
  <2> QED
    BY <2>1, <2>2 DEF FlowsCleanUp
<1> QED
  BY <1>1, Invariance, PTL

\* While Cancel is shown there is a waiting flow for it to abort.
THEOREM CancelHasATargetHolds == Spec => []CancelHasATarget
<1>1. IInv => CancelHasATarget
  BY DEF IInv
<1> QED
  BY <1>1, Invariance, PTL

\* Flows that link exclude each other, unless a restore has joined them.
THEOREM OverlapOnlyByRestoreHolds == Spec => []OverlapOnlyByRestore
<1>1. IInv => OverlapOnlyByRestore
  <2>1. SUFFICES ASSUME IInv, ~joined PROVE Cardinality(Linkers) <= 1
    BY DEF OverlapOnlyByRestore
  <2>2. CASE Linkers = {}
    BY <2>2, FS_EmptySet
  <2>3. CASE Linkers # {}
    <3>1. PICK f \in Linkers : TRUE
      BY <2>3
    <3>2. Linkers = {f}
      BY <2>1, <3>1 DEF IInv, AloneInv
    <3> QED
      BY <3>2, FS_Singleton
  <2> QED
    BY <2>2, <2>3
<1> QED
  BY <1>1, Invariance, PTL

\* The list a change ends with shows what was linked, and nothing it removed.
THEOREM OwnChangeShownHolds == Spec => OwnChangeShown
<1>1. ASSUME IInv, NEW f \in Flows, Reloaded(f)
      PROVE  /\ kind[f] \in Linking => f \in list' \/ row[f] = "gone"
             /\ kind[f] # "rename" => list' \cap about[f] = {}
  <2>1. at[f] = "loaded" /\ list' = answer[f]
    BY <1>1 DEF Reloaded, Render
  <2> QED
    BY <1>1, <2>1 DEF IInv, FlowInv, AnswerInv
<1>2. IInv => [\A f \in Flows : Reloaded(f) =>
                  /\ kind[f] \in Linking => f \in list' \/ row[f] = "gone"
                  /\ kind[f] # "rename" => list' \cap about[f] = {}]_vars
  BY <1>1
<1>3. []IInv => OwnChangeShown
  BY <1>2, PTL DEF OwnChangeShown
<1> QED
  BY <1>3, Invariance, PTL

\* What is posted is what was asked for when the flow was started.
THEOREM LinksAsAskedHolds == Spec => LinksAsAsked
<1>1. ASSUME IInv, NEW f \in Flows, Post(f), ~joined
      PROVE  f \in adding' <=> f \in asked
  <2>1. at[f] = "sign" /\ f \notin adding /\ kind[f] \in Linking
    BY <1>1 DEF Post, IInv, FlowInv, StageInv
  <2>2. f \in adding' <=> (list # {} /\ linkMode = "add")
    BY <1>1, <2>1 DEF Post
  <2> QED
    BY <1>1, <2>1, <2>2 DEF IInv, FlowInv, AskedInv, Deciding, ModeInv, Linkers, Busy
<1>2. IInv => [\A f \in Flows :
                  Post(f) /\ ~joined => (f \in adding' <=> f \in asked)]_vars
  BY <1>1
<1>3. []IInv => LinksAsAsked
  BY <1>2, PTL DEF LinksAsAsked
<1> QED
  BY <1>3, Invariance, PTL
=============================================================================
