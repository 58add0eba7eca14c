-------------------------- MODULE LoginPage_proofs --------------------------
(***************************************************************************)
(* Proofs about LoginPage: buttons, QR box and signers of the sign-in      *)
(* page, for any number of clicks.                                         *)
(***************************************************************************)
EXTENDS LoginPage, FiniteSetTheorems, TLAPS

-----------------------------------------------------------------------------
(* The inductive invariant                                                 *)

\* While the policy is asked for, no button has been touched.
LoadingInv == page = "loading" => enabled = Buttons

\* The controller is that of a QR flow that is under way, and the box is shown
\* only while that flow still waits for a signer; what was aborted had begun.
ControllerInv ==
    /\ \A f \in aborted : at[f] # "unused"
    /\ controller # NoFlow => controller \in Busy /\ kind[controller] = "qr"
    /\ qrBox => controller # NoFlow /\ at[controller] = "connect"

\* The flows that disable every button: not a QR flow that waits.  Without one
\* the buttons that a QR flow does not touch are enabled.
Holding == {f \in Flows : at[f] \in SigningIn \/ (at[f] = "connect" /\ kind[f] # "qr")}
HoldingInv == Live /\ Holding = {} => {"local", "passkey"} \subseteq enabled

\* As long as no QR code has been shown, a flow finds every button disabled.
NoQrYet == \A f \in Flows : at[f] # "unused" => kind[f] # "qr"
AloneInv ==
    NoQrYet => /\ \A f, g \in Busy : f = g
               /\ Busy # {} => enabled = {}

IInv ==
    /\ TypeOK
    /\ LoadingInv /\ ControllerInv /\ HoldingInv /\ AloneInv
    /\ ButtonsComeBack /\ SignersDisposed

-----------------------------------------------------------------------------
(* The invariant holds                                                     *)

\* The initial state: a page that loads, and no click.
LEMMA InitIInv == Init => IInv
<1> SUFFICES ASSUME Init PROVE IInv
  OBVIOUS
<1> USE NoFlowAssumption DEF Init
<1>1. TypeOK
  BY DEF TypeOK, Pages, Buttons, Stages
<1>2. Busy = {}
  BY DEF Busy, SigningIn
<1>3. LoadingInv /\ ControllerInv /\ HoldingInv /\ AloneInv
  BY <1>2 DEF LoadingInv, ControllerInv, HoldingInv, AloneInv, Live
<1>4. ButtonsComeBack /\ SignersDisposed
  BY DEF ButtonsComeBack, SignersDisposed, Live
<1> QED
  BY <1>1, <1>3, <1>4 DEF IInv

\* What a stage says of a flow.
LEMMA StageFacts ==
  /\ SigningIn \subseteq Stages /\ {"connect", "done", "unused"} \subseteq Stages
  /\ "connect" \notin SigningIn /\ "done" \notin SigningIn /\ "unused" \notin SigningIn
  /\ {"challenge", "sign", "post"} \subseteq SigningIn
BY DEF SigningIn, Stages

\* A click starts a flow: it disables every button, or it is the QR flow and
\* takes the controller.
LEMMA ClickIInv ==
  ASSUME IInv, NEW f \in Flows, NEW button, NEW stage \in {"connect", "challenge"},
         Click(f, button, stage),
         found' \subseteq Flows,
         open' = open \/ (stage = "challenge" /\ open' = open \cup {f}),
         \/ /\ ~(button = "qr" /\ stage = "connect")
            /\ button # "qr"
            /\ enabled' = Disabled
            /\ UNCHANGED <<qrBox, controller>>
         \/ /\ button = "qr" /\ stage = "connect"
            /\ enabled' = UnderQr
            /\ qrBox' = TRUE
            /\ controller' = f
  PROVE  IInv'
<1> USE NoFlowAssumption, StageFacts DEF IInv
<1>1. /\ Live /\ page' = page /\ at[f] = "unused"
      /\ button \in Buttons /\ button \in enabled
      /\ UNCHANGED <<shown, aborted, storage>>
      /\ at' \in [Flows -> Stages] /\ at'[f] = stage
      /\ kind' \in [Flows -> Buttons] /\ kind'[f] = button
      /\ \A g \in Flows : g # f => at'[g] = at[g] /\ kind'[g] = kind[g]
  BY DEF Click, Goto, TypeOK
<1>2. \A g \in Flows : g # f => (g \in Busy' <=> g \in Busy)
  BY <1>1 DEF Busy
<1>3. f \in Busy' /\ f \notin Busy
  BY <1>1 DEF Busy
<1>4. f \notin aborted /\ f # controller
  BY <1>1, <1>3 DEF TypeOK, ControllerInv
<1>5. TypeOK'
  BY <1>1, <1>4 DEF TypeOK, storage, UnderQr, Disabled
<1>6. ControllerInv'
  <2>1. \A g \in aborted' : at'[g] # "unused"
    BY <1>1, <1>4 DEF ControllerInv, TypeOK
  <2>2. CASE UNCHANGED <<qrBox, controller>>
    BY <1>1, <1>2, <1>4, <2>1, <2>2 DEF ControllerInv, Busy
  <2>3. CASE button = "qr" /\ stage = "connect" /\ controller' = f
    BY <1>1, <1>3, <2>1, <2>3 DEF ControllerInv
  <2> QED
    BY <2>2, <2>3
<1>7. HoldingInv'
  <2>1. CASE button = "qr"
    <3>1. Holding \subseteq Holding' /\ enabled' = UnderQr
      BY <1>1, <2>1 DEF Holding
    <3> QED
      BY <1>1, <3>1 DEF HoldingInv, UnderQr
  <2>2. CASE button # "qr"
    BY <1>1, <2>2 DEF Holding, HoldingInv
  <2> QED
    BY <2>1, <2>2
<1>8. AloneInv'
  <2>1. SUFFICES ASSUME NoQrYet'
                 PROVE  (\A g, h \in Busy' : g = h) /\ enabled' = {}
    BY DEF AloneInv
  <2>2. button # "qr" /\ NoQrYet
    BY <1>1, <2>1 DEF NoQrYet
  <2>3. Busy = {}
    BY <1>1, <2>2 DEF AloneInv
  <2> QED
    BY <1>2, <2>2, <2>3 DEF Disabled, Busy
<1>9. LoadingInv' /\ ButtonsComeBack' /\ SignersDisposed'
  BY <1>1, <1>3 DEF LoadingInv, ButtonsComeBack, SignersDisposed, Live
<1> QED
  BY <1>5, <1>6, <1>7, <1>8, <1>9

\* A flow ends: it enables the buttons again, and a QR flow that still waits
\* enables those that it had disabled itself.
LEMMA EndIInv ==
  ASSUME IInv, NEW f \in Busy, Goto(f, "done"),
         Live, page' \in {"open", "leaving"}, page = "leaving" => page' = "leaving",
         UNCHANGED <<aborted, kind, found, localKey, passkey>>,
         shown' \subseteq shown, saved' \in BOOLEAN,
         open' = open \ {f},
         controller' = IF kind[f] = "qr" THEN NoFlow ELSE controller,
         qrBox' = (qrBox /\ kind[f] # "qr" /\ at[f] = "connect"),
         enabled' \subseteq Buttons,
         {"qr", "nip07", "bunker"} \subseteq enabled',
         {"local", "passkey"} \subseteq enabled'
            \/ (kind[f] = "qr" /\ at[f] = "connect"
                  /\ {"local", "passkey"} \cap enabled \subseteq enabled')
  PROVE  IInv'
<1> USE NoFlowAssumption, StageFacts DEF IInv
<1>1. /\ f \in Flows /\ at' \in [Flows -> Stages] /\ at'[f] = "done"
      /\ \A g \in Flows : g # f => at'[g] = at[g]
  BY DEF Busy, Goto, TypeOK
<1>2. Busy' = Busy \ {f}
  BY <1>1 DEF Busy
<1>3. TypeOK'
  BY <1>1 DEF TypeOK, Pages
<1>4. ControllerInv'
  BY <1>1, <1>2 DEF ControllerInv, TypeOK
<1>5. HoldingInv'
  <2>1. CASE {"local", "passkey"} \subseteq enabled'
    BY <2>1 DEF HoldingInv
  <2>2. CASE kind[f] = "qr" /\ at[f] = "connect"
                  /\ {"local", "passkey"} \cap enabled \subseteq enabled'
    <3>1. Holding' = Holding
      BY <1>1, <2>2 DEF Holding
    <3> QED
      BY <2>2, <3>1 DEF HoldingInv
  <2> QED
    BY <2>1, <2>2
<1>6. Busy' = {} => Holding' = {}
  BY DEF Busy, Holding
<1>7. ButtonsComeBack'
  BY <1>5, <1>6 DEF HoldingInv, ButtonsComeBack, Buttons
<1>8. AloneInv'
  BY <1>1, <1>2 DEF AloneInv, NoQrYet
<1>9. LoadingInv' /\ SignersDisposed'
  BY <1>1 DEF LoadingInv, SignersDisposed
<1> QED
  BY <1>3, <1>4, <1>5, <1>7, <1>8, <1>9

\* Steps that leave the flows where they are, on a page that is open or opens.
LEMMA PageIInv ==
  ASSUME IInv, UNCHANGED <<at, kind, found, open>>,
         page' \in Pages \ {"loading"}, Live' => Live \/ page = "loading",
         shown' \subseteq Buttons,
         saved' \in BOOLEAN, localKey' \in BOOLEAN, passkey' \in BOOLEAN,
         \/ enabled' = enabled
         \/ enabled' = Buttons /\ (NoQrYet => Busy = {})
         \/ enabled' = {} /\ ~Live',
         controller' = controller,
         qrBox' \in BOOLEAN, qrBox' => qrBox,
         aborted' \subseteq aborted \cup ({controller} \ {NoFlow})
  PROVE  IInv'
<1> USE NoFlowAssumption DEF IInv
<1>1. TypeOK'
  BY DEF TypeOK, ControllerInv
<1>2. Busy' = Busy /\ Holding' = Holding
  BY DEF Busy, Holding
<1>3. ControllerInv'
  BY <1>2 DEF ControllerInv, Busy, SigningIn
<1>4. Live' => enabled' = Buttons \/ (Live /\ enabled' = enabled)
  BY DEF LoadingInv
<1>5. LoadingInv' /\ HoldingInv' /\ ButtonsComeBack'
  BY <1>2, <1>4 DEF LoadingInv, HoldingInv, ButtonsComeBack, Buttons
<1>6. AloneInv'
  BY <1>2 DEF AloneInv, NoQrYet
<1>7. SignersDisposed'
  BY DEF SignersDisposed
<1> QED
  BY <1>1, <1>3, <1>5, <1>6, <1>7

\* A signer is connected: the flow goes on to sign in, and disables every button.
LEMMA ConnectedIInv ==
  ASSUME IInv, NEW f \in Flows, Connected(f)
  PROVE  IInv'
<1> USE NoFlowAssumption, StageFacts DEF IInv
<1>1. /\ at[f] = "connect" /\ at' \in [Flows -> Stages] /\ at'[f] = "challenge"
      /\ \A g \in Flows : g # f => at'[g] = at[g]
      /\ page' = page /\ enabled' = {} /\ open' = open \cup {f}
      /\ qrBox' = (qrBox /\ kind[f] # "qr") /\ saved' \in BOOLEAN
      /\ UNCHANGED <<shown, controller, aborted, kind, found, localKey, passkey>>
      /\ Live
  BY DEF Connected, Goto, TypeOK, Disabled
<1>2. Busy' = Busy /\ f \in Busy /\ f \in Holding'
  BY <1>1 DEF Busy, Holding
<1>3. TypeOK'
  BY <1>1 DEF TypeOK
<1>4. ControllerInv'
  BY <1>1, <1>2 DEF ControllerInv, TypeOK
<1>5. LoadingInv' /\ HoldingInv' /\ ButtonsComeBack' /\ SignersDisposed'
  BY <1>1, <1>2 DEF LoadingInv, HoldingInv, ButtonsComeBack, SignersDisposed, Live
<1>6. AloneInv'
  BY <1>1, <1>2 DEF AloneInv, NoQrYet
<1> QED
  BY <1>3, <1>4, <1>5, <1>6

\* The sign-in goes on from one request to the next.
LEMMA AdvanceIInv ==
  ASSUME IInv, NEW f \in Flows, Advance(f)
  PROVE  IInv'
<1> USE NoFlowAssumption, StageFacts DEF IInv
<1>1. /\ at[f] \in SigningIn /\ at'[f] \in SigningIn /\ at' \in [Flows -> Stages]
      /\ \A g \in Flows : g # f => at'[g] = at[g]
      /\ UNCHANGED <<page, shown, enabled, qrBox, controller, aborted, kind, found,
                     storage, open>>
  BY DEF Advance, Goto, TypeOK
<1>2. Busy' = Busy /\ Holding' = Holding
  BY <1>1 DEF Busy, Holding
<1>3. TypeOK'
  BY <1>1 DEF TypeOK, storage
<1>4. ControllerInv'
  BY <1>1, <1>2 DEF ControllerInv, TypeOK
<1>5. LoadingInv' /\ HoldingInv' /\ ButtonsComeBack' /\ SignersDisposed'
  BY <1>1, <1>2 DEF LoadingInv, HoldingInv, ButtonsComeBack, SignersDisposed, Live
<1>6. AloneInv'
  BY <1>1, <1>2 DEF AloneInv, NoQrYet
<1> QED
  BY <1>3, <1>4, <1>5, <1>6

\* The actions on the page as a whole.
LEMMA WholePageIInv ==
  ASSUME IInv,
         PolicyAllows \/ PolicyPauses \/ ClickMissingPasskey \/ ClickCancel \/ Leave
            \/ Elsewhere
  PROVE  IInv'
<1> USE DEF IInv, TypeOK
<1>1. CASE PolicyAllows
  BY <1>1, PageIInv DEF PolicyAllows, Live, Pages, storage
<1>2. CASE PolicyPauses
  BY <1>2, PageIInv DEF PolicyPauses, Live, Pages, storage
<1>3. CASE ClickMissingPasskey
  <2>1. NoQrYet => Busy = {}
    BY <1>3 DEF ClickMissingPasskey, AloneInv
  <2> QED
    BY <1>3, <2>1, PageIInv DEF ClickMissingPasskey, Live, Pages, storage, Released
<1>4. CASE ClickCancel
  BY <1>4, PageIInv DEF ClickCancel, Live, Pages, storage, Cancelled
<1>5. CASE Leave
  BY <1>5, PageIInv DEF Leave, Live, Pages, storage
<1>6. CASE Elsewhere
  BY <1>6, PageIInv DEF Elsewhere, Live, Pages
<1> QED
  BY <1>1, <1>2, <1>3, <1>4, <1>5, <1>6

\* The clicks that start a flow.
LEMMA ClicksIInv ==
  ASSUME IInv, NEW f \in Flows,
         ClickNip07(f) \/ ClickLocal(f) \/ ClickReconnect(f) \/ ClickPasskey(f)
            \/ ClickBunker(f) \/ ClickQr(f)
  PROVE  IInv'
<1>1. found \subseteq Flows
  BY DEF IInv, TypeOK
<1>2. CASE ClickNip07(f)
  BY <1>1, <1>2, ClickIInv DEF ClickNip07
<1>3. CASE ClickLocal(f)
  BY <1>1, <1>3, ClickIInv DEF ClickLocal
<1>4. CASE ClickReconnect(f)
  BY <1>1, <1>4, ClickIInv DEF ClickReconnect
<1>5. CASE ClickPasskey(f)
  BY <1>1, <1>5, ClickIInv DEF ClickPasskey
<1>6. CASE ClickBunker(f)
  BY <1>1, <1>6, ClickIInv DEF ClickBunker
<1>7. CASE ClickQr(f)
  BY <1>1, <1>7, ClickIInv DEF ClickQr
<1> QED
  BY <1>2, <1>3, <1>4, <1>5, <1>6, <1>7

\* The ends of a flow, before its signer is connected and after.
LEMMA ConnectFailsIInv ==
  ASSUME IInv, NEW f \in Flows, ConnectFails(f)
  PROVE  IInv'
<1>1. f \in Busy /\ open = open \ {f} /\ at[f] = "connect" /\ kind[f] # "qr"
  BY StageFacts DEF ConnectFails, Busy, IInv, SignersDisposed
<1>2. saved' \in BOOLEAN /\ shown' \subseteq shown
  BY DEF ConnectFails, IInv, TypeOK
<1> QED
  BY <1>1, <1>2, EndIInv DEF ConnectFails, Live, Released, Buttons, IInv, TypeOK

\* The QR flow ends unconnected: the other buttons were never disabled by it.
LEMMA QrEndsIInv ==
  ASSUME IInv, NEW f \in Flows, QrEnds(f)
  PROVE  IInv'
<1>1. f \in Busy /\ open = open \ {f} /\ at[f] = "connect" /\ kind[f] = "qr"
  BY StageFacts DEF QrEnds, Busy, IInv, SignersDisposed
<1>2. /\ {"qr", "nip07", "bunker"} \subseteq enabled' /\ enabled' \subseteq Buttons
      /\ {"local", "passkey"} \cap enabled \subseteq enabled'
  BY DEF QrEnds, ReleasedByQr, Buttons, IInv, TypeOK
<1> QED
  BY <1>1, <1>2, EndIInv DEF QrEnds, Live, BoxAfterQr, Dropped, storage, IInv, TypeOK

\* Once connected, every flow enables all the buttons.
LEMMA SignInEndsIInv ==
  ASSUME IInv, NEW f \in Flows, Refused(f) \/ Accepted(f)
  PROVE  IInv'
<1>1. /\ SignInEnds(f) /\ open' = open \ {f}
      /\ Live /\ page' \in {"open", "leaving"} /\ (page = "leaving" => page' = "leaving")
  BY DEF Refused, Accepted, Disposed, Live
<1>2. f \in Busy /\ at[f] # "connect"
  BY <1>1, StageFacts DEF SignInEnds, Busy
<1>3. /\ enabled' \subseteq Buttons
      /\ {"qr", "nip07", "bunker", "local", "passkey"} \subseteq enabled'
  BY <1>1 DEF SignInEnds, Released, ReleasedByQr, Buttons
<1> QED
  BY <1>1, <1>2, <1>3, EndIInv DEF SignInEnds, Dropped, storage, IInv, TypeOK

\* Every step of the page.
LEMMA NextIInv == IInv /\ [Next]_vars => IInv'
<1> SUFFICES ASSUME IInv, [Next]_vars PROVE IInv'
  OBVIOUS
<1>1. ASSUME UNCHANGED vars PROVE IInv'
  BY <1>1 DEF vars, storage, IInv, TypeOK, LoadingInv, ControllerInv, HoldingInv, Holding,
     AloneInv, NoQrYet, Busy, ButtonsComeBack, SignersDisposed, Live
<1> QED
  BY <1>1, WholePageIInv, ClicksIInv, ConnectedIInv, AdvanceIInv, ConnectFailsIInv,
     QrEndsIInv, SignInEndsIInv DEF Next

\* The inductive invariant holds in every state.
THEOREM Invariance == Spec => []IInv
BY InitIInv, NextIInv, PTL DEF Spec

-----------------------------------------------------------------------------
(* The properties                                                          *)

\* The types, and that only QR flows have a controller or are aborted.
THEOREM TypeCorrect == Spec => []TypeOK
<1>1. IInv => TypeOK
  BY DEF IInv
<1> QED
  BY <1>1, Invariance, PTL

\* A page on which no flow is under way has its buttons enabled.
THEOREM ButtonsComeBackHolds == Spec => []ButtonsComeBack
<1>1. IInv => ButtonsComeBack
  BY DEF IInv
<1> QED
  BY <1>1, Invariance, PTL

\* While Cancel is shown there is a waiting flow for it to abort.
THEOREM CancelHasATargetHolds == Spec => []CancelHasATarget
<1>1. IInv => CancelHasATarget
  BY DEF IInv, ControllerInv, CancelHasATarget
<1> QED
  BY <1>1, Invariance, PTL

\* A signer is open only while its flow signs in.
THEOREM SignersDisposedHolds == Spec => []SignersDisposed
<1>1. IInv => SignersDisposed
  BY DEF IInv
<1> QED
  BY <1>1, Invariance, PTL

\* Without a QR code there is one sign-in at a time, however often one clicks.
THEOREM OneAtATimeHolds == Spec => []OneAtATime
<1>1. IInv => OneAtATime
  <2>1. SUFFICES ASSUME IInv, NoQrYet PROVE Cardinality(Busy) <= 1
    BY DEF OneAtATime, NoQrYet
  <2>2. CASE Busy = {}
    BY <2>2, FS_EmptySet
  <2>3. CASE Busy # {}
    <3>1. PICK f \in Busy : TRUE
      BY <2>3
    <3>2. Busy = {f}
      BY <2>1, <3>1 DEF IInv, AloneInv
    <3> QED
      BY <3>2, FS_Singleton
  <2> QED
    BY <2>2, <2>3
<1> QED
  BY <1>1, Invariance, PTL
=============================================================================
