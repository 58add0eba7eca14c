----------------------------- MODULE LoginPage -----------------------------
(***************************************************************************)
(* web/static/nostr-login-page.js and the signers of nostr-connect-ui.js:  *)
(* the sign-in page.  Every click starts a flow, an async function that    *)
(* others may run between any two awaits of.  A button is known by the     *)
(* kind of sign-in it starts.                                              *)
(*                                                                         *)
(* Drawing the QR code and subscribing to the relays belong to the click.  *)
(* What a subscription does once it is aborted is the vendored bundle's    *)
(* part: it ends.                                                          *)
(***************************************************************************)
EXTENDS Naturals, FiniteSets

CONSTANTS
    Flows,      \* the clicks of a visit, each used once
    NoFlow      \* not one of them

ASSUME NoFlowAssumption == NoFlow \notin Flows

VARIABLES
    page,       \* loading, open, paused by the administrator, leaving, or left
    shown,      \* the buttons that are not hidden
    enabled,    \* the buttons that are not disabled
    qrBox,      \* whether the QR code and its Cancel button are shown
    controller, \* qrAbortController: the flow it belongs to
    aborted,    \* the flows whose signal was aborted
    kind,       \* what kind of sign-in a flow is
    at,         \* where a flow is
    found,      \* the reconnecting flows that found a saved signer
    saved,      \* whether local storage has a signer
    localKey,   \* whether it has a local key
    passkey,    \* and a passkey identity
    open        \* the flows with a connected signer that is not disposed of

vars == <<page, shown, enabled, qrBox, controller, aborted, kind, at, found,
          saved, localKey, passkey, open>>
storage == <<saved, localKey, passkey>>

-----------------------------------------------------------------------------
Buttons == {"nip07", "reconnect", "local", "passkey", "bunker", "qr"}
Pages == {"loading", "open", "paused", "leaving", "left"}

\* Until the portal is loaded the page goes on as it was.
Live == page \in {"open", "leaving"}

Stages == {"unused", "connect", "challenge", "sign", "post", "done"}
SigningIn == {"challenge", "sign", "post"}

Busy == {f \in Flows : at[f] \in {"connect"} \cup SigningIn}

\* setAllButtonsDisabled(true), and what the QR flow disables of its own.
Disabled_butPasskey == {"passkey"}
Disabled == {}
UnderQr == enabled \ {"qr", "nip07", "bunker", "reconnect"}

\* What the finally of performSignIn enables, and that of the QR flow.
Released == Buttons
ReleasedByQr_forgetful(buttons) == buttons \cup {"qr", "nip07"}
ReleasedByQr(buttons) ==
    (buttons \ {"reconnect"}) \cup {"qr", "nip07", "bunker"}
        \cup (IF saved THEN {"reconnect"} ELSE {})

\* What Cancel aborts.
Cancelled_anything == Busy
Cancelled == {controller} \ {NoFlow}

\* The finally of the QR flow hides the box and drops the controller.
BoxAfterQr_ifOwn(f) == qrBox /\ controller # f
BoxAfterQr(f) == FALSE
Dropped(f) == NoFlow

\* The finally of signInWithSigner disposes of the signer.
Disposed_onSuccess(f) == open
Disposed(f) == open \ {f}

Init ==
    /\ page = "loading"
    /\ saved \in BOOLEAN
    /\ localKey \in BOOLEAN
    /\ passkey \in BOOLEAN
    /\ shown = {"nip07", "bunker", "qr"}
                  \cup (IF saved THEN {"reconnect"} ELSE {})
                  \cup (IF localKey THEN {"local"} ELSE {})
                  \cup (IF passkey THEN {"passkey"} ELSE {})
    /\ enabled = Buttons
    /\ qrBox = FALSE
    /\ controller = NoFlow
    /\ aborted = {}
    /\ kind = [f \in Flows |-> "nip07"]
    /\ at = [f \in Flows |-> "unused"]
    /\ found = {}
    /\ open = {}

\* applyPolicy; the page is hidden until it has ended.
PolicyAllows ==
    /\ page = "loading"
    /\ page' = "open"
    /\ UNCHANGED <<shown, enabled, qrBox, controller, aborted, kind, at, found,
                   storage, open>>

PolicyPauses ==
    /\ page = "loading"
    /\ page' = "paused"
    /\ shown' = {}
    /\ enabled' = {}
    /\ UNCHANGED <<qrBox, controller, aborted, kind, at, found, storage, open>>

-----------------------------------------------------------------------------
(* Clicks                                                                  *)

Goto(f, stage) == at' = [at EXCEPT ![f] = stage]

\* A click on a button starts a flow there.
Click(f, button, stage) ==
    /\ Live
    /\ at[f] = "unused"
    /\ button \in shown \cap enabled
    /\ kind' = [kind EXCEPT ![f] = button]
    /\ Goto(f, stage)
    /\ UNCHANGED <<page, shown, aborted, storage>>

\* A browser extension signs without a connection.
ClickNip07(f) ==
    /\ Click(f, "nip07", "challenge")
    /\ enabled' = Disabled
    /\ UNCHANGED <<qrBox, controller, found, open>>

\* A local signer is there at once.
ClickLocal(f) ==
    /\ localKey
    /\ Click(f, "local", "challenge")
    /\ enabled' = Disabled
    /\ open' = open \cup {f}
    /\ UNCHANGED <<qrBox, controller, found>>

\* reconnectSaved reads the storage before it connects.
ClickReconnect(f) ==
    /\ Click(f, "reconnect", "connect")
    /\ enabled' = Disabled
    /\ found' = IF saved THEN found \cup {f} ELSE found
    /\ UNCHANGED <<qrBox, controller, open>>

ClickPasskey(f) ==
    /\ passkey
    /\ Click(f, "passkey", "connect")
    /\ enabled' = Disabled
    /\ UNCHANGED <<qrBox, controller, found, open>>

\* Without a passkey nothing is awaited, and the finally enables all buttons.
ClickMissingPasskey ==
    /\ Live
    /\ "passkey" \in shown \cap enabled
    /\ ~passkey
    /\ enabled' = Released
    /\ UNCHANGED <<page, shown, qrBox, controller, aborted, kind, at, found,
                   storage, open>>

ClickBunker(f) ==
    /\ Click(f, "bunker", "connect")
    /\ enabled' = Disabled
    /\ UNCHANGED <<qrBox, controller, found, open>>

ClickQr(f) ==
    /\ Click(f, "qr", "connect")
    /\ enabled' = UnderQr
    /\ qrBox' = TRUE
    /\ controller' = f
    /\ UNCHANGED <<found, open>>

ClickCancel ==
    /\ Live
    /\ qrBox
    /\ qrBox' = FALSE
    /\ aborted' = aborted \cup Cancelled
    /\ UNCHANGED <<page, shown, enabled, controller, kind, at, found, storage, open>>

-----------------------------------------------------------------------------
(* Connecting a signer                                                     *)

\* connectViaBunkerUri and connectViaQr save the signer once it is connected.
Connected(f) ==
    /\ Live
    /\ at[f] = "connect"
    /\ f \notin aborted
    /\ kind[f] = "reconnect" => f \in found
    /\ Goto(f, "challenge")
    /\ enabled' = Disabled
    /\ open' = open \cup {f}
    /\ saved' = (saved \/ kind[f] \in {"bunker", "qr"})
    /\ qrBox' = (qrBox /\ kind[f] # "qr")
    /\ UNCHANGED <<page, shown, controller, aborted, kind, found, localKey, passkey>>

\* The connection is refused, the passkey is not unlocked, or the signal aborts.
ConnectFails(f) ==
    /\ Live
    /\ at[f] = "connect"
    /\ kind[f] # "qr"
    /\ Goto(f, "done")
    /\ enabled' = Released
    /\ IF kind[f] = "reconnect" /\ f \in found
       THEN /\ saved' = FALSE
            /\ shown' = shown \ {"reconnect"}
       ELSE UNCHANGED <<saved, shown>>
    /\ UNCHANGED <<page, qrBox, controller, aborted, kind, found, localKey,
                   passkey, open>>

QrEnds(f) ==
    /\ Live
    /\ at[f] = "connect"
    /\ kind[f] = "qr"
    /\ Goto(f, "done")
    /\ enabled' = ReleasedByQr(enabled)
    /\ qrBox' = BoxAfterQr(f)
    /\ controller' = Dropped(f)
    /\ UNCHANGED <<page, shown, aborted, kind, found, storage, open>>

-----------------------------------------------------------------------------
(* performSignIn                                                           *)

\* The challenge arrives, then the signature.
Advance(f) ==
    /\ Live
    /\ at[f] \in {"challenge", "sign"}
    /\ Goto(f, IF at[f] = "challenge" THEN "sign" ELSE "post")
    /\ UNCHANGED <<page, shown, enabled, qrBox, controller, aborted, kind, found,
                   storage, open>>

\* Both finally blocks of a flow, one after the other.
SignInEnds(f) ==
    /\ at[f] \in SigningIn
    /\ Goto(f, "done")
    /\ qrBox' = FALSE
    /\ enabled' = IF kind[f] = "qr" THEN ReleasedByQr(Released) ELSE Released
    /\ controller' = IF kind[f] = "qr" THEN Dropped(f) ELSE controller
    /\ UNCHANGED <<shown, aborted, kind, found, storage>>

\* No challenge, no signature, no session, or no network.
Refused(f) ==
    /\ Live
    /\ SignInEnds(f)
    /\ open' = Disposed(f)
    /\ UNCHANGED page

\* The browser sets out for the portal; the finally blocks run all the same.
Accepted(f) ==
    /\ Live
    /\ at[f] = "post"
    /\ SignInEnds(f)
    /\ open' = open \ {f}
    /\ page' = "leaving"

\* The navigation is committed.
Leave ==
    /\ page = "leaving"
    /\ page' = "left"
    /\ UNCHANGED <<shown, enabled, qrBox, controller, aborted, kind, at, found,
                   storage, open>>

-----------------------------------------------------------------------------
\* The account page, in another tab, saves and forgets what it likes.
Elsewhere ==
    /\ Live
    /\ saved' \in BOOLEAN
    /\ localKey' \in BOOLEAN
    /\ passkey' \in BOOLEAN
    /\ UNCHANGED <<page, shown, enabled, qrBox, controller, aborted, kind, at,
                   found, open>>

Next ==
    \/ PolicyAllows
    \/ PolicyPauses
    \/ ClickMissingPasskey
    \/ ClickCancel
    \/ \E f \in Flows :
          \/ ClickNip07(f)
          \/ ClickLocal(f)
          \/ ClickReconnect(f)
          \/ ClickPasskey(f)
          \/ ClickBunker(f)
          \/ ClickQr(f)
          \/ Connected(f)
          \/ ConnectFails(f)
          \/ QrEnds(f)
          \/ Advance(f)
          \/ Refused(f)
          \/ Accepted(f)
    \/ Leave
    \/ Elsewhere

Spec == Init /\ [][Next]_vars

-----------------------------------------------------------------------------
(* Properties                                                              *)

\* Only flows that showed a QR code have a controller, and are aborted.
TypeOK ==
    /\ page \in Pages
    /\ shown \subseteq Buttons
    /\ enabled \subseteq Buttons
    /\ qrBox \in BOOLEAN
    /\ controller \in Flows \cup {NoFlow}
    /\ aborted \subseteq Flows
    /\ kind \in [Flows -> Buttons]
    /\ at \in [Flows -> Stages]
    /\ found \subseteq Flows
    /\ saved \in BOOLEAN
    /\ localKey \in BOOLEAN
    /\ passkey \in BOOLEAN
    /\ open \subseteq Flows
    /\ \A f \in aborted \cup {controller} : f # NoFlow => kind[f] = "qr"

\* However flows overlap and fail, a page on which none is under way can be
\* used again, also one that is being left; the reconnect button may wait for a
\* reload.
ButtonsComeBack ==
    Live /\ Busy = {} => Buttons \ {"reconnect"} \subseteq enabled

\* While the box is shown its Cancel button has a flow to abort that is still
\* waiting: no other flow's end takes the controller and leaves the box.  And
\* no flow leaves either of them behind.
CancelHasATarget ==
    /\ qrBox => controller # NoFlow /\ at[controller] = "connect"
    /\ controller # NoFlow => controller \in Busy

\* A connected signer is disposed of when its flow ends, in whatever way.
SignersDisposed == open \subseteq {f \in Flows : at[f] \in SigningIn}

\* One sign-in is under way at a time, as long as no QR code has been shown: a
\* QR flow leaves the buttons for the local key and the passkey enabled.
OneAtATime ==
    (\A f \in Flows : at[f] # "unused" => kind[f] # "qr") => Cardinality(Busy) <= 1

\* nostr-connect-ui.js:118-121: cancelling "actually closes the relay
\* subscription immediately, rather than leaving it running".
CancelCloses ==
    [][ClickCancel => \A f \in Flows : kind[f] = "qr" /\ at[f] = "connect"
                                           => f \in aborted']_vars
=============================================================================
