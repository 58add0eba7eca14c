---------------------------- MODULE AccountPage ----------------------------
(***************************************************************************)
(* web/static/nostr-account-page.js: the page on which somebody links,     *)
(* unlinks and revokes the identities of an account.  Every click starts a *)
(* flow, an async function that others may run between any two awaits of.  *)
(*                                                                         *)
(* An identity is the row a flow's link inserts, and is known by the flow; *)
(* Others are identities that other devices link.  The list is what the    *)
(* page shows as active, row what the server has.  A reload is three       *)
(* steps: asked for, answered, rendered.                                   *)
(*                                                                         *)
(* The buttons that setLinkButtonsDisabled disables together are "link",   *)
(* but for the two that are also set one by one.  Challenge and signature  *)
(* are one await; messages, labels and masks are left out.                 *)
(***************************************************************************)
EXTENDS Naturals, FiniteSets

CONSTANTS
    Flows,      \* the clicks of a visit that await something, each used once
    Others,     \* identities that are linked on other devices
    None        \* no flow, no identity

Kinds == {"nip07", "bunker", "qr", "generated", "unlock", "register",
          "restore", "reveal", "unlink", "revoke", "rename"}

ASSUME NoneAssumption == None \notin Flows \cup Others
ASSUME OthersAssumption == Flows \cap Others = {}

VARIABLES
    view,       \* signed in, signed out, or not loaded
    offered,    \* whether the linking controls are not hidden by the policy
    disabled,   \* the buttons that are disabled
    linkMode,   \* replace or add
    list,       \* the active ones of currentIdentities
    keypair,    \* whether there is a generatedKeypair
    recovery,   \* whether the passkey's recovery key is shown
    qrBox,      \* whether the QR code and its Cancel button are shown
    controller, \* qrAbortController: the flow it belongs to
    aborted,    \* the flows whose signal was aborted
    saved,      \* the signers local storage has: remote, a generated key
    passkey,    \* and whether it has a passkey identity
    open,       \* the flows with a signer that is not disposed of
    row,        \* the server's rows
    kind,       \* what a flow does
    at,         \* where a flow is
    adding,     \* the linking flows that add and do not replace
    about,      \* what a flow revokes, and has removed
    answer,     \* the list a flow was sent
    asked,      \* history: flows started to add, no empty list shown since
    joined      \* history: a restore has joined flows that were linking, and
                \* not all of them have ended

page == <<view, offered, linkMode, list, keypair>>
qr == <<qrBox, controller, aborted>>
storage == <<saved, passkey>>
flow == <<kind, adding, about, answer, asked, joined>>
vars == <<page, disabled, recovery, qr, storage, open, row, flow, at>>

-----------------------------------------------------------------------------
Ids == Flows \cup Others
Buttons == {"link", "restore", "reveal", "unlink"}
LinkButtons == {"link", "restore", "reveal"}
Stages == {"unused", "connect", "sign", "post", "answered", "load", "loaded",
           "done"}
ByPasskey == {"unlock", "register", "restore"}
Linking == {"nip07", "bunker", "qr", "generated"} \cup ByPasskey

Busy == {f \in Flows : at[f] \notin {"unused", "done"}}
Linkers == {f \in Busy : kind[f] \in Linking}
Active == {i \in Ids : row[i] = "linked"}

\* What a flow that is not under way is taken for.
NoKind == "reveal"

Goto(f, stage) == at' = [at EXCEPT ![f] = stage]

\* updatePasskeyUi on the buttons, given whether a passkey is stored.
PasskeyButtons_all(buttons, stored) ==
    IF stored THEN buttons \cup {"restore"} ELSE buttons \ LinkButtons
PasskeyButtons(buttons, stored) ==
    IF stored THEN buttons \cup {"restore"} ELSE buttons \ {"restore"}

\* What GET /identities answers with.
Served_cached == list
Served == Active

\* renderIdentities resets the choice when there is nothing to add to.
ModeFor(identities) == IF identities = {} THEN "replace" ELSE linkMode

\* What Cancel aborts.
Cancelled_anyone == Busy
Cancelled == {controller} \ {None}

\* The finally of the QR flow drops the controller, it and that of performLink
\* hide the box, and the one of linkWithSigner disposes of the signer.
Dropped_onAbort(f) == IF f \in aborted THEN None ELSE controller
Dropped(f) == None
BoxAfter(f) == FALSE
Disposed(f) == open \ {f}

\* The buttons a flow's finally blocks enable.
Released_onceLinking(f) ==
    CASE kind[f] \in Linking -> IF at[f] = "connect" THEN {} ELSE LinkButtons
      [] kind[f] = "unlink" -> {"unlink"}
      [] kind[f] = "reveal" -> {"reveal"}
      [] OTHER -> {}
Released(f) ==
    CASE kind[f] \in Linking -> LinkButtons
      [] kind[f] = "unlink" -> {"unlink"}
      [] kind[f] = "reveal" -> {"reveal"}
      [] OTHER -> {}

Init ==
    /\ view = "loading"
    /\ offered = TRUE
    /\ disabled = {}
    /\ linkMode = "replace"
    /\ list = {}
    /\ keypair = FALSE
    /\ recovery = FALSE
    /\ qrBox = FALSE
    /\ controller = None
    /\ aborted = {}
    /\ saved \in SUBSET {"bunker", "key"}
    /\ passkey \in BOOLEAN
    /\ open = {}
    /\ row \in [Ids -> {"unused", "linked"}]
    /\ \A f \in Flows : row[f] = "unused"
    /\ kind = [f \in Flows |-> NoKind]
    /\ at = [f \in Flows |-> "unused"]
    /\ adding = {}
    /\ about = [f \in Flows |-> {}]
    /\ answer = [f \in Flows |-> {}]
    /\ asked = {}
    /\ joined = FALSE

-----------------------------------------------------------------------------
(* The list                                                                *)

\* loadIdentity read the policy first; once hidden, controls stay hidden.
Render(identities) ==
    /\ view' = "in"
    /\ list' = identities
    /\ linkMode' = ModeFor(identities)
    /\ asked' = IF identities = {} THEN {} ELSE asked
    /\ offered' \in {offered, FALSE}

\* The page is hidden until its first load has ended.
Open ==
    /\ view = "loading"
    /\ \/ Render(Active)
       \/ view' = "out" /\ UNCHANGED <<list, linkMode, asked, offered>>
    /\ disabled' = PasskeyButtons(disabled, passkey)
    /\ UNCHANGED <<keypair, recovery, qr, storage, open, row, kind, adding,
                   about, answer, joined, at>>

-----------------------------------------------------------------------------
(* Clicks that await nothing                                               *)

Usable(button) == view = "in" /\ offered /\ button \notin disabled

\* setLinkButtonsDisabled disables the choice as well.
ModeUsable_always == view = "in" /\ offered
ModeUsable == Usable("link")

ChooseMode ==
    /\ ModeUsable
    /\ list # {}
    /\ linkMode' = IF linkMode = "add" THEN "replace" ELSE "add"
    /\ UNCHANGED <<view, offered, list, keypair, disabled, recovery, qr,
                   storage, open, row, flow, at>>

Generate ==
    /\ Usable("link")
    /\ keypair' = TRUE
    /\ disabled' = PasskeyButtons(disabled, passkey)
    /\ recovery' = (recovery /\ passkey)
    /\ UNCHANGED <<view, offered, linkMode, list, qr, storage, open, row, flow,
                   at>>

ForgetPasskey ==
    /\ Usable("link")
    /\ passkey
    /\ passkey' = FALSE
    /\ recovery' = FALSE
    /\ disabled' = PasskeyButtons(disabled, FALSE)
    /\ UNCHANGED <<page, qr, saved, open, row, flow, at>>

HideRecovery ==
    /\ Usable("reveal")
    /\ passkey /\ recovery
    /\ recovery' = FALSE
    /\ UNCHANGED <<page, disabled, qr, storage, open, row, flow, at>>

\* The panel of saved signers is not part of the linking controls.
ForgetSaved ==
    /\ view = "in"
    /\ \E signer \in saved : saved' = saved \ {signer}
    /\ UNCHANGED <<page, disabled, recovery, qr, passkey, open, row, flow, at>>

ClickCancel ==
    /\ view = "in" /\ offered /\ qrBox
    /\ qrBox' = FALSE
    /\ aborted' = aborted \cup Cancelled
    /\ UNCHANGED <<page, disabled, recovery, controller, storage, open, row,
                   flow, at>>

-----------------------------------------------------------------------------
(* Clicks that start a flow                                                *)

Start(f, k, stage) ==
    /\ at[f] = "unused"
    /\ kind' = [kind EXCEPT ![f] = k]
    /\ Goto(f, stage)
    /\ asked' = IF linkMode = "add" /\ k \in Linking
                THEN asked \cup {f} ELSE asked
    /\ joined' = (joined \/ (k = "restore" /\ Linkers # {}))
    /\ UNCHANGED <<page, aborted, passkey, row, adding, answer>>

\* A browser extension signs without a connection.
LinkNip07(f) ==
    /\ Usable("link")
    /\ Start(f, "nip07", "sign")
    /\ disabled' = disabled \cup LinkButtons
    /\ UNCHANGED <<recovery, qrBox, controller, saved, open, about>>

UseGeneratedKey(f) ==
    /\ Usable("link")
    /\ keypair
    /\ Start(f, "generated", "sign")
    /\ saved' \in {saved, saved \cup {"key"}}
    /\ open' = open \cup {f}
    /\ disabled' = disabled \cup LinkButtons
    /\ UNCHANGED <<recovery, qrBox, controller, about>>

\* usePasskeyIdentity looks once whether there is a passkey to unlock.
Connect(f) ==
    /\ Usable("link")
    /\ \/ Start(f, "bunker", "connect")
       \/ Start(f, IF passkey THEN "unlock" ELSE "register", "connect")
    /\ disabled' = disabled \cup LinkButtons
    /\ UNCHANGED <<recovery, qrBox, controller, saved, open, about>>

ShowQr(f) ==
    /\ Usable("link")
    /\ Start(f, "qr", "connect")
    /\ qrBox' = TRUE
    /\ controller' = f
    /\ disabled' = disabled \cup LinkButtons
    /\ UNCHANGED <<recovery, saved, open, about>>

RestorePasskey(f) ==
    /\ Usable("restore")
    /\ ~passkey
    /\ Start(f, "restore", "connect")
    /\ recovery' = FALSE
    /\ disabled' = disabled \cup LinkButtons
    /\ UNCHANGED <<qrBox, controller, saved, open, about>>

RevealRecovery(f) ==
    /\ Usable("reveal")
    /\ passkey /\ ~recovery
    /\ Start(f, "reveal", "connect")
    /\ disabled' = disabled \cup {"reveal"}
    /\ UNCHANGED <<recovery, qrBox, controller, saved, open, about>>

\* These are offered whatever the policy is.
Unlink(f) ==
    /\ view = "in"
    /\ list # {}
    /\ "unlink" \notin disabled
    /\ Start(f, "unlink", "post")
    /\ disabled' = disabled \cup {"unlink"}
    /\ UNCHANGED <<recovery, qrBox, controller, saved, open, about>>

\* The buttons of an identity's card are never disabled.
Manage(f) ==
    /\ view = "in"
    /\ \E i \in list :
          /\ Start(f, "revoke", "post") \/ Start(f, "rename", "post")
          /\ about' = [about EXCEPT ![f] = {i}]
    /\ UNCHANGED <<disabled, recovery, qrBox, controller, saved, open>>

-----------------------------------------------------------------------------
(* How flows go on                                                         *)

\* All finally blocks of a flow, one after the other; its locals go.
End(f) ==
    /\ Goto(f, "done")
    /\ disabled' = IF kind[f] \in ByPasskey
                   THEN PasskeyButtons(disabled \ Released(f), passkey)
                   ELSE disabled \ Released(f)
    /\ recovery' = (recovery /\ (kind[f] \in ByPasskey => passkey))
    /\ qrBox' = IF kind[f] \in Linking /\ (at[f] # "connect" \/ kind[f] = "qr")
                THEN BoxAfter(f) ELSE qrBox
    /\ controller' = IF kind[f] = "qr" THEN Dropped(f) ELSE controller
    /\ open' = Disposed(f)
    /\ answer' = [answer EXCEPT ![f] = {}]
    /\ about' = [about EXCEPT ![f] = {}]
    /\ adding' = adding \ {f}
    /\ aborted' = aborted \ {f}
    /\ kind' = [kind EXCEPT ![f] = NoKind]
    /\ joined' = (joined /\ Linkers \ {f} # {})
    /\ UNCHANGED <<keypair, storage, row>>

\* The signer is there, saved if it is a remote one or a new passkey, and
\* performLink begins.
Connected(f) ==
    /\ at[f] = "connect"
    /\ kind[f] \in Linking
    /\ f \notin aborted
    /\ Goto(f, "sign")
    /\ open' = open \cup {f}
    /\ saved' = IF kind[f] \in {"bunker", "qr"}
                THEN saved \cup {"bunker"} ELSE saved
    /\ passkey' = (passkey \/ kind[f] \in {"register", "restore"})
    /\ qrBox' = (qrBox /\ kind[f] # "qr")
    /\ disabled' = disabled \cup LinkButtons
    /\ UNCHANGED <<page, recovery, controller, aborted, row, flow>>

\* Refused, timed out or cancelled; the recovery key is not unlocked; no
\* challenge, or no signature.
Declined(f) ==
    /\ at[f] \in {"connect", "sign"}
    /\ End(f)
    /\ asked' = asked \ {f}
    /\ UNCHANGED <<view, offered, linkMode, list>>

Revealed(f) ==
    /\ at[f] = "connect"
    /\ kind[f] = "reveal"
    /\ Goto(f, "done")
    /\ recovery' = TRUE
    /\ disabled' = disabled \ Released(f)
    /\ UNCHANGED <<page, qr, storage, open, row, flow>>

\* The signature is there: only now is it decided which request to send.
Post(f) ==
    /\ at[f] = "sign"
    /\ Goto(f, "post")
    /\ adding' = IF list # {} /\ linkMode = "add"
                 THEN adding \cup {f} ELSE adding
    /\ asked' = asked \ {f}
    /\ UNCHANGED <<page, disabled, recovery, qr, storage, open, row, kind,
                   about, answer, joined>>

\* No answer, or one that says no, whether or not the server did its part.
Failed(f) ==
    /\ at[f] \in {"post", "answered"}
    /\ End(f)
    /\ UNCHANGED <<view, offered, linkMode, list, asked>>

\* The answer is ok, and loadIdentity begins.
Succeeded(f) ==
    /\ at[f] = "answered"
    /\ Goto(f, "load")
    /\ IF kind[f] \in Linking
       THEN /\ keypair' = FALSE
            /\ disabled' = PasskeyButtons(disabled, passkey)
            /\ recovery' = (recovery /\ passkey)
       ELSE UNCHANGED <<keypair, disabled, recovery>>
    /\ saved' = IF kind[f] = "unlink" THEN {} ELSE saved
    /\ UNCHANGED <<view, offered, linkMode, list, qr, passkey, open, row,
                   flow>>

Reloaded(f) ==
    /\ at[f] = "loaded"
    /\ Render(answer[f])
    /\ End(f)

\* The session has ended, or the list could not be had.
NotReloaded(f) ==
    /\ at[f] \in {"load", "loaded"}
    /\ view' \in {view, "out"}
    /\ End(f)
    /\ UNCHANGED <<offered, linkMode, list, asked>>

-----------------------------------------------------------------------------
(* The server                                                              *)

Unlinked(gone) == [i \in Ids |-> IF i \in gone THEN "gone" ELSE row[i]]

\* What a request removes.
Removed(f) ==
    CASE kind[f] = "unlink" -> Active
      [] kind[f] \in Linking -> IF f \in adding THEN {} ELSE Active
      [] OTHER -> about[f]

Serve(f) ==
    /\ at[f] = "post"
    /\ kind[f] \in {"revoke", "rename"} => about[f] \subseteq Active
    /\ Goto(f, "answered")
    /\ row' = CASE kind[f] = "rename" -> row
                [] kind[f] \in Linking ->
                     [Unlinked(Removed(f)) EXCEPT ![f] = "linked"]
                [] OTHER -> Unlinked(Removed(f))
    /\ about' = IF kind[f] = "rename" THEN about
                ELSE [about EXCEPT ![f] = Removed(f)]
    /\ UNCHANGED <<page, disabled, recovery, qr, storage, open, kind, asked,
                   joined, adding, answer>>

\* GET /identities.
ServeList(f) ==
    /\ at[f] = "load"
    /\ Goto(f, "loaded")
    /\ answer' = [answer EXCEPT ![f] = Served]
    /\ UNCHANGED <<page, disabled, recovery, qr, storage, open, row, kind,
                   asked, joined, adding, about>>

\* Another device links an identity, or removes one.
Elsewhere ==
    /\ \/ \E i \in Others :
             row[i] = "unused" /\ row' = [row EXCEPT ![i] = "linked"]
       \/ \E i \in Active : row' = Unlinked({i})
    /\ UNCHANGED <<page, disabled, recovery, qr, storage, open, flow, at>>

\* The same page in another tab makes and forgets a passkey, and saves and
\* clears signers.
OtherTab ==
    /\ passkey' \in BOOLEAN
    /\ saved' \in SUBSET {"bunker", "key"}
    /\ UNCHANGED <<page, disabled, recovery, qr, open, row, flow, at>>

Step(f) ==
    \/ Connected(f)
    \/ Declined(f)
    \/ Revealed(f)
    \/ Post(f)
    \/ Failed(f)
    \/ Succeeded(f)
    \/ Reloaded(f)
    \/ NotReloaded(f)
    \/ Serve(f)
    \/ ServeList(f)

Next ==
    \/ Open
    \/ ChooseMode
    \/ Generate
    \/ ForgetPasskey
    \/ HideRecovery
    \/ ForgetSaved
    \/ ClickCancel
    \/ \E f \in Flows :
          \/ LinkNip07(f)
          \/ UseGeneratedKey(f)
          \/ Connect(f)
          \/ ShowQr(f)
          \/ RestorePasskey(f)
          \/ RevealRecovery(f)
          \/ Unlink(f)
          \/ Manage(f)
          \/ Step(f)
    \/ Elsewhere
    \/ OtherTab

Spec == Init /\ [][Next]_vars

-----------------------------------------------------------------------------
(* Properties                                                              *)

\* Besides the types: only flows that showed a QR code are aborted.
TypeOK ==
    /\ view \in {"loading", "in", "out"}
    /\ offered \in BOOLEAN
    /\ disabled \subseteq Buttons
    /\ linkMode \in {"replace", "add"}
    /\ list \subseteq Ids
    /\ keypair \in BOOLEAN
    /\ recovery \in BOOLEAN
    /\ qrBox \in BOOLEAN
    /\ controller \in Flows \cup {None}
    /\ aborted \subseteq Flows
    /\ saved \subseteq {"bunker", "key"}
    /\ passkey \in BOOLEAN
    /\ open \subseteq Flows
    /\ row \in [Ids -> {"unused", "linked", "gone"}]
    /\ kind \in [Flows -> Kinds]
    /\ at \in [Flows -> Stages]
    /\ adding \subseteq Flows
    /\ about \in [Flows -> SUBSET Ids]
    /\ answer \in [Flows -> SUBSET Ids]
    /\ asked \subseteq Flows
    /\ joined \in BOOLEAN
    /\ \A f \in aborted : kind[f] = "qr"

\* However flows overlap and fail, their signers are disposed of when they end,
\* and a page on which none is under way can be used again; restoring has to
\* wait while a passkey may be stored.
FlowsCleanUp ==
    /\ open \subseteq {f \in Linkers : at[f] # "connect"}
    /\ Busy = {} => disabled \subseteq {"restore"}

\* While the box is shown its Cancel button has a flow to abort that is still
\* waiting: no other flow's end takes the controller and leaves the box.  And
\* no flow leaves either of them behind.
CancelHasATarget ==
    /\ qrBox => controller # None /\ at[controller] = "connect"
    /\ controller # None => controller \in Busy /\ kind[controller] = "qr"

\* Two flows that link never overlap, unless the restore button has let one in,
\* which updatePasskeyUi (:297, :368) enables during the reload of another: the
\* first that ends then enables the buttons for more.  Once they have all ended
\* the next link is alone again.
OverlapOnlyByRestore == ~joined => Cardinality(Linkers) <= 1

\* The reload that a change ends with shows it, whatever other reloads and
\* devices do: an identity that was linked is on the list unless it is gone
\* again, and what a flow revoked, unlinked or replaced is not.
OwnChangeShown ==
    [][\A f \in Flows : Reloaded(f) =>
          /\ kind[f] \in Linking => f \in list' \/ row[f] = "gone"
          /\ kind[f] # "rename" => list' \cap about[f] = {}]_vars

\* What performLink decides last (:279) is what was chosen when the flow was
\* started, although unlinking, revoking and renaming reload the list and may
\* reset the choice meanwhile; only a list that is shown empty turns it into a
\* replacement, which then removes what other devices have linked since.
LinksAsAsked ==
    [][\A f \in Flows :
          Post(f) /\ ~joined => (f \in adding' <=> f \in asked)]_vars
=============================================================================
