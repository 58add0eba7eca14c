# A TLA+ model of yunohost-nostr-auth

yunohost-nostr-auth lets the accounts of a YunoHost server sign in with Nostr
keys. It is a small Starlette service between a browser, two SQLite files and
YunoHost's own portal, with three helper daemons and an admin CLI beside it.
This directory specifies what has to be right about it when several of these
programs run at once, some of them die, and time passes. Paths below are
relative to `src/yunohost_nostr_auth/` of the repository.

## 1. The system

| Component | State | Operations | Who calls it |
|---|---|---|---|
| Challenge store, `auth/challenge.py` | table `challenges` (nonce, host, action, times, consumed_at) | `issue`, `consume` | web service (several processes may share the file) |
| Mapping store, `identity/mappings.py` | table `identities`, its id sequence, `user_version`, the legacy table `users` | migration, `link`, `add_identity`, `unlink`, `revoke_identity`, labels, lookups | web service, both lookup servers, admin CLI, each a process |
| Web service, `server.py`, `auth/login.py`, `identity/linking.py` | requests in flight | `/challenge`, `/authenticate`, `/link`, `/identities...`, `/unlink`, `/nostr-admin/api/...`, read-only pages | browsers |
| Settings, `config.py` | environment variables, fixed while a process runs | policy switches, limits | all |
| Portal client, `ynh/portal_client.py` | none | `GET /me` of YunoHost's portal | web service |
| Session minting, `ynh/sessions.py`, `ynh/mint_session_server.py`, `ynh/portal_cookie.py`, `ynh/ldap_lookup.py` | session files of the portal | one request per connection, a thread each, ten-second timeout in the client | web service |
| Relay lookup, `ynh/relay_lookup_server.py`, `identity/relay_cache.py`, `identity/relays.py` | table `relay_lists` | lookup with a TTL cache, a thread per request | local consumers |
| Identity lookup, `ynh/identity_lookup_server.py` | none | one lookup per connection | local consumers |
| Admin CLI, `admin_cli.py` | none | link, unlink, revoke, rename, list | administrators |
| Page scripts, `web/static/nostr-*-page.js`, `nostr-connect-ui.js` | page state, signers in local storage | sign-in, linking, administration flows | users |

What is hard about it:

* *Time and locks.* `consume` reads the clock, waits for SQLite's write lock,
  marks the row, and judges expiry last. `issue` purges expired rows in the
  same table. Both may give up waiting, and a process may die anywhere.
* *Check, then write.* `link` and `add_identity` look at the owner of a pubkey
  in one transaction and write in another; the UNIQUE constraint and the
  rollback are what holds.
* *Four programs open one database*, and each may run the migration.
* *One event loop.* The handlers are coroutines that call SQLite, the portal
  and the helper synchronously: nothing else runs in the service meanwhile. That
  makes revocation take effect, and it makes every timeout matter.
* *Late answers.* The session helper does not know that its caller gave up.
* *Restarts with another policy.* Challenges survive them, requests do not.
* *A cache that many threads fill*, from relays that may not answer.
* *Asynchronous pages.* A click handler may be overtaken by another one at each
  of its awaits, and each of them enables buttons for the whole page.

## 2. Modules

    OneShotNonce     AccountKeys            what each store promises
         |  \           /  |
         |   AuthService   |                the web service, using the promises
         |                 |
    ChallengeStore    MappingStore          the stores, statement by statement

    RelayLookup                             the relay lookup daemon, its cache
    LoginPage                               the sign-in page in the browser
    AccountPage                             the account page
    AdminPage                               the administration page

Each of the seven modules M that are not abstract has its theorems in
`M_proofs`. `MCMappingStore`, `MCAuthService`, `MCAccountPage` and `MCAdminPage`
give TLC a legacy table, the policies and the symmetries of its instances.

`OneShotNonce` and `AccountKeys` are abstract specifications. `ChallengeStore`
and `MappingStore` are shown to implement them (`ImplementsOneShot`,
`ImplementsAccountKeys`), so `AuthService` may build on the promises and need
not carry the statements of SQL.

### ChallengeStore

Workers are processes. Each statement of `issue` and `consume` is an action, in
the order of the code: `IssueStart` (new_challenge), `IssueReadClock`,
`IssueBegin` (the DELETE, which opens the transaction), `IssueCommit`,
`IssueReturn`; `ConsumeStart` (reads the clock), `ConsumeBegin` (BEGIN
IMMEDIATE), `ConsumeMiss` or `ConsumeMark`, `ConsumeCommit`, `ConsumeReject` or
`ConsumeAccept`. `LockTimeout` is the busy timeout, `Crash` the end of a
process, `Tick` the clock. `db` is the committed table and `txn` what the
holder of the write lock sees. The variables under "history" record what no
program stores: who was given what, and when.

### MappingStore

Workers are the programs that open the database. A method is the sequence of
its transactions (`LinkCheck`, `LinkWrite`, ...); a transaction is one step,
because SQLite makes it one. `served` records whose call took a step, for the
properties about who may take what from whom. MCMappingStore gives TLC a legacy
table with one enabled and one disabled identity.

### AuthService

`req` holds the request every client has open: where its handler is (`at`),
what it is, and its locals. Between arrival and answer a handler leaves the
loop only at stage `body`; `MayRun` is the loop. So the handlers of two
requests interleave only there, while the CLI, the helper, the portal and
restarts come between any two calls a handler makes. An event is a nonce, a
pubkey and whether it verifies. The portal's sessions begin and end without the
service (password logins, logouts, expiry), so the portal may confirm or refuse
any cookie at any time. A job is what the session helper was asked for;
`Orphaned` and `Restart` take its caller away. The `granted` history counts what
every challenge has brought about, `removed` the bindings a page was told are
gone. `Policies` is what the service may be started with: every restart takes one
of them.

### RelayLookup

A request is a thread; `pc` and `call` are its place and its locals in
`_resolve_relays`, `asked` (a history) what was so when it came in: whether the
cache had a list, and of what date. Every access to a
database is a step of its own (`LookUp`, `ReadCache`, `Store`, `Reread`), since
the cache's two statements are two connections, and so is the reading of the
clock before the row is stored (`ReadClock`). A fetch returns a list or an
empty one, or raises. `Restart` ends all threads and keeps the rows; `Link`,
`Unlink` and `Publish` are the other programs and the pubkey's owner.

### LoginPage

A click starts a flow, which is the async function the handler of its button
calls; `at` is the await it waits at. Between two awaits nothing else runs, so
an action goes from one await to the next and includes the `catch` and
`finally` blocks on the way. `Connected`, `ConnectFails` and `QrEnds` are the
outcomes of connecting a signer, `Advance`, `Refused` and `Accepted` those of
`performSignIn`, which all kinds share. `Accepted` starts the navigation to the
portal; the page is `Live`, and takes clicks, until `Leave` commits it. `enabled`, `shown`, `qrBox` and
`controller` are what flows share and overwrite. `Elsewhere` is the account
page in another tab, which writes the same local storage.

### AccountPage

The same shape as LoginPage, with flows that end in a reload. `at` goes from the
connection of a signer (`connect`) to the challenge and the signature (`sign`),
the request (`post`, and `answered` once the server has acted), the reload
(`load`, and `loaded` once the server has answered) and the end. `Post` is the
moment at which `performLink` decides between adding and replacing. `End` is all
`finally` blocks of a flow together. The server is one variable, `row`: `Serve`
and `ServeList` are its handlers, `Elsewhere` is another device, `OtherTab`
another tab with the same local storage. An identity is known by the flow that
links it, so `about` and `list` can be compared with what a flow asked for.
`Render` resets the choice of an account without identities and hides the
linking controls once the policy forbids linking, for the rest of the visit.
`saved` is which signers local storage has. Two histories: `asked`, the flows
that were started to add, and `joined`, that a restore was started while others
were linking, and that not all of them have ended. `End` drops what a flow leaves
behind, as its locals go with the call.

### AdminPage

Flows are handlers that may be under way at once, and are used again, so a visit
is as long as TLC likes. `Rows` is what `renderRows` draws; it is called by each
reload and each change of the filter. `timers` are the pending timeouts of
`showBanner` in the order they fire. `later` is a history variable: what the
identity of a flow has been on the server since the flow's request was served.

## 3. What TLC checks

| Run | Instance | Checks |
|---|---|---|
| `challenge_store` | 2 processes, 2 challenges and a made-up nonce, lifetime 1, clock to 3; 341,041 states | `SingleUse`, `OutstandingKept`, `UsedKept`, `VerdictsForCause`, `ExpiredGoOnIssue`, `CallsReturn`, `ImplementsOneShot` |
| `challenge_late` | the same with one challenge | `ExpiredNeverAccepted`, which fails |
| `mapping_store` | 2 processes, 2 accounts, 2 pubkeys, ids to 7; 310,492 states | `OneOwner`, `TakenAwayOnlyForOwner`, `IdNeverRebound`, `RevocationHolds`, `NeverLeftWithout`, `OpenMeansMigrated`, `ImplementsAccountKeys` |
| `mapping_twice` | ids to 5 | `CopiedOnce`, which fails |
| `auth_service` | 2 requests, 1 challenge, 1 pubkey, an account and an administrator, restarts with everything open or paused; 188,640 states | `ChallengeBuysOneEffect`, `RemovalBeatsLogin`, `PauseHolds`, `LoopReleased` |
| `auth_host` | 1 request, 2 hosts | `SessionHostIsRequestHost`, which fails |
| `relay_lookup` | 2 threads, 1 pubkey, TTL 2, clock to 2; 538,734 states | `UnlinkedRefused`, `NeverEmptyHanded`, `StaleOnlyOnFailure`, `RequestsAnswered` |
| `relay_lost` | 1 thread | `KnownListKept`, which fails |
| `login_page` | 3 flows; 2,339,376 states | `ButtonsComeBack`, `CancelHasATarget`, `SignersDisposed`, `OneAtATime` |
| `login_cancel` | 3 flows | `CancelCloses`, which fails |
| `account_page` | 2 clicks, an identity of another device; 571,104 states | `FlowsCleanUp`, `CancelHasATarget`, `OverlapOnlyByRestore`, `OwnChangeShown`, `LinksAsAsked` |
| `admin_page` | 2 handlers at once, 1 pubkey, 2 timers; 500,714 states | `BannerClears`, `OwnChangeShown` |

The type invariant of a module is checked with its first run.

*Why the bounds are enough.* Two processes suffice for every race in the stores:
each hazard is between one call and one other. A lifetime of 1 with the clock
up to 3 lets a challenge be issued late, expire while another is in time, and be
purged. Ids up to 7 leave room for two migrations and two inserts after them. In
AuthService one challenge is presented by both requests, and one key is what a
login and its removal, or two owners, contend for; `Admitted` and
`RightAction` are exercised by both actions, before, during and after a pause
(the proofs are for any set of policies). Relay lists
of different pubkeys share nothing but the database's lock, so one pubkey is
enough; with a TTL of 2 an entry stored at time 0 expires at time 2, while one
thread fetches and another stores. On the sign-in page three clicks are the
fewest with which there can be two QR flows, since a flow of another kind must
enable the button between them.

AccountPage has eleven kinds of clicks, each of its hazards is between two, and
two clicks may be of any kinds, with other devices and tabs at work. AccountPage_proofs
covers any number of them. AdminPage has one pubkey:
requests are about one identity each, and what replacing another one does to
this one is what `Elsewhere` does. Two handlers show every race of a reload with
a change, and two timers every race of a timer with a message; `MaxTimers` is
the only bound, and delays a success while two timers are pending. Clicks and
handlers are interchangeable, so both runs use symmetry.

What the pages' properties are about: on the account page two flows that link
can overlap in one way only, by the restore button, which `updatePasskeyUi`
enables while the first flow reloads (`OverlapOnlyByRestore`); the first of the
two that ends enables the other buttons, so more may follow, until all of them
have ended and the next link is alone again. As long as no restore has joined,
the decision between adding and replacing, taken after the signature,
is what was chosen at the click: other flows' reloads reset the choice only with
a list that is empty, and the choice is disabled meanwhile (`LinksAsAsked`).
Reloads may be drawn in any order, but each is asked for after
its change was served, so the list that a change is followed by has it
(`OwnChangeShown`, on both pages). That is all it says: an older list, which
another flow was sent before, may still be drawn over it. Each flow's `finally` blocks set the buttons of
the whole page, and still leave none disabled, no box open and no signer
connected (`FlowsCleanUp`, `CancelHasATarget`). On the administration page timers
of earlier successes leave errors alone and find every success
(`BannerClears`), and its type invariant says that the form is locked exactly
as long as an identity is being added.

*Time in RelayLookup.* `cache.store` dates its row and then waits for SQLite's
lock, 5 s by default (`relay_cache.py` sets no other). A row may so be dated up
to `LockWait` too early. `Tick` assumes that a thread is not suspended for longer
than that between these two lines, and the run has LockWait below the TTL (which
is 3600 s unless configured): with a smaller TTL a late row would be stale
already when it is stored.

*Fairness.* `CallsReturn` assumes that a process inside a call keeps being
scheduled, and that SQLite's busy handler gives up in the end (the 5 s of
`challenge.py:82-84`). `LoopReleased` assumes the same of the process that holds
the event loop, and that a call to the portal or the helper ends: both have
timeouts (`portal_client.py`, `sessions.py:35`). Nothing is assumed of the
helper, of clients or of the CLI: bodies may never arrive. `RequestsAnswered`
assumes that a thread keeps running and that its fetch ends: `fetch_events`
has a timeout (`relays.py:88`), while `connect()` and `shutdown()` around it
(`relays.py:85`, `:92`) have none of their own and are taken to return. It is not
assumed that a fetch succeeds, nor that the database is ever free. The pages have no fairness: a signer may never answer. That a success
fades is therefore stated as the pending timer that will clear it.

*What the failing runs show.* Each contradicts a sentence of the repository:

1. `challenge_late`: a caller of `consume` reads the clock, waits for the lock
   while the challenge expires, and is given it (`challenge.py:117`; the
   docstring of `login.authenticate` says an expired nonce never gets there).
   What does hold is in `VerdictsForCause`: the *call* was made in time.
2. `mapping_twice`: two processes read `user_version` 0, one migrates and
   serves an unlink, the other migrates again; the unlinked identity is back
   (`mappings.py:79`, "once").
3. `auth_host`: the session is minted for the host of the challenge, which need
   not be the host of the request (`login.py:59`; `session.py:28`).
4. `relay_lost`: when no relay answers, `fetch_relay_list` returns `[]` and does
   not raise; the empty list replaces the cached one, where "stale is better
   than nothing" (`relay_lookup_server.py:67`) was meant for this case. One
   thread shows it; that a late empty result of another thread does the same is
   not what this run is about.
5. `login_cancel`: while a QR code is shown, the local-key and passkey buttons
   stay enabled, and a flow started there enables the QR button at its end. The
   controller of a second QR flow then replaces the first one's, and Cancel does
   not close what it is said to close (`nostr-connect-ui.js:118-121`).

Four more disagreements are in the models, and no run states them: two lookups
that miss the cache at once both fetch (`RelayLookup`; `config.py:57`: "at most
this often per pubkey"); adding a revoked identity again is refused, and only
replacing brings it back (`AdminPage`, `AccountKeys`; `nostr-admin-page.js:167`:
"It can be re-linked later"); the answer to an unlink clears the saved signers
even if one of them was remembered and linked while it was under way
(`AccountPage`; `nostr-account-page.js:510-513` speaks of the identity just
unlinked); and a link that was started to add replaces if a list was drawn empty
before its signature came, and so removes what another device has linked since
(`AccountPage`, the case that `LinksAsAsked` excepts; `nostr_account.html:208`:
"Add another identity").

## 4. What is proved

`ChallengeStore_proofs` proves with TLAPS, for any number of workers and
nonces, any lifetime and any bound on the clock, from the four named
assumptions of ChallengeStore (the made-up nonce is a nonce, the lifetime is
positive, the bound is a natural number, nobody is no worker):

* `TypeCorrect`, `SingleUseHolds`, `OutstandingKeptHolds`, `UsedKeptHolds`,
  `VerdictsForCauseHolds`, `ExpiredGoOnIssueHolds`: the properties of the run
  `challenge_store` of these names;
* `StoreImplementsOneShot`: every step of the store is a step of OneShotNonce or
  leaves it alone.

None of the invariants is inductive. `SingleUse` needs to know that the worker
that is about to be given a nonce is the only one (`JudgeInv`), which needs
that its commit found the row pending (`CommitInv`), which needs the write lock
(`LockInv`), that what a transaction sees is the committed table (`SelectInv`,
`TxnInv`), and that a nonce once marked never looks pending again (`SpentInv`).
`OutstandingKept` and `UsedKept` need that rows carry the expiry of their
challenge (`ExpiryInv`), that no purge works with a time from the future
(`TimeInv`), and that two calls of `issue` never carry the same nonce
(`IssuingInv`, `UnstoredInv`). `IInv` is their conjunction; there is a lemma per
action, and TLC has confirmed IInv on the instance of the run first, as it has
the invariants of the other modules. `ExpiredGoOnIssue` needs one more,
`PurgedInv`: a purge uses a time no earlier than the issue of its challenge, and
as only the holder of the lock writes (`PurgedByOthers`), nothing that expired
before it is in the table at the commit.

`MappingStore_proofs` proves, for any processes, accounts, pubkeys, legacy table
and any bound on the ids, from the three named assumptions of MappingStore (no
two legacy rows have the same user or the same pubkey; nobody is no account; the
bound is positive), every property of the run `mapping_store`:

* `TypeCorrect`, `OneOwnerHolds`, `OpenMeansMigratedHolds`: invariants;
* `TakenAwayOnlyForOwnerHolds`, `IdNeverReboundHolds`, `RevocationHoldsAlways`,
  `NeverLeftWithoutHolds`: what no step does;
* `StoreImplementsAccountKeys`: the refinement of AccountKeys.

The inductive invariant adds to `TypeOK` and `OneOwner` that the id sequence is
ahead of every row (`FreshInv`, without which an insert might rebind an id) and
that once `user_version` is set every legacy pubkey has been copied
(`CopiedInv`). Most of the rest follows from one lemma,
`TableChange`: a step leaves the table alone, extends it by rows with fresh ids,
replaces an owner's rows, removes them or revokes one. The refinement looks at
the rows of one pubkey at a time: `KeyCases` says what AccountKeys sees of them,
and `LinkLinks`, `AddAdds`, `RemovesUnlinks`, `RevokesRevokes` and
`MigrateImports` match each kind of change with an action of AccountKeys.

`AuthService_proofs` proves `TypeCorrect`, `ChallengeBuysOneEffectHolds`,
`RemovalBeatsLoginHolds` and `PauseHoldsAlways` for any clients, nonces,
accounts, pubkeys and hosts and any policies a process may be started with. Its
assumptions: administrators are accounts, the names for nothing (`Nobody`,
`NoNonce`, `NoClient`) are not things, there is a pubkey and a host, and a policy
is two switches. What carries it is `LoopInv`: of the handlers that await
nothing, one is under way. So nothing that a request of this process does comes
between a login's lookup and its cookie (`RemovedInv`), which is what
`RemovalBeatsLogin` needs; the CLI tells no page anything. `PaidInv` says that
a handler past its redemption has an accepted nonce with no effect yet, for an
action of the right sort; since acceptance is once, no two handlers have the same
one. `AdmittedInv`: the requests of a process are those its settings admit, for a
restart ends them all.

`RelayLookup_proofs` proves `TypeCorrect`, `UnlinkedRefusedHolds`,
`NeverEmptyHandedHolds` and `StaleOnlyOnFailureHolds` for any threads and
pubkeys, from one assumption about times: that the TTL is positive and longer
than SQLite's lock wait, see "Time in RelayLookup". The invariant says what a
thread knows at each statement: that its pubkey was linked (`LinkedInv`), that a
list cached when it came, or one that is not older but for `LockWait`, is there,
and in its hands once it has read it (`CachedInv`), and that a row it reads back is not older than `LockWait` at its
arrival, whichever thread stored it (`RereadInv`).

`LoginPage_proofs` proves `TypeCorrect`, `ButtonsComeBackHolds`,
`CancelHasATargetHolds`, `SignersDisposedHolds` and `OneAtATimeHolds` for any
number of clicks (assuming that "no flow" is not a flow). That the page comes back
needs more than the page at rest: `HoldingInv` says that the buttons a QR flow
leaves alone are enabled unless a flow of another kind, or one past its
connection, is under way; `ControllerInv` whose the box and the controller are;
`AloneInv` that before the first QR code a flow finds every button disabled.

`AccountPage_proofs` proves `TypeCorrect`, `FlowsCleanUpHolds`,
`CancelHasATargetHolds`, `OverlapOnlyByRestoreHolds`, `OwnChangeShownHolds` and
`LinksAsAskedHolds` for any number of clicks and of other identities (assuming
that these are different things, and neither of them "none"). A disabled button
has a flow that will enable it (`HeldInv`); unless a restore has joined it, a flow
that links has the others disabled (`AloneInv`), and nothing but it decides
whether to add (`AskedInv`, `ModeInv`). `RowInv` and `AnswerInv` follow a change
from the server to the list that the flow is sent: what is gone stays gone, what
was linked is on every later list unless it is gone again.

`AdminPage_proofs` proves `TypeCorrect`, `BannerClearsHolds` and
`OwnChangeShownHolds` for any pubkeys, searches, handlers and number of timers.
`BannerInv` is that a success on show has a timer; a timer of an equal text that
fires first clears it, so none is left standing. `LaterInv` ties the list a
reload was sent to the states since the change. That the form is locked exactly
while it is under way needs that it is sent once at a time (`OneFormInv`).

Every invariant and action property of the passing runs is thus a theorem. Only
checked by TLC: the liveness properties (`CallsReturn`, `LoopReleased`,
`RequestsAnswered`), which are out of the prover's reach, and the failing runs.
The proofs are about the specifications without fairness, which those with
fairness imply.

## 5. What is not modelled

* ChallengeStore: the in-memory mode (`_pending`), which the service never
  uses; collisions of nonces; a clock that is set back; the columns domain and
  action, which the store gives back untouched (AuthService has them).
* MappingStore: the columns last_used, label, signer_type, linked_by and the
  methods that write only these; the read-back at the end of `add_identity`.
* AuthService: renaming, read-only endpoints and the contents of responses;
  signatures, tags and the time window of events; the ways the portal or the
  helper fail, which end a request alike.
* RelayLookup: the peer check and the parsing of a request, which end it alike;
  the contents of lists, of which only "empty" matters.
* LoginPage: messages and labels; the search for a browser extension, which only
  changes a subtitle; the moment between the click on the QR button and the
  subscription; what the vendored bundle does with an aborted subscription or a
  rejected connection. A microtask after a connection that fails at once is an
  ordinary await here, so the model has a few more interleavings than a browser.
* AccountPage: messages, labels, the mask of a generated key and copying; a page
  without the passkey bundle; a browser without an extension, which ends the
  click at once; the display of a recovery key that arrives late. Challenge and
  signature are one await, and so are the policy and the list of a reload.
* AdminPage: other accounts, labels and so what a rename shows, what is typed into the form while its
  request is under way, and the reasons why the gate stays closed.
* Where prose and code differ and no run is needed to see it: unlinking and
  revoking ask for a portal session and no signature, deliberately
  (`linking.py:126-129`), while the docstring of that module says both are
  always required (`linking.py:3-9`). AuthService follows the code.
* npub.py, page.py, permissions.py, HTML and vendored bundles: no state, or not
  this project's code.

## 6. Plan

1. `MintService`: threads of the session helper, peer check, LDAP, session
   files and tokens; that a token that is delivered names a session on file, and
   the theorem of it in `MintService_proofs`.
2. `LookupProtocol`: the bounded line reader and the framing of the sockets, as
   recursive functions over chunks, against a reference definition; the relay
   list as a pure function of an event's tags.
