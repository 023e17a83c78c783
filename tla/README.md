# VeritasVPN: models and proofs

TLA+ models of the parts of VeritasVPN where state is shared between concurrent
requests, services and machines, the TLC runs that check them, and TLAPS proofs
of what matters most. Source paths are relative to the repository's root.

## The system

| Component | State | Operations | Interacts with |
|---|---|---|---|
| **wg-manager, provisioning** (`services/wg-manager/internal/service`, `repository`, `entitlement`) | table `peers` (one row per account and server, partial unique index on live addresses), one address bitmap per server in Redis | CreatePeer, DeletePeer, MarkPeerActive, ListPeers | clients over HTTP; agents' reports; delivery |
| **wg-manager, delivery** (`communicator`, `hub`, `handler/http.go`) | per stream a channel of 32 updates; goroutines that push with three attempts | push ADD/REMOVE, catch-up, subscribe, forward | goroutines of provisioning; agents over server-sent events |
| **veritas-agent** (`services/veritas-agent`) | kernel interface wg0 (survives the agent) | start-up, stream loop, ADD/REMOVE, report, heartbeat | wg-manager |
| **wg-manager, registry** | table `servers`, subnet counter in Redis | RegisterServer, HandleHeartbeat, SelectServer | agents, provisioning |
| **billing-svc** (`services/billing-svc`) | tables `subscriptions`, `payment_records` | checkout, webhook, mock settlement, cancel, status, hourly expiry | BTCPay Server; NATS events |
| **tier synchronisation** (`auth-svc/.../subscription_sync.go`, `wg-manager/.../tier_sync.go`) | `accounts.subscription_tier`; an in-memory map | apply renewed / expired events; resolveTier | billing-svc, tokens, the plan gate |
| **auth-svc** | tables `accounts`, `refresh_tokens` | register, sign in, refresh, reset password, delete | every client; tokens |
| **website, sessions** (`website/js/auth.js`, `billing.js`, `website/account`, and `js-v2`) | localStorage shared by all tabs; per page the user it found | sign in, refresh, status, checkout, cancel, sign out | auth-svc, billing-svc, other tabs |
| **website, sign-in dialog** (`initAuthUI` of both versions) | one dialog: mode, hidden elements, busy, a timer, a pending redirect | modes, submit, reset, close, redirects | auth-svc; the sessions |
| **desktop client** (`clients/desktop`) | React state, localStorage, the tunnel | connect, disconnect, sign in and out | auth-svc, wg-manager, Tauri commands on one thread |
| **browser extension** (`clients/browser-extension`) | chrome.storage, the proxy setting, the badge, the popup | sign in and out, toggle, save proxy, alarm, start-up | auth-svc, the browser |
| CLI, Android client | tokens, a key pair, the tunnel | connect, disconnect | auth-svc, wg-manager, the operating system |
| deployment, shared libraries, API definitions | none that other parts depend on | | |

What is hard here: the services use no transaction and no lock across
statements, so every handler is a sequence of steps that others interleave
with; PostgreSQL and Redis are written one after the other; a goroutine outlives
its request and dies with the process; updates travel over a stream that breaks
without one end noticing; webhooks are repeated; an event may be lost between a
commit and its publication, and two subjects have no common order. The clients
are event handlers with an `await` in almost every line: another handler, another
tab or the closing of a popup gets in between, and what a closure read before it
is used after it. `PROJECT.json` lists each hazard at its line.

What makes each component correct: provisioning gives an address to one live
peer at a time, loses none, and finds a free one when there is one; delivery
brings every wanted key to wg0 in the end and takes superseded ones away;
billing gives exactly the time that was paid for, and takes premium away when it
ran out; tier synchronisation makes every reader converge to the billing tables;
a refresh token is used once; a stored session is one account's; what a client
shows is what the tunnel, the proxy setting and the services have; the dialog
fits its form and leads to the dashboard with a session only.

## Modules

| Module | Models |
|---|---|
| `AddressLeases` | abstract promise: an address of a server has one holder, and passes on only through being free |
| `PeerProvisioning` | provisioning; implements `AddressLeases` |
| `PeerDelivery` | delivery, the agent and wg0, for one server |
| `Subscriptions` | billing-svc, with the payment provider as environment |
| `TierSync` | from billing's commits to a request at wg-manager: NATS, both consumers, tokens |
| `DesktopApp` | the desktop client with wg-manager's rows |
| `ExtensionProxy` | the browser extension: popup, service worker, proxy setting |
| `WebSessions` | the website's session in several tabs, auth-svc's refresh tokens, billing calls |
| `AuthDialog` | the website's sign-in dialog, both versions |
| `..._proofs` | TLAPS proofs about the module of that name |
| `MC...` | what TLC needs beside the `.cfg`: symmetry sets and plans |

`TierSync` takes up where `Subscriptions` ends (a commit, then a publication);
`PeerDelivery` where `PeerProvisioning` ends (a row, then its goroutine). They
are separate modules because their product is out of TLC's reach and because
they share no more than that: the handing over is one step in either. `DesktopApp`
and `WebSessions` contain the part of wg-manager and auth-svc that answers them.

### PeerProvisioning

Every request is a process with a `pc`, every statement to PostgreSQL or Redis
one action. `peers` is the table, `bitmap` Redis, `create` and `delete` the
requests, the goroutine of a create included, `resync` the rows an agent will
report again after a catch-up. AllocateIP is two steps (BITPOS, SETBIT), as in
`redis.go`. Regions and server choice appear as the choice of the row's server.
A create whose answer was sent lives on as its goroutine until the agent's report.
`alone` is a history field: no other writer overlapped this request.

`RedisLoss` empties the bitmaps, `Crash` ends every request, `Abandon` is a
client that hangs up (the request context is cancelled, so that ReleaseIP fails
too), a push that failed three times or a lost report; `InsertUnacknowledged`
commits and reports an error. `late_report` allows a report to arrive after the
row was removed.

### PeerDelivery

`request` holds goroutines, `stream` the handlers and hub channels, `wire` what
was written to the agent's current connection, `wg0` and `route` the kernel.
Several handlers may be subscribed for one agent, because a handler notices a
dead connection only when it writes. Keys are presented once, as clients
generate one per connection. The catch-up query and the subscription are two
steps; rows that are inserted between them rely on the retries of their own
goroutine. The agent's process and its loop are one: kernel peers survive the
agent, not the host (`Reboot`).

Two facts about WireGuard are modelled from how the agent uses it: configuring a
peer's allowed IPs moves them from the peer that had them, and removing a peer
frees them.

### Subscriptions

Each read and each write of a row is a step, with what was read kept in the
process record; `time.Now` is taken in the step that reads. `hook` is a webhook
(or mock settlement), `checkout` a POST /subscribe, `expirer` the worker or a
status request. `unacked` holds events the provider keeps sending until it is
answered with success, in any order and repeatedly. `credits`, `granted` and
`paidUntil` are history variables: what invoices did, and what they should have
done, each counted once.

Two more name what the code does lose. `raced` has the accounts whose row was
written while another operation held what it had read of it (`Held`), or whose
cancelled, running period a checkout gave up (`GivenUp`); `redone` the invoices that
two deliveries worked on at once, or that a crash or a failed statement left extended
and not completed (`Extending`), to be extended again by the repeat. PaidTimeKept
exempts the accounts in `raced`, PaidTimeExact those and the accounts with an invoice in
`redone`; every other interleaving and failure is covered. Nothing in the code reads
these variables.

### TierSync

One account. `paid` is billing's row, `outbox` what is committed and not yet
published, `queue[c][s]` the messages in NATS's subscription of consumer `c` to
subject `s`, each served by a goroutine of its own. `account` is the row in
auth-svc, `tokens` the access tokens that are out, `cache` wg-manager's map;
`resolveTier` prefers the cache to the token, as `service.go` does. A token is made in
two steps, `ReadAccount` and `IssueToken`. Faults: a publication
that never happens or misses one consumer, an update that fails (it is logged, not
repeated), a restart of either consumer, which loses its queues and, for
wg-manager, the map. The change number `n` in rows and events is history; no guard
of the code's actions reads it.

### DesktopApp

`ui` is React's state, `stored` localStorage, `auth`, `connect` and `disc` the
handlers that are under way, with what their closures read. handleConnect is
refresh, POST, bring-up, with its rollback; handleDisconnect is tear-down, clear
the screen, DELETE with a time limit of five seconds, clear the screen again.
Tauri's synchronous commands run one after the other on the main thread: `commands`
is their queue. `rows` is what wg-manager has after the POSTs and DELETEs that
reached it, `late` the DELETEs nobody waits for. `SmallPlan` are accounts with one
device. wg-manager has one server and the scripts are one step that
succeeds or fails; after a failed tear-down (`incomplete`) the screen is cleared and
the row kept.

`mishaps` is history: what failed, and what the user did out of the ordinary
(`hurried`: connected while a disconnect was under way; `switched_form`,
`switched_account`). Every property names the mishaps it excepts, and holds under
all others; what happens under the excepted ones is listed under Divergences. The
other client modules do the same.

### ExtensionProxy

`store` is chrome.storage, `setting` the browser's proxy, `badge` and `popup` what
the user sees, `tasks` the handlers and the service worker, each with its place
between two awaits. Closing the popup ends its handlers where they are
(`ClosePopup`); the worker goes on. Chrome may refuse to set the proxy, which
`connect` passes on, and to clear it, which `clearProxy` swallows: disconnect and
sign-out then go on with the proxy in place (mishap `clear_failed`). A connect that
sets the proxy while a disconnect is between clearing it and storing `false` is
`crossed`. The alarm reads storage and setting in one step
because `chrome.storage.local.get` answers with a snapshot. `Restart` keeps
storage and setting, may lose the badge, and starts `onStartup` or `onInstalled`.

### WebSessions

`stored` is localStorage, `pages` the tabs with the user each found when it was
loaded, `calls` the requests with what they have read. A refresh sends the token
it found (`refreshing`), auth-svc looks it up (`ReadToken`), then deletes it with the
result ignored and issues another (`RotateToken`), and the page stores the answer. `live` is the table `refresh_tokens`, `issued` all tokens with the
sign-in they descend from. Cross-tab storage events are not listened to, so that
pages keep what they show. Both versions of the scripts have this code.

### AuthDialog

`visible` is the set of elements that are on the screen, the style sheet taken into
account, and `setMode` of either version the function from a mode and what is
visible to what is visible then. Where css gives an element a `display` of its own,
the `hidden` attribute does nothing: the switch hint can be clicked in every mode
(it is not in the set), and version 1's password field stays; version 2 takes that
away by `style.display` and never brings it back. A
request is one of four, at most one is under way (`busy`), and its answer finds the
dialog in whatever mode, open or closed. A registration may be refused (`Refused`) or
succeed without its answer (`AnswerLost`): `created` counts the accounts and those
lost ones. `timer` is version 1's 800 ms, `pending`
the redirect that a link to the dashboard asked for.

## Runs

All with two workers, each within five minutes; the largest are `billing_races`
and `delivery_loss` with over two million states, the longest about two and a half
minutes.

| Run | Checks | Bounds |
|---|---|---|
| `provisioning_races` | TypeOK, UniqueLiveAddress, UndisturbedCreateSucceeds | 2 accounts, 1 server, 2 addresses, 2 overlapping creates, no delete; Redis loss, lost commit, crash, failed push |
| `provisioning_reports` | LeaseSpec (refinement) | 1 create, 1 delete; late and repeated reports, Redis loss, hang-ups |
| `provisioning_leaks` | NoLeakAtRest | 2 creates, 1 delete, clients that wait and use fresh keys; Redis loss, database errors, lost reports |
| `delivery_loss` | TypeOK, NotLost | 1 account, 2 keys, 2 requests, 2 streams, channels of 1, 2 attempts; any one of 7 faults |
| `delivery_live` | EventuallyServed, OneKeyPerAccount | 1 request, 2 keys, 2 streams; one of 4 faults; fairness |
| `billing_races` | TypeOK, TimeIsPaidFor, PaidTimeKept | 2 invoices, 2 overlapping webhooks, checkout, status request, worker, cancellation; no faults; 3 instants |
| `billing_faults` | PaidTimeKept, PaidTimeExact, CompletedWasCredited, SettledIsCompleted, DueFallsBack | 2 invoices, 1 webhook at a time, checkout, worker, cancellation; 1 fault out of crash, database and provider error; fairness; 4 instants |
| `tier_sync` | TypeOK, AccountFollows, ServedAsPaid, EventuallySynced | 3 changes, 2 faults; fairness; deadlock checked |
| `desktop_overlap` | TypeOK, ConnectedMeansTunnel, ConnectedMeansServed, NoStaleRow, StoredSessionIsOneAccount, NewIdIsShown, NoRequestThroughTunnel | 2 accounts (one of a plan with one device), 2 connects, 2 overlapping disconnects, one failure of 5 kinds |
| `extension_overlap` | TypeOK, LabelsAreTrue, HiddenProxyNever, SignedOutIsHealed | 2 handlers and the worker, 3 kinds of mishaps; fairness; deadlock checked |
| `web_tabs` | TypeOK, SessionIsOneAccount, OneLiveToken, PageActsForItsUser | 2 accounts, 2 tabs, 2 calls, 3 refresh tokens, 2 kinds of mishaps; deadlock checked |
| `dialog_page` | TypeOK, FormFits, OneSeenAccount, LeavesSignedIn | both versions, pages with and without the forgot view, 3 registrations |

What they show, beyond the names: every definition that carries a property is
broken once by a mutant that a plausible slip would produce (`PROJECT.json`,
"mutants"), and TLC then finds the property violated on the same instance.

Why the bounds are enough. An address conflict needs two rows of one server; two
addresses make both "the free one is taken" and "both are taken" happen, and
`TryLimit = 2` relates to them as 254 attempts to 254 bits. Channels of one
update overflow with the second; two attempts show a retry and a give-up; two
streams are the old and the new connection. A period of one tick within
three or four instants has payments before, at and after the end of a period.
Three changes of a subscription are a change, its reversal and one that meets
either; two faults lose both consumers' copies, or a copy and the cache. Two
connects are the old and the new tunnel, two disconnects the overlap
of the button with a sign-out or with itself. Two handlers of a popup overlap in
every pair, and the third process, the worker, with both; that a third handler adds
nothing is what `NeverHiddenProxy` proves for any number of them. Three refresh tokens are
a sign-in, a refresh and either a second refresh or another account's sign-in.
`MaxAccounts = 3` is an
account whose registration was not answered, the retry, and the one that must not
happen.
`FaultLimit`, `MishapLimit`, `MaxTime`, `LastBit`, `TryLimit`, `BufferSize`,
`MaxChanges`, `MaxConnects`, `MaxTokens` and `MaxAccounts` are the only bounds;
`InvoiceLeft` keeps a checkout from starting when the instance has no invoice
left. A client with two kinds of mishaps at most leaves no property untested:
each excepts some kinds, and the run has every pair (every three in the
extension). Deadlock is checked where something can always happen, and not where
clients need not act and the instance may stop.

Fairness. Goroutines, handlers, the agent's loop and the worker are scheduled
whenever they can step (weak fairness); the agent redials every five seconds for
ever (`main.go:560`); the provider repeats unanswered webhooks (`Deliver`); the
worker wakes every hour. In `TierSync` a publication that was begun, the four
subscriptions and the signing of a token go on, and a token expires. In
`ExtensionProxy` Chrome answers its calls and fires the alarm every 30 minutes; the
answer of the API is not assumed. Clients, users, payments, the clock and faults
have no fairness. Faults are bounded, which stands for "in the end nothing fails".
`DesktopApp`, `WebSessions` and `AuthDialog` have safety properties only: what
they wait for is a user or a network call.

## Proofs

For every value of the constants that satisfies the module's named assumption:

### PeerProvisioning_proofs

For all sets of accounts, servers, keys and
requests and all subnet sizes:

- `TypeCorrect`, `AddressesUnique`: `Spec` implies always TypeOK and
  UniqueLiveAddress;
- `ImplementsLeases`: `Spec` implies `AddressLeases!Spec` under the mapping
  that reads the holder of an address off the live rows;
- `UndisturbedCreatesSucceed` (UndisturbedCreateSucceeds, an action property), for
  `TryLimit > LastBit`: the code makes 254 attempts for the 254 addresses of a /24;
- `NeverLeaksAtRest` (NoLeakAtRest), for `CarefulClients`: clients that wait for
  their answers and make a key per connection, and no crash, cancelled context,
  failed push, lost commit or late report. These are what `provisioning_leaks`
  excludes; each of them does leave a marked address behind in the code.

The inductive invariant is `IInv == TypeOK /\ UniqueLiveAddress /\
RowsBehindRequests`. Uniqueness alone is not inductive: a report makes a row
active, and without RowsBehindRequests (what requests, reports and catch-ups carry
names rows that were written) a request could name a row whose address is none. The argument: rows become live in two ways only,
a create's insert and a report, and both pass `UniqueIndexAdmits`; nothing else
writes an address. Hence the bitmap plays no part in safety, as the comment at
`service.go:225` says. `IInvParts` splits IInv along the variables (table,
creates, the rest), there is one lemma per kind of write, and `NextIInv`
puts the actions together. The refinement needs uniqueness: `HolderOf` is a
CHOOSE that only then is determined.

`LoneCreates` is what the loop over candidates knows as long as nobody overlaps it:
at its n-th attempt every bit below n is marked, and a candidate that was found
free in the table still is when it is inserted. The bitmap may lose its bits at any
moment; the request is then no longer alone. With more attempts than bits the loop
therefore ends only when all bits are marked.

`LeakInv` follows every marked address: it is in use by a live row, or carried by a
create that will insert or release it, or returned by the create or delete that
took it out of its row (`MarksAccounted`). That rests on two more parts: an account
has one request at a time (`OneRequest`), so that what a request read of its row
before it writes still holds (`RowsKnown`). Without the latter the address to be
released could be one the row no longer has.

### PeerDelivery_proofs

`TypeCorrect`; `WantedPeersNotLost`: NotLost for any number of accounts,
requests, streams and faults; `OneKeyInTurn`: OneKeyPerAccount for any number of
accounts, keys, requests and streams and any channel capacity in every behaviour in
which requests of one account, with their goroutines, follow one another
(`TakesTurns`), while those of different accounts overlap. NotLost is a disjunction over the places a key may
be in, and a REMOVE under way destroys it unless it names another key. `KeyInv`
says so: a key, once inserted, stays with its account's row or is spent
(superseded or deleted), and every REMOVE, in a goroutine, a channel or on the
wire, names a spent key. `SafeStays` has one case per place a key may be in,
`SafeAfterCatchUp` the step that ends a catch-up. Accounts are finite
(`AccountsAssumption`): the catch-up sends a sequence.

OneKeyPerAccount depends on an order: the REMOVE of a key and the ADD of its successor
pass through the goroutine, the channel and the wire, and the catch-up adds rows in
between. `LineInv` therefore speaks of every state wg0 is going to have: `Pipe` is the
wire followed by the channel of the only stream there is before a failure, and
`Applied` is wg0 after the first i updates of it. After every i no account has two
counting keys (`UniqueLine`), each key has an owner (`OwnedLine`), and after the last
one the only keys left are those of the rows and one whose REMOVE is about to be
pushed (`LastLine`). `RowsFit` ties the request in progress to its row; when
requests of one account overlap it is false, and so is the property (see the
divergences below).

### Subscriptions_proofs

`TypeCorrect`; `CompletedPaymentsCredited`: a payment that is completed was
credited (`CreditInv`: so is every one whose handler is past the update);
`PremiumIsPaidFor`: TimeIsPaidFor under any overlap. Its strengthening `TimeInv`
bounds what a settlement is *about* to write, now that it has read: the end of the
period it read was granted, or is past, so the new end is within
`now + granted + Period` when it is written, and granted grows with it.

`PaidTimeAlwaysKept` (PaidTimeKept) and `PaidTimeAlwaysExact` (PaidTimeExact) have no
hypothesis: any accounts, invoices, requests, cancellations, faults and overlaps, with
the exemptions `raced` and `redone`. `PeriodInv` says what an operation that has read
and not yet written may rely on as long as its account is not in `raced`: a
settlement's new end is still the right one (`WillKeep`), a checkout takes nothing that
is paid for but a cancelled period (`WillGiveUpNothing`), and the accounts a sweep
holds have nothing paid left. A write of the account by anyone else puts it
into `raced` (`Held`), so the reader's knowledge is either still true or not
claimed. `PairInv` and `OnceInv` do the same for invoices: two handlers with one
invoice put it into `redone`, and without that a handler that goes on to the update
found it uncredited, while a credited invoice is completed or its handler about to
complete it.

### TierSync_proofs

`TypeCorrect`, `AccountInStep` (AccountFollows), `RequestsServedAsPaid`
(ServedAsPaid). The strengthening ties every copy of the tier to the change it stems
from: `EventsAgree` (an outstanding event with the last number has the tier that
is paid), `CopiesAgree` (so has a row, cache or token), `Following` (a consumer
that lost nothing and met nothing has the last change, or an event of it).

### DesktopApp_proofs

All seven properties. `WaitInv`: each command is queued once, connect's
last, and a connect that is past its bring-up has the tunnel. `TunnelInv`: what the
screen shows is up, and handlers take their turn. `ServedInv` and `RowInv`: every
row is the shown tunnel's, a running connect's, or about to be deleted by a call
that carries a fresh token of that account; the last is why the DELETE of a
sign-out reads its token before the session is cleared. `SessionInv` and `IdInv` are
the two smaller ones.

### ExtensionProxy_proofs

`TypeCorrect`, `NeverHiddenProxy`, `LabelsAlwaysTrue`. `HiddenInv` holds under any
overlap of any number of handlers: a proxy that is on is called a connection, or a
handler is about to do so or to clear it; and a disconnect that is about to store
`false` has the proxy off. The second half is what a failed clear and a crossing
connect break, the first what closing the popup breaks. At rest, then, a proxy
without a user is one that storage calls a connection, which is what the alarm looks
for: with a fair alarm that is SignedOutIsHealed, however many handlers there were.

For the labels, `Trust` says that without overlaps and closed popups one handler runs
at a time (`Alone`), and that its place in the code says what storage, proxy setting,
badge and popup may disagree about (`ProxyGood`, `LabelGood`, `BadgeGood`).

### WebSessions_proofs

`TypeCorrect`, `SessionAlwaysOneAccount`, `PagesAlwaysActForTheirUser`. `AccountInv`:
while nobody switches accounts, what is stored, what every call carries and
what every page shows are of one account (`OneSession`, `CallsAgree`, `PagesAgree`).

`AlwaysOneLiveToken`: OneLiveToken, without further hypotheses. `TokenInv` has one
part per mishap that the property excepts: what auth-svc has answered with is
live and is with its call alone (`Refs`, `Served`, short of network errors and pages
left); two calls never refresh with one token (`Apart`, short of overlapping
refreshes); and a token that is being rotated is the live one of its sign-in
(`OneLine`), which is why deleting it before its successor is stored leaves one.

### AuthDialog_proofs

`TypeCorrect`, `FormAlwaysFits`, `AlwaysLeavesSignedIn`, `AlwaysOneSeenAccount`.
`Modal` reduces every action, as far as the form is concerned, to leaving it alone
or to one setMode of a reachable mode, and `SetModeFits` shows that this keeps
`FormInv`, which also says what setMode relies on having been right before; the
rest follows the request, the timer and the redirect (`LeaveInv`, `OnceInv`,
`SeenInv`).

### What is assumed, what is not proved

The named assumptions on constants are all that is used: kinds of faults, bounds in
Nat, `None` outside the value sets, sets of processes apart. Three theorems have a
hypothesis of their own, given above: UndisturbedCreatesSucceed and NeverLeaksAtRest on
the constants, OneKeyInTurn on the behaviour; the run of the property satisfies
it. Every
invariant and action property that a run checks is proved. Only model-checked is
liveness (EventuallyServed, SettledIsCompleted, DueFallsBack, EventuallySynced,
SignedOutIsHealed): it needs ENABLED and fairness, which are outside the prover's
reach.

## Divergences seen while modelling

Where the code does not do what it, a document or the user would expect. The
models have this behaviour, and the properties are stated so that they except it
by name; no run is kept that only repeats one of these.

Provisioning and delivery:

- a reconnect of an account at its device limit is refused, because the peer that
  it would replace counts (`limits.go:85`; `service.go:213` "A reconnect for the
  same account/server replaces the previous WireGuard identity");
- one row per account and server: two devices of one account on one server take
  the row from each other, whatever the plan's number of devices;
- two overlapping creates of one account for two servers pass the plan gate
  together (`service.go:197`; `entitlement/Readme.md:5` "Plan gates applied in
  `CreatePeer` before IP allocation");
- a report that arrives after DELETE makes the row active (`postgres.go:219` has
  no condition; `IMPLEMENTATION_PLAN.md:248` draws no such transition);
- two overlapping creates on one server leave two keys on wg0 (`service.go:280`
  removes the key that was read before the insert);
- a report names the row, so that the report of a superseded key makes the row
  active before the new key is applied (`service.go:276` "Peer stays "pending"
  until the agent applies it");
- a push counts as delivered when a handler whose agent is gone takes it
  (`hub/sse.go:62` "Returns false when no agent is connected");
- the catch-up only adds: a key whose REMOVE was not delivered stays on wg0
  (`http.go:172` "push existing peers so a reconnecting agent is consistent");
- the agent configures 0.0.0.0/0 for every peer, and each ADD takes the route of
  the peer before it (`service.go:28` "server-side peer AllowedIPs (client /32)").

Billing and tiers:

- two webhooks of one invoice that overlap credit it twice (`service.go:256`
  "idempotent"); two payments settled at once extend from the same end (the
  payments plan, line 120);
- `InvoiceReceivedPayment` completes the payment before confirmation
  (`service.go:235`; the payments plan, line 92: "pending until settled");
- a crash or a failed statement between extending the subscription and completing
  the payment leaves the invoice to be extended again by the repeated webhook;
- a checkout after a cancellation replaces the running premium row, and what was
  left of the period is lost (`service.go:154` "Keep existing active free/premium period visible until
  paid");
- a premium row that an unpaid checkout made pending never expires (the payments
  plan, line 34: "Expired Premium falls back to Free");
- a stale `EnsureFree` or `expireOne` writes a free row over a premium one;
- a lost last event leaves auth-svc's tier wrong until the next one
  (`accounts.subscription_expiry` is written and never consulted); of two events that
  meet, the older may win; peers that exist when an account falls back to free are
  kept; a consumer whose NATS connection fails at start-up is never synchronised.

Desktop client:

- the second `clearUi()` (`App.tsx:288`), after a DELETE of up to five seconds,
  hides a tunnel that was brought up meanwhile; a DELETE that arrives late removes
  the row of the new connection;
- signing out during a connect leaves the tunnel up with no user; after a restart
  of the app a tunnel that is up cannot be disconnected;
- a DELETE with an expired token is refused and the refusal ignored: the row stays,
  and on a plan with one device the next connect is refused;
- switching the form during an anonymous registration hides the ID of the new
  account (`auth.ts:149` "caller must show account_id to the user once"); switching
  accounts during a refresh mixes two accounts in localStorage.

Browser extension:

- a popup closed between the removal of the session and the clearing of the proxy
  leaves the proxy on, and the alarm does not heal it: it looks for a stored
  connection;
- saving the proxy form while connected makes the label lie; the badge stays ON
  after a sign-out, and `onStartup` never sets it;
- a failed `chrome.proxy.settings.clear` is swallowed (`auth.js:172-178`): disconnect
  and sign-out leave the proxy on that storage no longer calls a connection, and
  nothing clears it;
- a connect that overlaps a disconnect or the alarm's may lose its proxy or, when it
  sets it after the clear and `connected` is stored last by the other, leave one
  that no label and no alarm sees.

Website:

- two tabs that refresh with one token: the one that is refused clears the
  session the other has just stored; leaving a page during a refresh, or a
  network error, also ends the session;
- an account page that finds no session stays blank (`account/README.md` sends the
  unauthenticated to `/?signin=1`); after another tab's sign-in a page acts for the
  other account; a status answer that comes after a sign-out shows a plan of
  nobody; signing out does not end the refresh token at auth-svc;
- `?signup=1` ends in mode signin; pages without the elements of the forgot view
  show an empty dialog in that mode; in version 2 the password field is gone after
  the sign-in by ID;
- version 1 takes a second registration, or a sign-out, within its 800 ms; the form
  of version 2 leads to the dashboard after a sign-out; a dialog closed during a
  registration never shows the new ID in version 2;
- `.auth-field { display: flex }` defeats `hidden` on the password's label in
  version 1, and `.auth-switch { display: block }` (`css/style.css:1133`) on the switch
  hint of both, which can be clicked in modes that hide it, in the empty dialog too;
- a registration whose answer is lost (`js/auth.js:547` takes that for a failure)
  leaves an account whose ID nobody has seen, and the retry makes another;
- `isAlphaEnabled` strips the query that `initAuthUI` reads afterwards;
  `apiWithAuth` and `forceRefreshAccessToken` are never called, and no page loads
  the dialog of version 2.

## Not modelled, and what remains

- Server registry: one table written by whole-row upserts, the subnet counter, and
  heartbeats that nothing ever finds missing. Subnets and servers are constants
  here. The next module to write; its hazards are in `PROJECT.json`.
- Password reset, account deletion and the token blacklist of auth-svc; refresh
  tokens are in `WebSessions`.
- What the desktop's and the CLI's bring-up and bring-down scripts do to routes and
  DNS: sequences of commands of the platform. The CLI is one sequential process
  with the desktop's calls in the desktop's order.
- The Android client: its life cycle is mostly the platform's.
- The agent's firewall, DNS and metrics, page wiring, deployment scripts, shared
  libraries and generated code: input and output, or no state that another part
  reads.

Provable next: an abstract specification of delivery (a set of keys per server that
follows the rows) and of billing (a ledger) with their refinements.
