---------------------------- MODULE DesktopApp ----------------------------
(* The desktop client: the React component App (clients/desktop/src/       *)
(* App.tsx) with its session (auth.ts), the Tauri commands that change the *)
(* tunnel (src-tauri/src/lib.rs), and of wg-manager the rows that its      *)
(* requests write.                                                         *)
(*                                                                         *)
(* Every await is a point where other handlers run: a handler is a process *)
(* whose record keeps what its closure read.  wg-manager has one server,   *)
(* so that an account has one row and the row's id is the account.         *)
EXTENDS Naturals, Sequences, FiniteSets

CONSTANTS
  Accounts,      \* accounts that can be signed in to or registered
  Disconnects,   \* handleDisconnect calls that may run at the same time
  SmallPlan,     \* accounts whose plan allows one device
  MaxConnects,   \* connect attempts; an attempt's number is its key pair
  Faults,        \* kinds of failures that happen in this instance
  FaultLimit,    \* how many of them
  None

FaultKinds == {"network", "bringup", "teardown", "restart", "expiry"}

(* mode and method.  Signing in by email and by account ID are one form.   *)
Forms == {"signin", "signup", "anonymous"}

ASSUME DesktopAssumption ==
  /\ SmallPlan \subseteq Accounts
  /\ MaxConnects \in Nat
  /\ FaultLimit \in Nat
  /\ Faults \subseteq FaultKinds
  /\ None \notin Accounts \cup Forms
  /\ "connect" \notin Disconnects

VARIABLES
  ui,        \* React state: user, peer (peerId, "" is None), newId, form
  stored,    \* localStorage: user, access and refresh token by account, fresh
  auth,      \* handleAuth: the request under way, or None
  connect,   \* handleConnect: pc, rt, token, key, created
  disc,      \* handleDisconnect calls: pc, peer, token
  commands,  \* commands waiting for Tauri's main thread, oldest first
  tunnel,    \* key pair of the interface that is up, 0 if none is
  rows,      \* wg-manager: key pair of an account's live row, 0 if none is
  late,      \* accounts with a DELETE still under way that nobody waits for
  attempts,  \* connect attempts so far
  known,     \* accounts that are registered
  mishaps,   \* history: what went wrong, or was done in an unusual order
  faults     \* failures so far

vars == <<ui, stored, auth, connect, disc, commands, tunnel, rows, late,
          attempts, known, mishaps, faults>>

Keys == 1..MaxConnects
Mishaps == FaultKinds \cup {"hurried", "switched_form", "switched_account"}
Token == [acc : Accounts \cup {None}, fresh : BOOLEAN]
NoToken == [acc |-> None, fresh |-> FALSE]
NoSession == [user |-> None, access |-> NoToken, refresh |-> None]
IdleConnect ==
  [pc |-> "idle", rt |-> None, token |-> NoToken, key |-> 0, created |-> None]
IdleDisc == [pc |-> "idle", peer |-> None, token |-> NoToken]

TypeOK ==
  /\ ui \in [user : Accounts \cup {None}, peer : Accounts \cup {None},
             newId : Accounts \cup {None}, form : Forms]
  /\ stored \in [user : Accounts \cup {None}, access : Token,
                 refresh : Accounts \cup {None}]
  /\ auth \in Forms \cup {None}
  /\ connect \in [pc : {"idle", "refreshing", "posting", "bringup", "up",
                        "failed", "rollback"},
                  rt : Accounts \cup {None}, token : Token,
                  key : 0..MaxConnects, created : Accounts \cup {None}]
  /\ disc \in [Disconnects ->
                 [pc : {"idle", "teardown", "down", "incomplete", "deleting"},
                  peer : Accounts \cup {None}, token : Token]]
  /\ commands \in Seq(Disconnects \cup {"connect"})
  /\ tunnel \in 0..MaxConnects
  /\ rows \in [Accounts -> 0..MaxConnects]
  /\ late \subseteq Accounts
  /\ attempts \in 0..MaxConnects
  /\ known \subseteq Accounts
  /\ mishaps \subseteq Mishaps
  /\ faults \in 0..FaultLimit

Init ==
  /\ ui = [user |-> None, peer |-> None, newId |-> None, form |-> "signin"]
  /\ stored = NoSession
  /\ auth = None
  /\ connect = IdleConnect
  /\ disc = [d \in Disconnects |-> IdleDisc]
  /\ commands = << >>
  /\ tunnel = 0
  /\ rows = [a \in Accounts |-> 0]
  /\ late = {}
  /\ attempts = 0
  /\ known = {}
  /\ mishaps = {}
  /\ faults = 0

Fault(kind) ==
  /\ kind \in Faults
  /\ faults < FaultLimit
  /\ faults' = faults + 1
  /\ mishaps' = mishaps \cup {kind}

NoFault == UNCHANGED faults

-----------------------------------------------------------------------------
(* What is on the screen.                                                  *)

AuthUnlessUser == ui.user = None
AuthView == \/ ui.user = None
            \/ ui.newId # None /\ ui.form = "anonymous"
ShowsNewId == AuthView /\ ui.newId # None
Dashboard == ~AuthView

(* The tabs and the link that switches the method are hidden while the new *)
(* account ID is on the screen, not while a request is under way.          *)
FormSwitches == AuthView /\ ui.newId = None

NoteSwitchedForm ==
  mishaps' = IF auth = None THEN mishaps
             ELSE mishaps \cup {"switched_form"}

(* The tabs: mode next, method email.                                      *)
switchMode(next) ==
  /\ FormSwitches
  /\ ui' = [ui EXCEPT !.form = next, !.newId = None]
  /\ NoteSwitchedForm
  /\ UNCHANGED <<stored, auth, connect, disc, commands, tunnel, rows, late,
                 attempts, known, faults>>

switchMethod ==
  /\ FormSwitches
  /\ ui' = [ui EXCEPT !.form = [signin |-> "signin", signup |-> "anonymous",
                                anonymous |-> "signup"][@],
                      !.newId = None]
  /\ NoteSwitchedForm
  /\ UNCHANGED <<stored, auth, connect, disc, commands, tunnel, rows, late,
                 attempts, known, faults>>

Continue ==
  /\ ShowsNewId
  /\ ui' = [ui EXCEPT !.newId = None]
  /\ UNCHANGED <<stored, auth, connect, disc, commands, tunnel, rows, late,
                 attempts, known, mishaps, faults>>

-----------------------------------------------------------------------------
(* handleAuth: the request is chosen by the form at the click.             *)

handleAuth ==
  /\ AuthView /\ ui.newId = None
  /\ auth = None
  /\ auth' = ui.form
  /\ UNCHANGED <<ui, stored, connect, disc, commands, tunnel, rows, late,
                 attempts, known, mishaps, faults>>

persistSession(a) ==
  [user |-> a, access |-> [acc |-> a, fresh |-> TRUE], refresh |-> a]

(* The user signed out during a connect, and it was another account's.     *)
NoteSwitchedAccount(a) ==
  mishaps' = IF {connect.rt, connect.token.acc, ui.peer} \subseteq {a, None}
             THEN mishaps ELSE mishaps \cup {"switched_account"}

AuthAnswered ==
  /\ auth # None
  /\ \E a \in (IF auth = "signin" THEN known ELSE Accounts \ known) :
       /\ stored' = persistSession(a)
       /\ ui' = [ui EXCEPT !.user = a,
                           !.newId = IF auth = "anonymous" THEN a ELSE @]
       /\ known' = known \cup {a}
       /\ NoteSwitchedAccount(a)
  /\ auth' = None
  /\ NoFault
  /\ UNCHANGED <<connect, disc, commands, tunnel, rows, late, attempts>>

AuthRefused ==
  /\ auth # None
  /\ auth' = None
  /\ UNCHANGED <<ui, stored, connect, disc, commands, tunnel, rows, late,
                 attempts, known, mishaps, faults>>

(* Time passes: the access token runs out.                                 *)
TokenExpires ==
  /\ stored.access.fresh
  /\ Fault("expiry")
  /\ stored' = [stored EXCEPT !.access.fresh = FALSE]
  /\ UNCHANGED <<ui, auth, connect, disc, commands, tunnel, rows, late,
                 attempts, known>>

-----------------------------------------------------------------------------
(* handleConnect.                                                          *)

Connecting == connect.pc # "idle"
connected == ui.peer # None

(* From here the handler has read the token: without one it gives up, else *)
(* it makes a key pair and posts it.                                       *)
PostPeer(token) ==
  IF token.acc = None
  THEN connect' = IdleConnect /\ UNCHANGED attempts
  ELSE /\ connect' = [connect EXCEPT !.pc = "posting", !.token = token,
                                     !.key = attempts + 1]
       /\ attempts' = attempts + 1

handleConnect ==
  /\ Dashboard /\ ~connected
  /\ ~Connecting
  /\ attempts < MaxConnects
  /\ mishaps' = IF \E d \in Disconnects : disc[d].pc # "idle"
                THEN mishaps \cup {"hurried"} ELSE mishaps
  /\ IF stored.refresh = None
     THEN PostPeer(stored.access)
     ELSE /\ connect' = [IdleConnect EXCEPT !.pc = "refreshing",
                                            !.rt = stored.refresh]
          /\ UNCHANGED attempts
  /\ UNCHANGED <<ui, stored, auth, disc, commands, tunnel, rows, late, known,
                 faults>>

(* The new tokens are kept under the user that is stored by now, and only  *)
(* if there still is one.                                                  *)
RefreshedUnread(a) == [persistSession(a) EXCEPT !.user = stored.user,
                                                !.refresh = "undefined"]
RefreshedAnyway(a) == [persistSession(a) EXCEPT !.user = stored.user]

Refreshed(a) ==
  IF stored.user = None THEN stored
  ELSE [persistSession(a) EXCEPT !.user = stored.user]

RefreshAnswered ==
  /\ connect.pc = "refreshing"
  /\ stored' = Refreshed(connect.rt)
  /\ PostPeer(stored'.access)
  /\ NoFault
  /\ UNCHANGED <<ui, auth, disc, commands, tunnel, rows, late, known, mishaps>>

(* refreshSession swallows the error: the old token is used.               *)
RefreshFailed ==
  /\ connect.pc = "refreshing"
  /\ Fault("network")
  /\ PostPeer(stored.access)
  /\ UNCHANGED <<ui, stored, auth, disc, commands, tunnel, rows, late, known>>

(* What wg-manager does with the POST: CreatePeer keeps the id of the row  *)
(* and replaces its key.                                                   *)
Admits(token) ==
  token.fresh /\ (rows[token.acc] # 0 => token.acc \notin SmallPlan)

PeerCreated ==
  /\ connect.pc = "posting"
  /\ Admits(connect.token)
  /\ rows' = [rows EXCEPT ![connect.token.acc] = connect.key]
  /\ connect' = [connect EXCEPT !.pc = "bringup",
                                !.created = connect.token.acc]
  /\ commands' = Append(commands, "connect")
  /\ NoFault
  /\ UNCHANGED <<ui, stored, auth, disc, tunnel, late, attempts, known,
                 mishaps>>

PeerRefused ==
  /\ connect.pc = "posting"
  /\ ~Admits(connect.token)
  /\ connect' = IdleConnect
  /\ UNCHANGED <<ui, stored, auth, disc, commands, tunnel, rows, late,
                 attempts, known, mishaps, faults>>

(* The POST or its answer is lost: no peer id, hence no rollback.          *)
PostLost ==
  /\ connect.pc = "posting"
  /\ Fault("network")
  /\ \/ UNCHANGED rows
     \/ /\ Admits(connect.token)
        /\ rows' = [rows EXCEPT ![connect.token.acc] = connect.key]
  /\ connect' = IdleConnect
  /\ UNCHANGED <<ui, stored, auth, disc, commands, tunnel, late, attempts,
                 known>>

(* What the handler makes of the command's result.                         *)
BringUpOutcomeUnread(ok) == "up"
BringUpOutcome(ok) == IF ok THEN "up" ELSE "failed"

(* connect_wireguard on the main thread.  The script takes the previous    *)
(* tunnel down first; when the prompt is refused it does not run at all.   *)
BringUp ==
  /\ commands # << >> /\ Head(commands) = "connect"
  /\ commands' = Tail(commands)
  /\ \/ /\ tunnel' = connect.key
        /\ connect' = [connect EXCEPT !.pc = BringUpOutcome(TRUE)]
        /\ UNCHANGED <<mishaps, faults>>
     \/ /\ Fault("bringup")
        /\ tunnel' \in {tunnel, 0}
        /\ connect' = [connect EXCEPT !.pc = BringUpOutcome(FALSE)]
  /\ UNCHANGED <<ui, stored, auth, disc, rows, late, attempts, known>>

RollbackInFinally == [connect EXCEPT !.pc = "rollback"]
AfterSuccess == IdleConnect

ConnectSucceeds ==
  /\ connect.pc = "up"
  /\ ui' = [ui EXCEPT !.peer = connect.created]
  /\ connect' = AfterSuccess
  /\ UNCHANGED <<stored, auth, disc, commands, tunnel, rows, late, attempts,
                 known, mishaps, faults>>

(* The catch block: the DELETE is sent with the token of the POST.         *)
ConnectFails ==
  /\ connect.pc = "failed"
  /\ connect' = IF connect.created = None THEN IdleConnect
                ELSE [connect EXCEPT !.pc = "rollback"]
  /\ UNCHANGED <<ui, stored, auth, disc, commands, tunnel, rows, late,
                 attempts, known, mishaps, faults>>

(* DeletePeer wants a valid token of the row's account.                    *)
Deleted(peer, token) ==
  IF token.fresh /\ token.acc = peer THEN [rows EXCEPT ![peer] = 0] ELSE rows

RollbackAnswered ==
  /\ connect.pc = "rollback"
  /\ rows' = Deleted(connect.created, connect.token)
  /\ connect' = IdleConnect
  /\ UNCHANGED <<ui, stored, auth, disc, commands, tunnel, late, attempts,
                 known, mishaps, faults>>

(* Its request or its answer is lost; a failed bring-up came before, which *)
(* bounds these.                                                           *)
RollbackLost ==
  /\ connect.pc = "rollback"
  /\ mishaps' = mishaps \cup {"network"}
  /\ rows' \in {rows, Deleted(connect.created, connect.token)}
  /\ connect' = IdleConnect
  /\ UNCHANGED <<ui, stored, auth, disc, commands, tunnel, late, attempts,
                 known, faults>>

-----------------------------------------------------------------------------
(* handleDisconnect.  The button stays while a call is under way, so that  *)
(* several calls may run; each keeps peer and token as it found them.      *)

clearUi == ui' = [ui EXCEPT !.peer = None]

StartDisconnect(d, token) ==
  /\ disc[d].pc = "idle"
  /\ disc' = [disc EXCEPT ![d] = [pc |-> "teardown", peer |-> ui.peer,
                                  token |-> token]]
  /\ commands' = Append(commands, d)

handleDisconnect(d) ==
  /\ Dashboard /\ connected
  /\ StartDisconnect(d, stored.access)
  /\ UNCHANGED <<ui, stored, auth, connect, tunnel, rows, late, attempts,
                 known, mishaps, faults>>

TeardownUnread(ok) == "down"
TeardownOutcome(ok) == IF ok THEN "down" ELSE "incomplete"

(* disconnect_wireguard on the main thread.                                *)
BringDown(d) ==
  /\ commands # << >> /\ Head(commands) = d
  /\ commands' = Tail(commands)
  /\ \/ /\ tunnel' = 0
        /\ disc' = [disc EXCEPT ![d].pc = TeardownOutcome(TRUE)]
        /\ UNCHANGED <<mishaps, faults>>
     \/ /\ Fault("teardown")
        /\ disc' = [disc EXCEPT ![d].pc = TeardownOutcome(FALSE)]
        /\ UNCHANGED tunnel
  /\ UNCHANGED <<ui, stored, auth, connect, rows, late, attempts, known>>

DisconnectIncomplete(d) ==
  /\ disc[d].pc = "incomplete"
  /\ clearUi
  /\ disc' = [disc EXCEPT ![d] = IdleDisc]
  /\ UNCHANGED <<stored, auth, connect, commands, tunnel, rows, late,
                 attempts, known, mishaps, faults>>

LocalDown(d) ==
  /\ disc[d].pc = "down"
  /\ clearUi
  /\ disc' = IF disc[d].token.acc # None /\ disc[d].peer # None
             THEN [disc EXCEPT ![d].pc = "deleting"]
             ELSE [disc EXCEPT ![d] = IdleDisc]
  /\ UNCHANGED <<stored, auth, connect, commands, tunnel, rows, late,
                 attempts, known, mishaps, faults>>

(* The handler goes on after the DELETE, however it ended: clearUi again.  *)
DeleteAnswered(d) ==
  /\ disc[d].pc = "deleting"
  /\ rows' = Deleted(disc[d].peer, disc[d].token)
  /\ clearUi
  /\ disc' = [disc EXCEPT ![d] = IdleDisc]
  /\ NoFault
  /\ UNCHANGED <<stored, auth, connect, commands, tunnel, late, attempts,
                 known, mishaps>>

(* Five seconds without an answer: the request is given up, not recalled.  *)
DeleteTimesOut(d) ==
  /\ disc[d].pc = "deleting"
  /\ late' = IF disc[d].token = [acc |-> disc[d].peer, fresh |-> TRUE]
             THEN late \cup {disc[d].peer} ELSE late
  /\ mishaps' = mishaps \cup {"network"}
  /\ clearUi
  /\ disc' = [disc EXCEPT ![d] = IdleDisc]
  /\ UNCHANGED <<stored, auth, connect, commands, tunnel, rows, attempts,
                 known, faults>>

LateDelete(a) ==
  /\ a \in late
  /\ late' = late \ {a}
  /\ rows' \in {rows, [rows EXCEPT ![a] = 0]}
  /\ UNCHANGED <<ui, stored, auth, connect, disc, commands, tunnel, attempts,
                 known, mishaps, faults>>

-----------------------------------------------------------------------------
(* handleSignOut: handleDisconnect is not awaited, but runs up to its      *)
(* first await, and has read the token by then.                            *)

TokenAfterSignOut == NoToken
TokenAtSignOut == stored.access

SignedOutUi == [ui EXCEPT !.user = None, !.newId = None]

handleSignOut ==
  /\ Dashboard
  /\ IF connected
     THEN \E d \in Disconnects : StartDisconnect(d, TokenAtSignOut)
     ELSE UNCHANGED <<disc, commands>>
  /\ stored' = NoSession
  /\ ui' = SignedOutUi
  /\ UNCHANGED <<auth, connect, tunnel, rows, late, attempts, known, mishaps,
                 faults>>

(* The app ends at any moment and is started again: the tunnel stays, a    *)
(* request under way may still arrive.                                     *)
Abandoned ==
  {a \in Accounts :
    \/ connect.pc = "rollback" /\ connect.created = a
       /\ connect.token = [acc |-> a, fresh |-> TRUE]
    \/ \E d \in Disconnects : /\ disc[d].pc = "deleting"
                              /\ disc[d].peer = a
                              /\ disc[d].token = [acc |-> a, fresh |-> TRUE]}

(* The privileged script that the oldest command has started goes on.      *)
Begun ==
  IF commands = << >> THEN {}
  ELSE IF Head(commands) = "connect" THEN {connect.key} ELSE {0}

Restart ==
  /\ Fault("restart")
  /\ ui' = [user |-> stored.user, peer |-> None, newId |-> None,
            form |-> "signin"]
  /\ auth' = None
  /\ connect' = IdleConnect
  /\ disc' = [d \in Disconnects |-> IdleDisc]
  /\ commands' = << >>
  /\ tunnel' \in {tunnel} \cup Begun
  /\ late' = late \cup Abandoned
  /\ \/ UNCHANGED rows
     \/ /\ connect.pc = "posting" /\ Admits(connect.token)
        /\ rows' = [rows EXCEPT ![connect.token.acc] = connect.key]
  /\ UNCHANGED <<stored, attempts, known>>

-----------------------------------------------------------------------------

DisconnectStep(d) ==
  \/ BringDown(d)
  \/ DisconnectIncomplete(d)
  \/ LocalDown(d)
  \/ DeleteAnswered(d)
  \/ DeleteTimesOut(d)

Next ==
  \/ \E m \in {"signin", "signup"} : switchMode(m)
  \/ switchMethod \/ Continue
  \/ handleAuth \/ AuthAnswered \/ AuthRefused \/ TokenExpires
  \/ handleConnect \/ RefreshAnswered \/ RefreshFailed
  \/ PeerCreated \/ PeerRefused \/ PostLost
  \/ BringUp \/ ConnectSucceeds \/ ConnectFails
  \/ RollbackAnswered \/ RollbackLost
  \/ \E d \in Disconnects : handleDisconnect(d) \/ DisconnectStep(d)
  \/ \E a \in Accounts : LateDelete(a)
  \/ handleSignOut
  \/ Restart

Spec == Init /\ [][Next]_vars

-----------------------------------------------------------------------------
(* Properties.                                                             *)

Quiet == connect.pc = "idle" /\ \A d \in Disconnects : disc[d].pc = "idle"

Spared(causes) == mishaps \cap causes = {}

(* App.tsx says "You're protected" only while the tunnel is up, whatever   *)
(* handlers overlap; and a tunnel that is up is shown, so that it can be   *)
(* disconnected, unless the app was restarted, the teardown failed, or the *)
(* user connected again while a disconnect was under way.                  *)
ConnectedMeansTunnel ==
  Quiet =>
    /\ connected => tunnel # 0
    /\ tunnel # 0 /\ Spared({"restart", "teardown", "hurried"}) => connected

(* While the app says connected, wg-manager's row of the peer has the key  *)
(* of the tunnel: no DELETE of an earlier connection took it away, unless  *)
(* the user did not wait for it or the DELETE was late.                    *)
ConnectedMeansServed ==
  /\ Quiet /\ connected
  /\ Spared({"network", "hurried", "restart"})
  => rows[ui.peer] = tunnel

(* The rollback of handleConnect and the DELETE of handleDisconnect leave  *)
(* no row behind that no tunnel uses, sign-out included: without a lost    *)
(* request, an expired token, a failed teardown or an account that changed *)
(* during a connect, a live row is that of the tunnel.                     *)
NoStaleRow ==
  /\ Quiet /\ late = {}
  /\ Spared({"network", "expiry", "teardown", "restart", "hurried",
             "switched_account"})
  => \A a \in Accounts : rows[a] # 0 => rows[a] = tunnel

(* What localStorage holds belongs to one account, unless another account  *)
(* was signed in during a connect and its refresh.                         *)
StoredSessionIsOneAccount ==
  Spared({"switched_account"}) =>
    /\ stored.access.acc = stored.user
    /\ stored.refresh = stored.user

(* As long as the app holds the ID of a new anonymous account, which it    *)
(* drops when the user continues, signs out, switches the form or restarts *)
(* the app, the screen shows it, unless the form was switched while the    *)
(* request was under way ("caller must show account_id to the user once",  *)
(* auth.ts:149).                                                           *)
NewIdIsShown ==
  Spared({"switched_form"}) => (ui.newId # None => ShowsNewId)

(* No DELETE of a disconnect is sent while the tunnel is up ("Restore      *)
(* local routing and DNS before making any network request", App.tsx:269), *)
(* unless the user connects again in the middle of a disconnect.           *)
NoRequestThroughTunnel ==
  [][\A d \in Disconnects :
       /\ disc[d].pc # "deleting" /\ disc'[d].pc = "deleting"
       /\ Spared({"hurried"})
       => tunnel = 0]_vars
=============================================================================
