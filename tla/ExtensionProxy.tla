--------------------------- MODULE ExtensionProxy ---------------------------
(* The browser extension (clients/browser-extension/js): the popup's click *)
(* handlers (popup.js), the functions they await (auth.js) and the service *)
(* worker (background.js), over chrome.storage, chrome.proxy and the badge.*)
(*                                                                         *)
(* Every await on a chrome call or on the API ends a step.  No button but  *)
(* the form's is disabled meanwhile, so that handlers overlap; closing the *)
(* popup ends its handlers wherever they are.                              *)
EXTENDS Naturals, FiniteSets

CONSTANTS
  Handlers,      \* handlers of the popup that may run at the same time
  Worker,        \* the service worker's handler
  Hosts,         \* proxy hosts a user may enter
  MishapLimit,   \* how many kinds of unusual events happen in a behaviour
  None           \* no host: direct connections, or demo mode

Mishaps == {"overlap", "killed", "saved", "signed_out", "restart",
            "clear_failed", "crossed"}

ASSUME ExtensionAssumption ==
  /\ Worker \notin Handlers
  /\ None \notin Hosts
  /\ MishapLimit \in Nat

VARIABLES
  store,    \* chrome.storage.local: user (is there one), connected, proxy
  setting,  \* chrome.proxy.settings: the host in use, None if direct
  badge,    \* the badge says ON
  popup,    \* what the popup shows: view, connected, demo
  tasks,    \* the handlers: pc, and the host that connect() has read
  mishaps   \* history: kinds of unusual events so far

vars == <<store, setting, badge, popup, tasks, mishaps>>

Idle == [pc |-> "idle", host |-> None]
Closed == [view |-> "closed", connected |-> FALSE, demo |-> FALSE]

PCs == {"idle", "toggle", "session", "set", "setTrue", "badgeOn", "showOn",
        "clear", "setFalse", "badgeOff", "showOff",
        "remove", "clearOut", "auth", "refresh", "startup", "installed"}

TypeOK ==
  /\ store \in [user : BOOLEAN, connected : BOOLEAN, proxy : Hosts \cup {None}]
  /\ setting \in Hosts \cup {None}
  /\ badge \in BOOLEAN
  /\ popup \in [view : {"closed", "auth", "main"}, connected : BOOLEAN,
                demo : BOOLEAN]
  /\ tasks \in [Handlers \cup {Worker} -> [pc : PCs, host : Hosts \cup {None}]]
  /\ mishaps \subseteq Mishaps

Init ==
  /\ store \in [user : {FALSE}, connected : {FALSE}, proxy : Hosts]
  /\ setting = None
  /\ badge = FALSE
  /\ popup = Closed
  /\ tasks = [t \in Handlers \cup {Worker} |-> Idle]
  /\ mishaps = {}

Quiet == \A t \in Handlers \cup {Worker} : tasks[t].pc = "idle"

(* The bound is on what users and browsers do, not on what follows from it *)
(* (the alarm, and a connect that crosses a disconnect).                   *)
Note(kinds) ==
  /\ mishaps' = mishaps \cup kinds
  /\ kinds \subseteq mishaps \/ Cardinality(mishaps') <= MishapLimit

If(condition, kind) == IF condition THEN {kind} ELSE {}

(* A handler starts while another, or the worker's, has not ended.         *)
Overlap == If(~Quiet, "overlap")

At(t, pc) == tasks[t].pc = pc
Goto(t, pc) == tasks' = [tasks EXCEPT ![t].pc = pc]
Ends(t) == tasks' = [tasks EXCEPT ![t] = Idle]

-----------------------------------------------------------------------------
(* The user opens the popup and clicks.                                    *)

Start(t, pc) ==
  /\ t \in Handlers
  /\ At(t, "idle")
  /\ Goto(t, pc)

OpenPopup(t) ==
  /\ popup.view = "closed"
  /\ Start(t, "refresh")
  /\ popup' = [Closed EXCEPT !.view = "auth"]
  /\ Note(Overlap)
  /\ UNCHANGED <<store, setting, badge>>

ClickToggle(t) ==
  /\ popup.view = "main"
  /\ Start(t, "toggle")
  /\ Note(Overlap)
  /\ UNCHANGED <<store, setting, badge, popup>>

ClickSignOut(t) ==
  /\ popup.view = "main"
  /\ Start(t, "remove")
  /\ Note(Overlap \cup If(badge, "signed_out"))
  /\ UNCHANGED <<store, setting, badge, popup>>

(* The submit button is disabled until the request is answered.            *)
SubmitAuth(t) ==
  /\ popup.view = "auth"
  /\ \A other \in Handlers : ~At(other, "auth")
  /\ Start(t, "auth")
  /\ Note(Overlap)
  /\ UNCHANGED <<store, setting, badge, popup>>

(* saveProxy is one call; the setting of a running connection stays.       *)
SaveProxy ==
  /\ popup.view = "main"
  /\ \E host \in Hosts \cup {None} :
       /\ store.proxy # host
       /\ store' = [store EXCEPT !.proxy = host]
  /\ Note(If(store.connected \/ ~Quiet, "saved"))
  /\ UNCHANGED <<setting, badge, popup, tasks>>

(* The popup's handlers end where they are.                                *)
HandlersGone ==
  [t \in Handlers \cup {Worker} |-> IF t \in Handlers THEN Idle ELSE tasks[t]]

ClosePopup ==
  /\ popup.view # "closed"
  /\ popup' = Closed
  /\ tasks' = HandlersGone
  /\ Note(If(\E t \in Handlers : tasks[t].pc \notin {"idle", "refresh"},
             "killed"))
  /\ UNCHANGED <<store, setting, badge>>

-----------------------------------------------------------------------------
(* The toggle's handler and connect().                                     *)

ToggleRead(t) ==
  /\ At(t, "toggle")
  /\ Goto(t, IF store.connected THEN "clear" ELSE "session")
  /\ UNCHANGED <<store, setting, badge, popup, mishaps>>

proxyConfigured(host) == host # None

ConnectRead(t) ==
  /\ At(t, "session")
  /\ IF store.user
     THEN tasks' = [tasks EXCEPT ![t] =
            [pc |-> IF proxyConfigured(store.proxy) THEN "set" ELSE "setTrue",
             host |-> store.proxy]]
     ELSE Ends(t)
  /\ UNCHANGED <<store, setting, badge, popup, mishaps>>

(* Chrome may refuse the setting, such as for a port that does not exist;  *)
(* connect() then throws.  The setting crosses a disconnect that has       *)
(* cleared the one before and has not stored it.                           *)
SetRefused(t) == UNCHANGED <<setting, mishaps>> /\ Ends(t)

Crossing ==
  If(\E other \in Handlers \cup {Worker} : At(other, "setFalse"), "crossed")

ConnectSet(t) ==
  /\ At(t, "set")
  /\ \/ /\ setting' = tasks[t].host
        /\ mishaps' = mishaps \cup Crossing
        /\ Goto(t, "setTrue")
     \/ SetRefused(t)
  /\ UNCHANGED <<store, badge, popup>>

ConnectStore(t) ==
  /\ At(t, "setTrue")
  /\ store' = [store EXCEPT !.connected = TRUE]
  /\ Goto(t, "badgeOn")
  /\ UNCHANGED <<setting, badge, popup, mishaps>>

ConnectBadge(t) ==
  /\ At(t, "badgeOn")
  /\ badge' = TRUE
  /\ Goto(t, "showOn")
  /\ UNCHANGED <<store, setting, popup, mishaps>>

ShowOn(t) ==
  /\ At(t, "showOn")
  /\ popup' = [popup EXCEPT !.connected = TRUE,
                            !.demo = ~proxyConfigured(tasks[t].host)]
  /\ Ends(t)
  /\ UNCHANGED <<store, setting, badge, mishaps>>

-----------------------------------------------------------------------------
(* disconnect(), for the toggle and for the alarm.                         *)

(* Chrome may fail to clear the setting; the failure is ignored.           *)
ProxyKept == setting
ProxyCleared == None

clearProxy ==
  \/ setting' = ProxyCleared /\ UNCHANGED mishaps
  \/ UNCHANGED setting /\ Note({"clear_failed"})

ClearProxy(t) ==
  /\ At(t, "clear")
  /\ clearProxy
  /\ Goto(t, "setFalse")
  /\ UNCHANGED <<store, badge, popup>>

DisconnectStore(t) ==
  /\ At(t, "setFalse")
  /\ store' = [store EXCEPT !.connected = FALSE]
  /\ Goto(t, "badgeOff")
  /\ UNCHANGED <<setting, badge, popup, mishaps>>

BadgeKept == badge
BadgeCleared == FALSE

DisconnectBadge(t) ==
  /\ At(t, "badgeOff")
  /\ badge' = BadgeCleared
  /\ IF t = Worker THEN Ends(t) ELSE Goto(t, "showOff")
  /\ UNCHANGED <<store, setting, popup, mishaps>>

ShowOff(t) ==
  /\ At(t, "showOff")
  /\ popup' = [popup EXCEPT !.connected = FALSE, !.demo = FALSE]
  /\ Ends(t)
  /\ UNCHANGED <<store, setting, badge, mishaps>>

-----------------------------------------------------------------------------
(* Sign-out, sign-in and the popup's refresh.                              *)

(* clearSession: one call removes user and connected; then clearProxy.     *)
StorageCleared == [user |-> FALSE, connected |-> FALSE]
SessionRemoved == [store EXCEPT !.user = FALSE, !.connected = FALSE]

RemoveSession(t) ==
  /\ At(t, "remove")
  /\ store' = SessionRemoved
  /\ Goto(t, "clearOut")
  /\ UNCHANGED <<setting, badge, popup, mishaps>>

ClearAtSignOut(t) ==
  /\ At(t, "clearOut")
  /\ clearProxy
  /\ Goto(t, "refresh")
  /\ UNCHANGED <<store, badge, popup>>

AuthAnswered(t) ==
  /\ At(t, "auth")
  /\ \/ store' = [store EXCEPT !.user = TRUE] /\ Goto(t, "refresh")
     \/ UNCHANGED store /\ Ends(t)
  /\ UNCHANGED <<setting, badge, popup, mishaps>>

DemoShown(connected, host) == connected /\ ~proxyConfigured(host)

Refresh(t) ==
  /\ At(t, "refresh")
  /\ popup' = IF store.user
              THEN [view |-> "main", connected |-> store.connected,
                    demo |-> DemoShown(store.connected, store.proxy)]
              ELSE [Closed EXCEPT !.view = "auth"]
  /\ Ends(t)
  /\ UNCHANGED <<store, setting, badge, mishaps>>

-----------------------------------------------------------------------------
(* The service worker.                                                     *)

SignedInAndConnected == store.user /\ store.connected
NeedsHealing == ~store.user /\ store.connected

(* veritas-health, every 30 minutes.                                       *)
Alarm ==
  /\ At(Worker, "idle")
  /\ NeedsHealing
  /\ Goto(Worker, "clear")
  /\ mishaps' = mishaps \cup Overlap
  /\ UNCHANGED <<store, setting, badge, popup>>

(* The browser starts again or the extension is replaced: all handlers are *)
(* gone, storage and proxy setting stay, the badge may be lost.  Once.     *)
Restart(event) ==
  /\ "restart" \notin mishaps
  /\ event \in {"startup", "installed"}
  /\ At(Worker, "idle")
  /\ popup' = Closed
  /\ tasks' = [HandlersGone EXCEPT ![Worker].pc = event]
  /\ badge' \in {badge, FALSE}
  /\ Note({"restart"} \cup
          If(\E t \in Handlers : tasks[t].pc \notin {"idle", "refresh"},
             "killed"))
  /\ UNCHANGED <<store, setting>>

Startup ==
  /\ At(Worker, "startup")
  /\ badge' = (badge /\ store.connected)
  /\ Ends(Worker)
  /\ UNCHANGED <<store, setting, popup, mishaps>>

Installed ==
  /\ At(Worker, "installed")
  /\ badge' = (badge \/ store.connected)
  /\ Ends(Worker)
  /\ UNCHANGED <<store, setting, popup, mishaps>>

-----------------------------------------------------------------------------

Click(t) ==
  OpenPopup(t) \/ ClickToggle(t) \/ ClickSignOut(t) \/ SubmitAuth(t)

Step(t) ==
  \/ ToggleRead(t) \/ ConnectRead(t) \/ ConnectSet(t) \/ ConnectStore(t)
  \/ ConnectBadge(t) \/ ShowOn(t)
  \/ ClearProxy(t) \/ DisconnectStore(t) \/ DisconnectBadge(t) \/ ShowOff(t)
  \/ RemoveSession(t) \/ ClearAtSignOut(t) \/ AuthAnswered(t) \/ Refresh(t)

Next ==
  \/ \E t \in Handlers : Click(t)
  \/ \E t \in Handlers \cup {Worker} : Step(t)
  \/ SaveProxy \/ ClosePopup
  \/ Alarm \/ Startup \/ Installed
  \/ \E event \in {"startup", "installed"} : Restart(event)

(* Chrome answers its calls and fires the alarm; the API may not answer,   *)
(* and nothing is assumed of the user.                                     *)
Fairness ==
  /\ \A t \in Handlers \cup {Worker} : WF_vars(Step(t) /\ ~At(t, "auth"))
  /\ WF_vars(Alarm)
  /\ WF_vars(Startup \/ Installed)

Spec == Init /\ [][Next]_vars
FairSpec == Spec /\ Fairness

-----------------------------------------------------------------------------
(* Properties.                                                             *)

Spared(causes) == mishaps \cap causes = {}

(* At rest the popup says "Connected - browser traffic proxied" only while *)
(* the browser uses a proxy, and does say so then; the badge says ON while *)
(* storage has a connection, and then a configured proxy is in use.        *)
(* Excepted are popups closed in the middle of a handler and handlers that *)
(* overlap; for single labels a failed clear, settings saved during the    *)
(* connection, a sign-out, which leaves the badge, and onStartup, which    *)
(* never sets it.                                                          *)
LabelsAreTrue ==
  Quiet /\ Spared({"killed", "overlap"}) =>
    /\ popup.connected /\ ~popup.demo /\ Spared({"saved"})
         => setting # None
    /\ setting # None /\ popup.view = "main" /\ Spared({"clear_failed"})
         => popup.connected
    /\ badge /\ Spared({"signed_out"}) => store.connected
    /\ badge /\ store.proxy # None /\ Spared({"signed_out", "saved"})
         => setting # None
    /\ store.connected /\ Spared({"signed_out", "restart"}) => badge

(* However connects, disconnects, sign-outs and the alarm overlap, at rest *)
(* no proxy is in use that storage does not call a connection (the popup   *)
(* could not take it away); without overlaps it is that of a user who is   *)
(* signed in.  Excepted are a connect whose setting lands between the two  *)
(* calls of a disconnect, a clear that fails, and a popup that was closed  *)
(* in the middle.                                                          *)
HiddenProxyNever ==
  Quiet /\ setting # None /\ Spared({"killed", "clear_failed", "crossed"})
  => store.connected /\ (Spared({"overlap"}) => store.user)

(* "keep proxy sane" (background.js:18): a proxy that is left on without a *)
(* user, by connects that overlap the sign-out, is taken away in the end,  *)
(* whatever else overlaps, with the same exceptions.                       *)
SignedOutIsHealed ==
  /\ ~store.user /\ setting # None
  ~> \/ store.user \/ setting = None
     \/ ~Spared({"killed", "clear_failed", "crossed"})
=============================================================================
