------------------------ MODULE ExtensionProxy_proofs ------------------------
(***************************************************************************)
(* Proofs about ExtensionProxy for any number of overlapping handlers and  *)
(* any hosts.                                                              *)
(***************************************************************************)
EXTENDS ExtensionProxy, TLAPS

All == Handlers \cup {Worker}
TaskRecords == [pc : PCs, host : Hosts \cup {None}]

-----------------------------------------------------------------------------
(* Types.                                                                  *)

StoreOK == store \in [user : BOOLEAN, connected : BOOLEAN, proxy : Hosts \cup {None}]
PopupOK == popup \in [view : {"closed", "auth", "main"}, connected : BOOLEAN, demo : BOOLEAN]
TasksOK == tasks \in [All -> TaskRecords]

TypeInv ==
  /\ StoreOK /\ setting \in Hosts \cup {None} /\ badge \in BOOLEAN /\ PopupOK
  /\ TasksOK /\ mishaps \subseteq Mishaps

LEMMA TypeInvIsTypeOK == TypeInv => TypeOK
BY DEF TypeInv, TypeOK, StoreOK, PopupOK, TasksOK, All, TaskRecords

LEMMA IdleOK == Idle \in TaskRecords /\ Idle.pc = "idle"
BY DEF Idle, TaskRecords, PCs

LEMMA ClosedOK ==
  /\ Closed \in [view : {"closed", "auth", "main"}, connected : BOOLEAN, demo : BOOLEAN]
  /\ ~Closed.connected /\ Closed.view # "main"
  /\ [Closed EXCEPT !.view = "auth"]
       \in [view : {"closed", "auth", "main"}, connected : BOOLEAN, demo : BOOLEAN]
  /\ ~[Closed EXCEPT !.view = "auth"].connected
  /\ [Closed EXCEPT !.view = "auth"].view # "main"
BY DEF Closed

LEMMA Went ==
  ASSUME TasksOK, NEW t \in All, NEW pc \in PCs, Goto(t, pc)
  PROVE  /\ TasksOK' /\ tasks'[t].pc = pc /\ tasks'[t].host = tasks[t].host
         /\ \A s \in All : s # t => tasks'[s] = tasks[s]
<1>1. tasks' = [tasks EXCEPT ![t].pc = pc] BY DEF Goto
<1>2. /\ tasks'[t] = [tasks[t] EXCEPT !.pc = pc]
      /\ \A s \in All : s # t => tasks'[s] = tasks[s]
      /\ tasks' = [tasks EXCEPT ![t] = [tasks[t] EXCEPT !.pc = pc]]
  BY <1>1 DEF TasksOK
<1> DEFINE r == [tasks[t] EXCEPT !.pc = pc]
<1>3. r \in TaskRecords /\ r.pc = pc /\ r.host = tasks[t].host BY DEF TasksOK, TaskRecords
<1> HIDE DEF r
<1>4. tasks' = [tasks EXCEPT ![t] = r] /\ tasks'[t] = r BY <1>2 DEF r
<1>5. TasksOK' BY <1>3, <1>4 DEF TasksOK
<1> QED BY <1>2, <1>3, <1>4, <1>5

LEMMA Ended ==
  ASSUME TasksOK, NEW t \in All, Ends(t)
  PROVE  /\ TasksOK' /\ tasks'[t].pc = "idle"
         /\ \A s \in All : s # t => tasks'[s] = tasks[s]
<1>1. tasks' = [tasks EXCEPT ![t] = Idle] BY DEF Ends
<1> QED BY <1>1, IdleOK DEF TasksOK

LEMMA Gone ==
  ASSUME TasksOK
  PROVE  /\ HandlersGone \in [All -> TaskRecords]
         /\ \A t \in Handlers : HandlersGone[t].pc = "idle"
         /\ HandlersGone[Worker] = tasks[Worker]
<1>1. HandlersGone = [t \in All |-> IF t \in Handlers THEN Idle ELSE tasks[t]]
  BY DEF HandlersGone, All
<1>2. Worker \in All /\ Worker \notin Handlers /\ Handlers \subseteq All
  BY ExtensionAssumption DEF All
<1> QED BY <1>1, <1>2, IdleOK DEF TasksOK

(* What connect() has read from storage.                                   *)
LEMMA Read ==
  ASSUME TasksOK, StoreOK, NEW t \in All, NEW pc \in PCs,
         tasks' = [tasks EXCEPT ![t] = [pc |-> pc, host |-> store.proxy]]
  PROVE  /\ TasksOK' /\ tasks'[t].pc = pc /\ tasks'[t].host = store.proxy
         /\ \A s \in All : s # t => tasks'[s] = tasks[s]
<1>1. [pc |-> pc, host |-> store.proxy] \in TaskRecords BY DEF StoreOK, TaskRecords
<1> QED BY <1>1 DEF TasksOK

LEMMA HandlerIsTask == \A t \in Handlers : t \in All
BY DEF All

LEMMA MishapsOK == ASSUME mishaps \subseteq Mishaps, NEW kinds, kinds \subseteq Mishaps, Note(kinds)
                   PROVE  mishaps' \subseteq Mishaps
BY DEF Note

LEMMA KindsOK ==
  /\ Overlap \subseteq Mishaps
  /\ \A c : /\ If(c, "signed_out") \subseteq Mishaps /\ If(c, "saved") \subseteq Mishaps
            /\ If(c, "killed") \subseteq Mishaps
BY DEF Overlap, If, Mishaps

LEMMA SparedBefore ==
  ASSUME NEW causes, mishaps \subseteq mishaps', Spared(causes)' PROVE Spared(causes)
BY DEF Spared

(* A clear succeeds, or fails and is noted.                                *)
LEMMA Cleared ==
  ASSUME clearProxy
  PROVE  /\ mishaps \subseteq mishaps'
         /\ mishaps \subseteq Mishaps => mishaps' \subseteq Mishaps
         /\ setting' = None \/ (setting' = setting /\ "clear_failed" \in mishaps')
BY DEF clearProxy, ProxyCleared, Note, Mishaps

LEMMA ClickType == ASSUME TypeInv, NEW t \in Handlers, Click(t) PROVE TypeInv'
<1>1. TasksOK /\ t \in All /\ mishaps \subseteq Mishaps BY HandlerIsTask DEF TypeInv
<1>4. ASSUME Note(Overlap) PROVE mishaps' \subseteq Mishaps
  <2>1. Overlap \subseteq Mishaps BY KindsOK
  <2> QED BY <1>1, <1>4, <2>1, MishapsOK
<1>2. CASE OpenPopup(t)
  <2>1. TasksOK' BY <1>1, <1>2, Went DEF OpenPopup, Start, PCs
  <2>2. PopupOK' BY <1>2, ClosedOK DEF OpenPopup, PopupOK
  <2>3. mishaps' \subseteq Mishaps
    BY <1>2, <1>4 DEF OpenPopup
  <2>4. UNCHANGED <<store, setting, badge>> BY <1>2 DEF OpenPopup
  <2> QED BY <2>1, <2>2, <2>3, <2>4, <1>1 DEF TypeInv, StoreOK
<1>3. CASE ClickToggle(t) \/ ClickSignOut(t) \/ SubmitAuth(t)
  <2>1. TasksOK' BY <1>1, <1>3, Went DEF ClickToggle, ClickSignOut, SubmitAuth, Start, PCs
  <2>2. mishaps' \subseteq Mishaps
    <3>1. CASE ClickSignOut(t)
      <4>1. Overlap \cup If(badge, "signed_out") \subseteq Mishaps BY KindsOK
      <4>2. Note(Overlap \cup If(badge, "signed_out")) BY <3>1, Zenon DEF ClickSignOut
      <4> QED BY <1>1, <4>1, <4>2, MishapsOK
    <3> QED BY <1>3, <1>4, <3>1 DEF ClickToggle, SubmitAuth
  <2>3. UNCHANGED <<store, setting, badge, popup>>
    BY <1>3 DEF ClickToggle, ClickSignOut, SubmitAuth
  <2> QED BY <2>1, <2>2, <2>3, <1>1 DEF TypeInv, StoreOK, PopupOK
<1> QED BY <1>2, <1>3 DEF Click

LEMMA StepType == ASSUME TypeInv, NEW t \in All, Step(t) PROVE TypeInv'
<1>0. StoreOK /\ setting \in Hosts \cup {None} /\ badge \in BOOLEAN /\ PopupOK
      /\ TasksOK /\ mishaps \subseteq Mishaps /\ tasks[t] \in TaskRecords
  BY DEF TypeInv, TasksOK
<1>1. TasksOK'
  <2>1. CASE ToggleRead(t) BY <1>0, <2>1, Went DEF ToggleRead, PCs
  <2>2. CASE ConnectRead(t)
    <3>1. \/ Ends(t)
          \/ \E pc \in PCs : tasks' = [tasks EXCEPT ![t] = [pc |-> pc, host |-> store.proxy]]
      BY <2>2 DEF ConnectRead, PCs
    <3> QED BY <1>0, <3>1, Ended, Read
  <2>3. CASE ConnectSet(t) BY <1>0, <2>3, Went, Ended DEF ConnectSet, SetRefused, PCs
  <2>4. CASE ConnectStore(t) \/ ConnectBadge(t) \/ ClearProxy(t) \/ DisconnectStore(t)
             \/ RemoveSession(t) \/ ClearAtSignOut(t)
    BY <1>0, <2>4, Went DEF ConnectStore, ConnectBadge, ClearProxy, DisconnectStore,
       RemoveSession, ClearAtSignOut, PCs
  <2>5. CASE ShowOn(t) \/ ShowOff(t) \/ Refresh(t)
    BY <1>0, <2>5, Ended DEF ShowOn, ShowOff, Refresh
  <2>6. CASE DisconnectBadge(t) BY <1>0, <2>6, Went, Ended DEF DisconnectBadge, PCs
  <2>7. CASE AuthAnswered(t) BY <1>0, <2>7, Went, Ended DEF AuthAnswered, PCs
  <2> QED BY <2>1, <2>2, <2>3, <2>4, <2>5, <2>6, <2>7 DEF Step
<1>2. StoreOK'
  <2>1. \/ UNCHANGED store
        \/ \E b \in BOOLEAN : store' = [store EXCEPT !.connected = b]
        \/ store' = [store EXCEPT !.user = TRUE]
        \/ store' = [store EXCEPT !.user = FALSE, !.connected = FALSE]
    BY DEF Step, ToggleRead, ConnectRead, ConnectSet, ConnectStore, ConnectBadge, ShowOn,
       ClearProxy, DisconnectStore, DisconnectBadge, ShowOff, RemoveSession, SessionRemoved,
       ClearAtSignOut, AuthAnswered, Refresh
  <2> QED BY <1>0, <2>1 DEF StoreOK
<1>3. setting' \in Hosts \cup {None}
  <2>1. setting' = setting \/ setting' = tasks[t].host \/ clearProxy
    BY DEF Step, ToggleRead, ConnectRead, ConnectSet, SetRefused, ConnectStore, ConnectBadge,
       ShowOn, ClearProxy, DisconnectStore, DisconnectBadge, ShowOff, RemoveSession,
       ClearAtSignOut, AuthAnswered, Refresh
  <2> QED BY <1>0, <2>1, Cleared DEF TaskRecords
<1>4. badge' \in BOOLEAN
  <2>1. UNCHANGED badge \/ badge' = TRUE \/ badge' = FALSE
    BY DEF Step, ToggleRead, ConnectRead, ConnectSet, ConnectStore, ConnectBadge, ShowOn,
       ClearProxy, DisconnectStore, DisconnectBadge, BadgeCleared, ShowOff, RemoveSession,
       ClearAtSignOut, AuthAnswered, Refresh
  <2> QED BY <1>0, <2>1
<1>5. PopupOK'
  <2>1. CASE ShowOn(t)
    <3> DEFINE p == [popup EXCEPT !.connected = TRUE]
    <3>1. p \in [view : {"closed", "auth", "main"}, connected : BOOLEAN, demo : BOOLEAN]
      BY <1>0 DEF PopupOK
    <3>2. popup' = [p EXCEPT !.demo = ~proxyConfigured(tasks[t].host)] BY <2>1 DEF ShowOn
    <3>3. (~proxyConfigured(tasks[t].host)) \in BOOLEAN OBVIOUS
    <3> HIDE DEF p
    <3> QED BY <3>1, <3>2, <3>3 DEF PopupOK
  <2>2. CASE ShowOff(t) BY <1>0, <2>2 DEF ShowOff, PopupOK
  <2>3. CASE Refresh(t)
    <3>1. DemoShown(store.connected, store.proxy) \in BOOLEAN BY DEF DemoShown
    <3>2. store.connected \in BOOLEAN BY <1>0 DEF StoreOK
    <3>3. popup' = [view |-> "main", connected |-> store.connected,
                    demo |-> DemoShown(store.connected, store.proxy)]
          \/ popup' = [Closed EXCEPT !.view = "auth"]
      BY <2>3, Zenon DEF Refresh
    <3> QED BY <3>1, <3>2, <3>3, ClosedOK DEF PopupOK
  <2>4. ~ShowOn(t) /\ ~ShowOff(t) /\ ~Refresh(t) => UNCHANGED popup
    BY DEF Step, ToggleRead, ConnectRead, ConnectSet, ConnectStore, ConnectBadge,
       ClearProxy, DisconnectStore, DisconnectBadge, RemoveSession, ClearAtSignOut, AuthAnswered
  <2> QED BY <1>0, <2>1, <2>2, <2>3, <2>4 DEF PopupOK
<1>6. mishaps' \subseteq Mishaps
  <2>1. mishaps' = mishaps \/ mishaps' = mishaps \cup Crossing \/ clearProxy
    BY Zenon DEF Step, ToggleRead, ConnectRead, ConnectSet, SetRefused, ConnectStore,
       ConnectBadge, ShowOn, ClearProxy, DisconnectStore, DisconnectBadge, ShowOff,
       RemoveSession, ClearAtSignOut, AuthAnswered, Refresh
  <2>2. Crossing \subseteq Mishaps BY DEF Crossing, If, Mishaps
  <2> QED BY <1>0, <2>1, <2>2, Cleared
<1> QED BY <1>0, <1>1, <1>2, <1>3, <1>4, <1>5, <1>6 DEF TypeInv

LEMMA WorkerType == ASSUME TypeInv, Alarm \/ Startup \/ Installed PROVE TypeInv'
<1>0. TasksOK /\ Worker \in All /\ StoreOK BY DEF TypeInv, All
<1>1. TasksOK'
  BY <1>0, Went, Ended DEF Alarm, Startup, Installed, PCs
<1>2. badge' \in BOOLEAN
  <2>1. UNCHANGED badge \/ badge' = (badge /\ store.connected)
        \/ badge' = (badge \/ store.connected)
    BY Zenon DEF Alarm, Startup, Installed
  <2>2. (badge /\ store.connected) \in BOOLEAN /\ (badge \/ store.connected) \in BOOLEAN
    OBVIOUS
  <2> QED BY <2>1, <2>2 DEF TypeInv
<1>3. mishaps' \subseteq Mishaps
  <2>1. Overlap \subseteq Mishaps BY KindsOK
  <2>2. mishaps' = mishaps \cup Overlap \/ mishaps' = mishaps
    BY Zenon DEF Alarm, Startup, Installed
  <2> QED BY <2>1, <2>2 DEF TypeInv
<1>4. UNCHANGED <<store, setting, popup>> BY Zenon DEF Alarm, Startup, Installed
<1> QED BY <1>1, <1>2, <1>3, <1>4 DEF TypeInv, StoreOK, PopupOK

LEMMA PopupEndsType ==
  ASSUME TypeInv, ClosePopup \/ \E event \in {"startup", "installed"} : Restart(event)
  PROVE  TypeInv'
<1>0. TasksOK /\ mishaps \subseteq Mishaps BY DEF TypeInv
<1>1. popup' = Closed /\ UNCHANGED <<store, setting>> BY DEF ClosePopup, Restart
<1>2. badge' \in BOOLEAN BY DEF TypeInv, ClosePopup, Restart
<1>3. TasksOK'
  <2>1. CASE tasks' = HandlersGone BY <1>0, <2>1, Gone DEF TasksOK
  <2>2. ASSUME NEW event \in {"startup", "installed"},
               tasks' = [HandlersGone EXCEPT ![Worker].pc = event]
        PROVE  TasksOK'
    <3> DEFINE r == [HandlersGone[Worker] EXCEPT !.pc = event]
    <3>1. HandlersGone \in [All -> TaskRecords] /\ Worker \in All BY <1>0, Gone DEF All
    <3>2. tasks' = [HandlersGone EXCEPT ![Worker] = r] BY <2>2, <3>1
    <3>3. r \in TaskRecords BY <3>1 DEF TaskRecords, PCs
    <3> HIDE DEF r
    <3> QED BY <3>1, <3>2, <3>3 DEF TasksOK
  <2> QED BY <2>1, <2>2 DEF ClosePopup, Restart
<1>4. mishaps' \subseteq Mishaps
  <2> DEFINE k == If(\E t \in Handlers : tasks[t].pc \notin {"idle", "refresh"}, "killed")
  <2>1. Note(k) \/ Note({"restart"} \cup k) BY Zenon DEF ClosePopup, Restart
  <2>2. k \subseteq Mishaps BY KindsOK
  <2> HIDE DEF k
  <2>3. {"restart"} \cup k \subseteq Mishaps BY <2>2 DEF Mishaps
  <2> QED BY <1>0, <2>1, <2>2, <2>3, MishapsOK
<1> QED BY <1>1, <1>2, <1>3, <1>4, ClosedOK DEF TypeInv, StoreOK, PopupOK

LEMMA SaveProxyType == ASSUME TypeInv, SaveProxy PROVE TypeInv'
<1>1. StoreOK' BY DEF SaveProxy, TypeInv, StoreOK
<1>2. mishaps' \subseteq Mishaps
  <2>1. If(store.connected \/ ~Quiet, "saved") \subseteq Mishaps BY KindsOK
  <2>2. Note(If(store.connected \/ ~Quiet, "saved")) BY Zenon DEF SaveProxy
  <2> QED BY <2>1, <2>2, MishapsOK DEF TypeInv
<1>3. UNCHANGED <<setting, badge, popup, tasks>> BY DEF SaveProxy
<1> QED BY <1>1, <1>2, <1>3 DEF TypeInv, PopupOK, TasksOK

LEMMA TypeInit == Init => TypeInv
BY IdleOK, ClosedOK DEF Init, TypeInv, StoreOK, PopupOK, TasksOK, All

LEMMA TypeStays == TypeInv /\ [Next]_vars => TypeInv'
<1> SUFFICES ASSUME TypeInv, [Next]_vars PROVE TypeInv' OBVIOUS
<1>1. CASE UNCHANGED vars BY <1>1 DEF vars, TypeInv, StoreOK, PopupOK, TasksOK
<1>2. CASE \E t \in Handlers : Click(t) BY <1>2, ClickType
<1>3. CASE \E t \in Handlers \cup {Worker} : Step(t) BY <1>3, StepType DEF All
<1> QED BY <1>1, <1>2, <1>3, SaveProxyType, PopupEndsType, WorkerType DEF Next

LEMMA AlwaysTypeInv == Spec => []TypeInv
BY TypeInit, TypeStays, PTL DEF Spec

(* TypeCorrect: storage, setting, popup and handlers keep their types.     *)
THEOREM TypeCorrect == Spec => []TypeOK
BY AlwaysTypeInv, TypeInvIsTypeOK, PTL

-----------------------------------------------------------------------------
(* One handler at a time.  Where the handler stands says what storage, the *)
(* proxy setting, the badge and the popup may disagree about.              *)

Alone(t) == \A s \in All : s # t => tasks[s].pc = "idle"

In(t, pcs) == tasks[t].pc \in pcs

ProxyGood(t) ==
  /\ store.connected => store.user
  /\ In(t, {"set", "setTrue", "badgeOn", "showOn"}) => store.user
  /\ In(t, {"badgeOn", "showOn"}) => store.connected
  /\ In(t, {"session", "set", "setTrue", "clearOut", "badgeOff", "showOff"})
       => ~store.connected
  /\ In(t, {"clearOut"}) => ~store.user
  /\ In(t, {"set"}) => tasks[t].host # None
  /\ Spared({"clear_failed"}) =>
       /\ In(t, {"setFalse", "badgeOff", "showOff"}) => setting = None
       /\ setting # None => store.connected \/ In(t, {"setTrue", "clearOut"})
  /\ t = Worker => In(t, {"idle", "startup", "installed"})

LabelGood(t) ==
  Spared({"saved"}) =>
    /\ In(t, {"set", "setTrue", "badgeOn", "showOn"}) => tasks[t].host = store.proxy
    /\ In(t, {"setTrue", "badgeOn", "showOn"}) /\ tasks[t].host # None => setting # None
    /\ store.connected /\ store.proxy # None => setting # None \/ In(t, {"setFalse"})
    /\ popup.connected /\ ~popup.demo =>
         \/ setting # None
         \/ In(t, {"setFalse", "badgeOff", "showOff"})
         \/ In(t, {"refresh"}) /\ ~store.user

BadgeGood(t) ==
  /\ store.connected /\ popup.view = "main"
       => popup.connected \/ In(t, {"badgeOn", "showOn", "refresh"})
  /\ Spared({"signed_out"}) =>
       /\ badge => store.connected \/ In(t, {"badgeOff"})
       /\ In(t, {"remove"}) => ~badge
  /\ Spared({"signed_out", "restart"}) =>
       (store.connected => badge \/ In(t, {"badgeOn"}))

Good(t) == ProxyGood(t) /\ LabelGood(t) /\ BadgeGood(t)

Trust == Spared({"killed", "overlap"}) => \E t \in All : Alone(t) /\ Good(t)

(* Steps that leave everything but the handler's place alone.              *)
LEMMA ToggleReadGood ==
  ASSUME TypeInv, NEW t \in All, Good(t), ToggleRead(t) PROVE Good(t)'
<1>1. tasks'[t].pc = IF store.connected THEN "clear" ELSE "session"
  BY Went DEF ToggleRead, TypeInv, PCs
<1>2. tasks[t].pc = "toggle" /\ UNCHANGED <<store, setting, badge, popup, mishaps>>
  BY DEF ToggleRead, At
<1>3. ProxyGood(t)' BY <1>1, <1>2 DEF Good, ProxyGood, In, Spared
<1>4. LabelGood(t)' BY <1>1, <1>2 DEF Good, LabelGood, In, Spared
<1>5. BadgeGood(t)' BY <1>1, <1>2 DEF Good, BadgeGood, In, Spared
<1> QED BY <1>3, <1>4, <1>5 DEF Good

LEMMA ConnectReadGood ==
  ASSUME TypeInv, NEW t \in All, Good(t), ConnectRead(t) PROVE Good(t)'
<1>1. tasks[t].pc = "session" /\ UNCHANGED <<store, setting, badge, popup, mishaps>>
  BY DEF ConnectRead, At
<1>2. CASE store.user
  <2> DEFINE pc == IF proxyConfigured(store.proxy) THEN "set" ELSE "setTrue"
  <2>1. tasks' = [tasks EXCEPT ![t] = [pc |-> pc, host |-> store.proxy]] /\ pc \in PCs
    BY <1>2 DEF ConnectRead, PCs
  <2>2. tasks'[t].pc = pc /\ tasks'[t].host = store.proxy BY <2>1, Read DEF TypeInv
  <2>3. pc \in {"set", "setTrue"} /\ (pc = "set" <=> store.proxy # None)
    BY DEF proxyConfigured
  <2> HIDE DEF pc
  <2>4. ProxyGood(t)' BY <1>1, <1>2, <2>2, <2>3 DEF Good, ProxyGood, In, Spared
  <2>5. LabelGood(t)' BY <1>1, <2>2, <2>3 DEF Good, LabelGood, In, Spared
  <2>6. BadgeGood(t)' BY <1>1, <2>2, <2>3 DEF Good, BadgeGood, In, Spared
  <2> QED BY <2>4, <2>5, <2>6 DEF Good
<1>3. CASE ~store.user
  <2>1. tasks'[t].pc = "idle" BY <1>3, Ended DEF ConnectRead, TypeInv
  <2>4. ProxyGood(t)' BY <1>1, <2>1 DEF Good, ProxyGood, In, Spared
  <2>5. LabelGood(t)' BY <1>1, <2>1 DEF Good, LabelGood, In, Spared
  <2>6. BadgeGood(t)' BY <1>1, <2>1 DEF Good, BadgeGood, In, Spared
  <2> QED BY <2>4, <2>5, <2>6 DEF Good
<1> QED BY <1>2, <1>3

LEMMA ConnectSetGood ==
  ASSUME TypeInv, NEW t \in All, Good(t), ConnectSet(t) PROVE Good(t)'
<1>1. /\ tasks[t].pc = "set" /\ UNCHANGED <<store, badge, popup>>
      /\ mishaps \subseteq mishaps'
  BY DEF ConnectSet, SetRefused, At
<1>2. \/ /\ setting' = tasks[t].host /\ tasks'[t].pc = "setTrue"
         /\ tasks'[t].host = tasks[t].host
      \/ UNCHANGED setting /\ tasks'[t].pc = "idle"
  BY Went, Ended DEF ConnectSet, SetRefused, TypeInv, PCs
<1>3. ProxyGood(t)' BY <1>1, <1>2, SparedBefore DEF Good, ProxyGood, In
<1>4. LabelGood(t)' BY <1>1, <1>2, SparedBefore DEF Good, ProxyGood, LabelGood, In
<1>5. BadgeGood(t)' BY <1>1, <1>2, SparedBefore DEF Good, BadgeGood, In
<1> QED BY <1>3, <1>4, <1>5 DEF Good

(* Steps that write storage's connected.                                   *)
Stored(user, connected) ==
  /\ store'.user = user /\ store'.connected = connected /\ store'.proxy = store.proxy

LEMMA ConnectStoreGood ==
  ASSUME TypeInv, NEW t \in All, Good(t), ConnectStore(t) PROVE Good(t)'
<1>1. tasks[t].pc = "setTrue" /\ UNCHANGED <<setting, badge, popup, mishaps>>
  BY DEF ConnectStore, At
<1>2. tasks'[t].pc = "badgeOn" /\ tasks'[t].host = tasks[t].host
  BY Went DEF ConnectStore, TypeInv, PCs
<1>3. Stored(store.user, TRUE) BY DEF ConnectStore, TypeInv, StoreOK, Stored
<1>4. ProxyGood(t)' BY <1>1, <1>2, <1>3 DEF Good, ProxyGood, In, Stored, Spared
<1>5. LabelGood(t)' BY <1>1, <1>2, <1>3 DEF Good, LabelGood, In, Spared, Stored
<1>6. BadgeGood(t)' BY <1>1, <1>2, <1>3 DEF Good, BadgeGood, In, Spared, Stored
<1> QED BY <1>4, <1>5, <1>6 DEF Good

LEMMA ConnectBadgeGood ==
  ASSUME TypeInv, NEW t \in All, Good(t), ConnectBadge(t) PROVE Good(t)'
<1>1. tasks[t].pc = "badgeOn" /\ badge' /\ UNCHANGED <<store, setting, popup, mishaps>>
  BY DEF ConnectBadge, At
<1>2. tasks'[t].pc = "showOn" /\ tasks'[t].host = tasks[t].host
  BY Went DEF ConnectBadge, TypeInv, PCs
<1>3. ProxyGood(t)' BY <1>1, <1>2 DEF Good, ProxyGood, In, Spared
<1>4. LabelGood(t)' BY <1>1, <1>2 DEF Good, LabelGood, In, Spared
<1>5. BadgeGood(t)' BY <1>1, <1>2 DEF Good, ProxyGood, BadgeGood, In, Spared
<1> QED BY <1>3, <1>4, <1>5 DEF Good

LEMMA ShowOnGood ==
  ASSUME TypeInv, NEW t \in All, Good(t), ShowOn(t) PROVE Good(t)'
<1>1. tasks[t].pc = "showOn" /\ UNCHANGED <<store, setting, badge, mishaps>>
  BY DEF ShowOn, At
<1>2. tasks'[t].pc = "idle" BY Ended DEF ShowOn, TypeInv
<1>3. popup'.connected /\ (~popup'.demo => tasks[t].host # None)
  <2> DEFINE p == [popup EXCEPT !.connected = TRUE]
             demo == ~proxyConfigured(tasks[t].host)
  <2>1. p \in [view : {"closed", "auth", "main"}, connected : BOOLEAN, demo : BOOLEAN]
    BY DEF TypeInv, PopupOK
  <2>2. popup' = [p EXCEPT !.demo = demo] BY DEF ShowOn
  <2>3. p.connected = TRUE BY DEF TypeInv, PopupOK
  <2> HIDE DEF p, demo
  <2>4. popup'.demo = demo /\ popup'.connected = TRUE BY <2>1, <2>2, <2>3
  <2> QED BY <2>4, Zenon DEF demo, proxyConfigured
<1>4. ProxyGood(t)' BY <1>1, <1>2 DEF Good, ProxyGood, In, Spared
<1>5. LabelGood(t)' BY <1>1, <1>2, <1>3 DEF Good, LabelGood, In, Spared
<1>6. BadgeGood(t)' BY <1>1, <1>2, <1>3 DEF Good, BadgeGood, In, Spared
<1> QED BY <1>4, <1>5, <1>6 DEF Good

LEMMA ClearProxyGood ==
  ASSUME TypeInv, NEW t \in All, Good(t), ClearProxy(t) PROVE Good(t)'
<1>1. /\ tasks[t].pc = "clear" /\ UNCHANGED <<store, badge, popup>>
      /\ mishaps \subseteq mishaps'
      /\ setting' = None \/ (setting' = setting /\ ~Spared({"clear_failed"})')
  BY Cleared DEF ClearProxy, At, Spared
<1>2. tasks'[t].pc = "setFalse" BY Went DEF ClearProxy, TypeInv, PCs
<1>3. ProxyGood(t)' BY <1>1, <1>2, SparedBefore DEF Good, ProxyGood, In
<1>4. LabelGood(t)' BY <1>1, <1>2, SparedBefore DEF Good, LabelGood, In
<1>5. BadgeGood(t)' BY <1>1, <1>2, SparedBefore DEF Good, BadgeGood, In
<1> QED BY <1>3, <1>4, <1>5 DEF Good

LEMMA DisconnectStoreGood ==
  ASSUME TypeInv, NEW t \in All, Good(t), DisconnectStore(t) PROVE Good(t)'
<1>1. tasks[t].pc = "setFalse" /\ UNCHANGED <<setting, badge, popup, mishaps>>
  BY DEF DisconnectStore, At
<1>2. tasks'[t].pc = "badgeOff" BY Went DEF DisconnectStore, TypeInv, PCs
<1>3. Stored(store.user, FALSE) BY DEF DisconnectStore, TypeInv, StoreOK, Stored
<1>4. ProxyGood(t)' BY <1>1, <1>2, <1>3 DEF Good, ProxyGood, In, Stored, Spared
<1>5. LabelGood(t)' BY <1>1, <1>2, <1>3 DEF Good, LabelGood, In, Spared, Stored
<1>6. BadgeGood(t)' BY <1>1, <1>2, <1>3 DEF Good, BadgeGood, In, Spared, Stored
<1> QED BY <1>4, <1>5, <1>6 DEF Good

LEMMA DisconnectBadgeGood ==
  ASSUME TypeInv, NEW t \in All, Good(t), DisconnectBadge(t) PROVE Good(t)'
<1>1. tasks[t].pc = "badgeOff" /\ ~badge' /\ UNCHANGED <<store, setting, popup, mishaps>>
  BY DEF DisconnectBadge, BadgeCleared, At
<1>2. t # Worker BY <1>1 DEF Good, ProxyGood, In
<1>3. tasks'[t].pc = "showOff" BY <1>2, Went DEF DisconnectBadge, TypeInv, PCs
<1>4. ProxyGood(t)' BY <1>1, <1>2, <1>3 DEF Good, ProxyGood, In, Spared
<1>5. LabelGood(t)' BY <1>1, <1>3 DEF Good, LabelGood, In, Spared
<1>6. BadgeGood(t)' BY <1>1, <1>3 DEF Good, ProxyGood, BadgeGood, In, Spared
<1> QED BY <1>4, <1>5, <1>6 DEF Good

LEMMA ShowOffGood ==
  ASSUME TypeInv, NEW t \in All, Good(t), ShowOff(t) PROVE Good(t)'
<1>1. tasks[t].pc = "showOff" /\ UNCHANGED <<store, setting, badge, mishaps>>
  BY DEF ShowOff, At
<1>2. tasks'[t].pc = "idle" BY Ended DEF ShowOff, TypeInv
<1>3. ~popup'.connected BY DEF ShowOff, TypeInv, PopupOK
<1>4. ProxyGood(t)' BY <1>1, <1>2 DEF Good, ProxyGood, In, Spared
<1>5. LabelGood(t)' BY <1>1, <1>2, <1>3 DEF Good, LabelGood, In, Spared
<1>6. BadgeGood(t)' BY <1>1, <1>2 DEF Good, ProxyGood, BadgeGood, In, Spared
<1> QED BY <1>4, <1>5, <1>6 DEF Good

LEMMA RemoveSessionGood ==
  ASSUME TypeInv, NEW t \in All, Good(t), RemoveSession(t) PROVE Good(t)'
<1>1. tasks[t].pc = "remove" /\ UNCHANGED <<setting, badge, popup, mishaps>>
  BY DEF RemoveSession, At
<1>2. tasks'[t].pc = "clearOut" BY Went DEF RemoveSession, TypeInv, PCs
<1>3. Stored(FALSE, FALSE) BY DEF RemoveSession, SessionRemoved, TypeInv, StoreOK, Stored
<1>4. ProxyGood(t)' BY <1>1, <1>2, <1>3 DEF Good, ProxyGood, In, Stored, Spared
<1>5. LabelGood(t)' BY <1>1, <1>2, <1>3 DEF Good, LabelGood, In, Spared, Stored
<1>6. BadgeGood(t)' BY <1>1, <1>2, <1>3 DEF Good, BadgeGood, In, Spared, Stored
<1> QED BY <1>4, <1>5, <1>6 DEF Good

LEMMA ClearAtSignOutGood ==
  ASSUME TypeInv, NEW t \in All, Good(t), ClearAtSignOut(t) PROVE Good(t)'
<1>1. /\ tasks[t].pc = "clearOut" /\ UNCHANGED <<store, badge, popup>>
      /\ mishaps \subseteq mishaps'
      /\ setting' = None \/ (setting' = setting /\ ~Spared({"clear_failed"})')
  BY Cleared DEF ClearAtSignOut, At, Spared
<1>2. tasks'[t].pc = "refresh" BY Went DEF ClearAtSignOut, TypeInv, PCs
<1>3. ProxyGood(t)' BY <1>1, <1>2, SparedBefore DEF Good, ProxyGood, In
<1>4. LabelGood(t)' BY <1>1, <1>2, SparedBefore DEF Good, ProxyGood, LabelGood, In
<1>5. BadgeGood(t)' BY <1>1, <1>2, SparedBefore DEF Good, BadgeGood, In
<1> QED BY <1>3, <1>4, <1>5 DEF Good

LEMMA AuthAnsweredGood ==
  ASSUME TypeInv, NEW t \in All, Good(t), AuthAnswered(t) PROVE Good(t)'
<1>1. tasks[t].pc = "auth" /\ UNCHANGED <<setting, badge, popup, mishaps>>
  BY DEF AuthAnswered, At
<1>2. \/ Stored(TRUE, store.connected) /\ tasks'[t].pc = "refresh"
      \/ UNCHANGED store /\ tasks'[t].pc = "idle"
  BY Went, Ended DEF AuthAnswered, TypeInv, PCs, StoreOK, Stored
<1>4. ProxyGood(t)' BY <1>1, <1>2 DEF Good, ProxyGood, In, Stored, Spared
<1>5. LabelGood(t)' BY <1>1, <1>2 DEF Good, LabelGood, In, Spared, Stored
<1>6. BadgeGood(t)' BY <1>1, <1>2 DEF Good, BadgeGood, In, Spared, Stored
<1> QED BY <1>4, <1>5, <1>6 DEF Good

LEMMA RefreshGood ==
  ASSUME TypeInv, NEW t \in All, Good(t), Refresh(t) PROVE Good(t)'
<1>1. tasks[t].pc = "refresh" /\ UNCHANGED <<store, setting, badge, mishaps>>
  BY DEF Refresh, At
<1>2. tasks'[t].pc = "idle" BY Ended DEF Refresh, TypeInv
<1>3. /\ popup'.connected /\ ~popup'.demo => store.connected /\ store.proxy # None
      /\ popup'.view = "main" /\ store.connected => popup'.connected
  <2>1. CASE store.user
    <3> DEFINE demo == DemoShown(store.connected, store.proxy)
    <3>1. popup' = [view |-> "main", connected |-> store.connected, demo |-> demo]
      BY <2>1, Zenon DEF Refresh
    <3> HIDE DEF demo
    <3>2. popup'.connected = store.connected /\ popup'.demo = demo BY <3>1
    <3> QED BY <3>2, Zenon DEF demo, DemoShown, proxyConfigured
  <2>2. CASE ~store.user
    <3>1. popup' = [Closed EXCEPT !.view = "auth"] BY <2>2, Zenon DEF Refresh
    <3> QED BY <3>1, ClosedOK
  <2> QED BY <2>1, <2>2
<1>4. ProxyGood(t)' BY <1>1, <1>2 DEF Good, ProxyGood, In, Spared
<1>5. LabelGood(t)' BY <1>1, <1>2, <1>3 DEF Good, LabelGood, In, Spared
<1>6. BadgeGood(t)' BY <1>1, <1>2, <1>3 DEF Good, BadgeGood, In, Spared
<1> QED BY <1>4, <1>5, <1>6 DEF Good

LEMMA StepGood == ASSUME TypeInv, NEW t \in All, Good(t), Step(t) PROVE Good(t)'
BY ToggleReadGood, ConnectReadGood, ConnectSetGood, ConnectStoreGood, ConnectBadgeGood,
   ShowOnGood, ClearProxyGood, DisconnectStoreGood, DisconnectBadgeGood, ShowOffGood,
   RemoveSessionGood, ClearAtSignOutGood, AuthAnsweredGood, RefreshGood
   DEF Step

LEMMA StepMoves ==
  ASSUME TypeInv, NEW t \in All, Step(t)
  PROVE  /\ tasks[t].pc # "idle" /\ mishaps \subseteq mishaps'
         /\ \A s \in All : s # t => tasks'[s] = tasks[s]
<1>1. tasks[t].pc # "idle"
  BY DEF Step, ToggleRead, ConnectRead, ConnectSet, ConnectStore, ConnectBadge, ShowOn,
     ClearProxy, DisconnectStore, DisconnectBadge, ShowOff, RemoveSession, ClearAtSignOut,
     AuthAnswered, Refresh, At
<1>2. mishaps \subseteq mishaps'
  <2>1. mishaps' = mishaps \/ mishaps' = mishaps \cup Crossing \/ clearProxy
    BY Zenon DEF Step, ToggleRead, ConnectRead, ConnectSet, SetRefused, ConnectStore,
       ConnectBadge, ShowOn, ClearProxy, DisconnectStore, DisconnectBadge, ShowOff,
       RemoveSession, ClearAtSignOut, AuthAnswered, Refresh
  <2> QED BY <2>1, Cleared
<1>3. \/ \E pc \in PCs : Goto(t, pc)
      \/ Ends(t)
      \/ \E r : tasks' = [tasks EXCEPT ![t] = r]
  BY DEF Step, ToggleRead, ConnectRead, ConnectSet, SetRefused, ConnectStore, ConnectBadge,
     ShowOn, ClearProxy, DisconnectStore, DisconnectBadge, ShowOff, RemoveSession,
     ClearAtSignOut, AuthAnswered, Refresh, PCs
<1>4. TasksOK BY DEF TypeInv
<1>5. ASSUME NEW r, tasks' = [tasks EXCEPT ![t] = r]
      PROVE  \A s \in All : s # t => tasks'[s] = tasks[s]
  BY <1>4, <1>5 DEF TasksOK
<1> QED BY <1>1, <1>2, <1>3, <1>4, <1>5, Went, Ended

LEMMA MishapsGrow == TypeInv /\ [Next]_vars => mishaps \subseteq mishaps'
<1> SUFFICES ASSUME TypeInv, [Next]_vars PROVE mishaps \subseteq mishaps' OBVIOUS
<1>1. \A kinds : Note(kinds) => mishaps \subseteq mishaps' BY DEF Note
<1>2. ASSUME NEW t \in Handlers, Click(t) PROVE mishaps \subseteq mishaps'
  BY <1>1, <1>2, Zenon DEF Click, OpenPopup, ClickToggle, ClickSignOut, SubmitAuth
<1>3. ASSUME NEW t \in All, Step(t) PROVE mishaps \subseteq mishaps' BY <1>3, StepMoves
<1>4. SaveProxy \/ ClosePopup => mishaps \subseteq mishaps'
  BY <1>1, Zenon DEF SaveProxy, ClosePopup
<1>5. Alarm \/ Startup \/ Installed => mishaps \subseteq mishaps'
  BY DEF Alarm, Startup, Installed
<1>6. ASSUME NEW event \in {"startup", "installed"}, Restart(event)
      PROVE  mishaps \subseteq mishaps'
  BY <1>1, <1>6, Zenon DEF Restart
<1>7. UNCHANGED vars => mishaps \subseteq mishaps' BY DEF vars
<1> QED BY <1>2, <1>3, <1>4, <1>5, <1>6, <1>7 DEF Next, All

(* When no handler runs, any of them may be the next.                      *)
LEMMA QuietGood ==
  ASSUME Quiet, NEW u \in All, NEW t \in All, Good(u) PROVE Good(t) /\ Alone(t)
<1>1. tasks[u].pc = "idle" /\ tasks[t].pc = "idle" BY DEF Quiet, All
<1>2. ProxyGood(t) BY <1>1 DEF Good, ProxyGood, In
<1>3. LabelGood(t) BY <1>1 DEF Good, LabelGood, In
<1>4. BadgeGood(t) BY <1>1 DEF Good, BadgeGood, In
<1> QED BY <1>2, <1>3, <1>4 DEF Good, Alone, Quiet, All

LEMMA ClickGood ==
  ASSUME TypeInv, mishaps \subseteq mishaps', NEW t \in Handlers, tasks[t].pc = "idle", Good(t),
         Click(t)
  PROVE  Good(t)'
<1>0. t \in All /\ t # Worker BY ExtensionAssumption DEF All
<1>1. UNCHANGED <<store, setting, badge>>
  BY Zenon DEF Click, OpenPopup, ClickToggle, ClickSignOut, SubmitAuth
<1>2. tasks'[t].pc \in {"refresh", "toggle", "remove", "auth"}
  BY <1>0, Went DEF Click, OpenPopup, ClickToggle, ClickSignOut, SubmitAuth, Start, TypeInv, PCs
<1>3. UNCHANGED popup \/ (~popup'.connected /\ popup'.view # "main")
  BY ClosedOK DEF Click, OpenPopup, ClickToggle, ClickSignOut, SubmitAuth
<1>4. tasks'[t].pc = "remove" /\ badge => "signed_out" \in mishaps'
  <2>1. CASE ClickSignOut(t)
    <3>1. Note(Overlap \cup If(badge, "signed_out")) BY <2>1, Zenon DEF ClickSignOut
    <3>2. badge => "signed_out" \in If(badge, "signed_out") BY DEF If
    <3> QED BY <3>1, <3>2 DEF Note
  <2>2. CASE OpenPopup(t) \/ ClickToggle(t) \/ SubmitAuth(t)
    <3>1. tasks'[t].pc \in {"refresh", "toggle", "auth"}
      BY <1>0, <2>2, Went DEF OpenPopup, ClickToggle, SubmitAuth, Start, TypeInv, PCs
    <3> QED BY <3>1
  <2> QED BY <2>1, <2>2 DEF Click
<1>5. ProxyGood(t)' BY <1>0, <1>1, <1>2, SparedBefore DEF Good, ProxyGood, In
<1>6. LabelGood(t)' BY <1>1, <1>2, <1>3, SparedBefore DEF Good, LabelGood, In
<1>7. BadgeGood(t)'
  <2>1. Spared({"signed_out"})' => (tasks'[t].pc = "remove" => ~badge')
    BY <1>1, <1>4 DEF Spared
  <2> QED BY <1>1, <1>2, <1>3, <2>1, SparedBefore DEF Good, BadgeGood, In
<1> QED BY <1>5, <1>6, <1>7 DEF Good

LEMMA ClickTrust ==
  ASSUME TypeInv, Trust, mishaps \subseteq mishaps', NEW t \in Handlers, Click(t)
  PROVE  Trust'
<1> SUFFICES ASSUME Spared({"killed", "overlap"})' PROVE \E u \in All : (Alone(u) /\ Good(u))'
  BY DEF Trust
<1>0. t \in All BY DEF All
<1>1. Note(Overlap) \/ Note(Overlap \cup If(badge, "signed_out"))
  BY Zenon DEF Click, OpenPopup, ClickToggle, ClickSignOut, SubmitAuth
<1>2. Quiet
  <2>1. ~Quiet => "overlap" \in Overlap BY DEF Overlap, If
  <2> QED BY <1>1, <2>1 DEF Note, Spared
<1>3. PICK u \in All : Good(u) BY SparedBefore DEF Trust
<1>4. Good(t) /\ Alone(t) BY <1>0, <1>2, <1>3, QuietGood
<1>5. Good(t)' BY <1>2, <1>4, ClickGood DEF Quiet
<1>6. \A s \in All : s # t => tasks'[s] = tasks[s]
  BY <1>0, Went DEF Click, OpenPopup, ClickToggle, ClickSignOut, SubmitAuth, Start, TypeInv, PCs
<1>7. Alone(t)' BY <1>4, <1>6 DEF Alone
<1> QED BY <1>0, <1>5, <1>7

LEMMA StepTrust ==
  ASSUME TypeInv, Trust, NEW t \in All, Step(t) PROVE Trust'
<1>1. tasks[t].pc # "idle" /\ mishaps \subseteq mishaps' /\ \A s \in All : s # t => tasks'[s] = tasks[s]
  BY StepMoves
<1> SUFFICES ASSUME Spared({"killed", "overlap"})' PROVE (Alone(t) /\ Good(t))' BY DEF Trust
<1>2. PICK u \in All : Alone(u) /\ Good(u) BY <1>1, SparedBefore DEF Trust
<1>3. u = t BY <1>1, <1>2 DEF Alone
<1> QED BY <1>1, <1>2, <1>3, StepGood DEF Alone

LEMMA SaveProxyTrust ==
  ASSUME TypeInv, Trust, mishaps \subseteq mishaps', SaveProxy PROVE Trust'
<1> SUFFICES ASSUME Spared({"killed", "overlap"})' PROVE \E u \in All : (Alone(u) /\ Good(u))'
  BY DEF Trust
<1>1. PICK u \in All : Alone(u) /\ Good(u) BY SparedBefore DEF Trust
<1>2. store'.user = store.user /\ store'.connected = store.connected
      /\ UNCHANGED <<setting, badge, popup, tasks>>
  BY DEF SaveProxy, TypeInv, StoreOK
<1>3. Spared({"saved"})' => ~store.connected /\ tasks[u].pc = "idle"
  <2>1. Note(If(store.connected \/ ~Quiet, "saved")) BY Zenon DEF SaveProxy
  <2>2. store.connected \/ ~Quiet => "saved" \in mishaps' BY <2>1 DEF Note, If
  <2> QED BY <2>2 DEF Spared, Quiet, All
<1>4. ProxyGood(u)' BY <1>1, <1>2, SparedBefore DEF Good, ProxyGood, In
<1>5. LabelGood(u)' BY <1>1, <1>2, <1>3, SparedBefore DEF Good, LabelGood, In
<1>6. BadgeGood(u)' BY <1>1, <1>2, SparedBefore DEF Good, BadgeGood, In
<1> QED BY <1>1, <1>2, <1>4, <1>5, <1>6 DEF Good, Alone

(* The popup goes while its only handler is idle or just read storage.     *)
LEMMA PopupEndsTrust ==
  ASSUME TypeInv, Trust, mishaps \subseteq mishaps',
         ClosePopup \/ \E event \in {"startup", "installed"} : Restart(event)
  PROVE  Trust'
<1> SUFFICES ASSUME Spared({"killed", "overlap"})' PROVE \E u \in All : (Alone(u) /\ Good(u))'
  BY DEF Trust
<1>1. PICK u \in All : Alone(u) /\ Good(u) BY SparedBefore DEF Trust
<1>2. \A t \in Handlers : tasks[t].pc \in {"idle", "refresh"}
  <2> DEFINE busy == \E t \in Handlers : tasks[t].pc \notin {"idle", "refresh"}
  <2>1. Note(If(busy, "killed")) \/ Note({"restart"} \cup If(busy, "killed"))
    BY Zenon DEF ClosePopup, Restart
  <2>2. busy => "killed" \in mishaps'
    <3> HIDE DEF busy
    <3> QED BY <2>1 DEF Note, If
  <2> QED BY <2>2 DEF Spared
<1>3. ~popup'.connected /\ popup'.view # "main" /\ UNCHANGED <<store, setting>>
  BY ClosedOK DEF ClosePopup, Restart
<1>4. TasksOK /\ Worker \in All /\ Worker \notin Handlers /\ Handlers \subseteq All
  BY ExtensionAssumption DEF TypeInv, All
<1>5. CASE ClosePopup
  <2>1. UNCHANGED badge /\ tasks' = HandlersGone BY <1>5 DEF ClosePopup
  <2>2. (\A t \in Handlers : tasks'[t].pc = "idle") /\ tasks'[Worker] = tasks[Worker]
    BY <1>4, <2>1, Gone
  <2>3. Alone(u)' BY <1>1, <1>4, <2>2 DEF Alone, All
  <2>4. \/ u # Worker /\ tasks'[u].pc = "idle" /\ tasks[u].pc \in {"idle", "refresh"}
        \/ u = Worker /\ tasks'[u].pc = tasks[u].pc /\ tasks'[u].host = tasks[u].host
    BY <1>2, <1>4, <2>2 DEF All
  <2>5. ProxyGood(u)' BY <1>1, <1>3, <2>4, SparedBefore DEF Good, ProxyGood, In
  <2>6. LabelGood(u)' BY <1>1, <1>3, <2>4, SparedBefore DEF Good, LabelGood, In
  <2>7. BadgeGood(u)' BY <1>1, <1>3, <2>1, <2>4, SparedBefore DEF Good, BadgeGood, In
  <2> QED BY <2>3, <2>5, <2>6, <2>7 DEF Good
<1>6. ASSUME NEW event \in {"startup", "installed"}, Restart(event)
      PROVE  (Alone(Worker) /\ Good(Worker))'
  <2>1. /\ tasks[Worker].pc = "idle" /\ badge' \in {badge, FALSE}
        /\ tasks' = [HandlersGone EXCEPT ![Worker].pc = event] /\ "restart" \in mishaps'
    BY <1>6 DEF Restart, At, Note
  <2>2. (\A t \in Handlers : tasks'[t].pc = "idle") /\ tasks'[Worker].pc = event
    <3>1. /\ HandlersGone \in [All -> TaskRecords]
          /\ \A t \in Handlers : HandlersGone[t].pc = "idle"
      BY <1>4, Gone
    <3>2. \A t \in Handlers : tasks'[t] = HandlersGone[t] BY <1>4, <2>1, <3>1
    <3>3. tasks'[Worker] = [HandlersGone[Worker] EXCEPT !.pc = event] BY <1>4, <2>1, <3>1
    <3>4. tasks'[Worker].pc = event BY <1>4, <3>1, <3>3 DEF TaskRecords
    <3> QED BY <3>1, <3>2, <3>4
  <2>3. tasks[u].pc \in {"idle", "refresh"} BY <1>2, <2>1 DEF All
  <2>4. Alone(Worker)' BY <2>2 DEF Alone, All
  <2>5. ProxyGood(Worker)' BY <1>1, <1>3, <2>2, <2>3, SparedBefore DEF Good, ProxyGood, In
  <2>6. LabelGood(Worker)' BY <1>1, <1>3, <2>2, <2>3, SparedBefore DEF Good, LabelGood, In
  <2>7. BadgeGood(Worker)'
    <3>1. ~Spared({"signed_out", "restart"})' BY <2>1 DEF Spared
    <3>2. badge' => badge BY <2>1
    <3> QED BY <1>1, <1>3, <2>2, <2>3, <3>1, <3>2, SparedBefore DEF Good, BadgeGood, In
  <2> QED BY <2>4, <2>5, <2>6, <2>7 DEF Good
<1> QED BY <1>4, <1>5, <1>6

LEMMA WorkerTrust ==
  ASSUME TypeInv, Trust, mishaps \subseteq mishaps', Alarm \/ Startup \/ Installed
  PROVE  Trust'
<1> SUFFICES ASSUME Spared({"killed", "overlap"})' PROVE \E u \in All : (Alone(u) /\ Good(u))'
  BY DEF Trust
<1>1. PICK u \in All : Alone(u) /\ Good(u) BY SparedBefore DEF Trust
<1>2. ~Alarm BY <1>1 DEF Alarm, NeedsHealing, Good, ProxyGood
<1>3. Worker \in All /\ TasksOK BY DEF All, TypeInv
<1>4. tasks[Worker].pc \in {"startup", "installed"} /\ Ends(Worker)
      /\ UNCHANGED <<store, setting, popup, mishaps>>
  BY <1>2 DEF Startup, Installed, At
<1>5. u = Worker BY <1>1, <1>3, <1>4 DEF Alone
<1>6. /\ tasks'[Worker].pc = "idle"
      /\ \A s \in All : s # Worker => tasks'[s] = tasks[s]
  BY <1>3, <1>4, Ended
<1>7. \/ badge' = (badge /\ store.connected)
      \/ badge' = (badge \/ store.connected)
  BY <1>2, Zenon DEF Startup, Installed
<1>8. ProxyGood(u)' BY <1>1, <1>4, <1>5, <1>6, SparedBefore DEF Good, ProxyGood, In
<1>9. LabelGood(u)' BY <1>1, <1>4, <1>5, <1>6, SparedBefore DEF Good, LabelGood, In
<1>10. BadgeGood(u)' BY <1>1, <1>4, <1>5, <1>6, <1>7, SparedBefore DEF Good, BadgeGood, In
<1>11. Alone(u)' BY <1>1, <1>5, <1>6 DEF Alone
<1> QED BY <1>8, <1>9, <1>10, <1>11 DEF Good

LEMMA TrustStays == TypeInv /\ Trust /\ [Next]_vars => Trust'
<1> SUFFICES ASSUME TypeInv, Trust, [Next]_vars PROVE Trust' OBVIOUS
<1>1. mishaps \subseteq mishaps' BY MishapsGrow
<1>2. CASE UNCHANGED vars
  BY <1>2 DEF vars, Trust, Alone, Good, ProxyGood, LabelGood, BadgeGood, In, Spared
<1> QED BY <1>1, <1>2, ClickTrust, StepTrust, SaveProxyTrust, PopupEndsTrust, WorkerTrust
        DEF Next, All

LEMMA TrustInit == Init => Trust
<1> SUFFICES ASSUME Init PROVE Alone(Worker) /\ Good(Worker) BY DEF Trust, All
<1>1. \A t \in All : tasks[t].pc = "idle" BY IdleOK DEF Init, All
<1>2. /\ ~store.user /\ ~store.connected /\ setting = None /\ ~badge /\ ~popup.connected
  BY ClosedOK DEF Init
<1>3. tasks[Worker].pc = "idle" BY <1>1 DEF All
<1>4. ProxyGood(Worker) BY <1>2, <1>3 DEF ProxyGood, In
<1>5. LabelGood(Worker) BY <1>2, <1>3 DEF LabelGood, In
<1>6. BadgeGood(Worker) BY <1>2, <1>3 DEF BadgeGood, In
<1> QED BY <1>1, <1>4, <1>5, <1>6 DEF Good, Alone

LEMMA AlwaysTrust == Spec => [](TypeInv /\ Trust)
BY TrustInit, TrustStays, AlwaysTypeInv, PTL DEF Spec

(* LabelsAlwaysTrue: popup and badge say what proxy setting and storage    *)
(* hold, with the exceptions LabelsAreTrue names.                          *)
THEOREM LabelsAlwaysTrue == Spec => []LabelsAreTrue
<1>1. Trust => LabelsAreTrue
  <2> SUFFICES ASSUME Trust, Quiet, Spared({"killed", "overlap"})
               PROVE  LabelsAreTrue
    BY DEF LabelsAreTrue
  <2>1. PICK u \in All : Good(u) BY DEF Trust
  <2>2. tasks[u].pc = "idle" BY DEF Quiet, All
  <2>3. Spared({"signed_out", "saved"}) => Spared({"signed_out"}) /\ Spared({"saved"})
    BY DEF Spared
  <2> QED
    BY <2>1, <2>2, <2>3 DEF LabelsAreTrue, Good, ProxyGood, LabelGood, BadgeGood, In
<1> QED BY <1>1, AlwaysTrust, PTL

-----------------------------------------------------------------------------
(* Any overlap.  A proxy in use is stored as a connection, or a connect is *)
(* about to store it, or a sign-out about to clear it; and a disconnect    *)
(* that is about to store FALSE has cleared it.                            *)

Exceptions == {"killed", "clear_failed", "crossed"}

HiddenInv ==
  Spared(Exceptions) =>
    /\ setting # None => store.connected \/ \E t \in All : In(t, {"setTrue", "clearOut"})
    /\ \A t \in All : In(t, {"setFalse"}) => setting = None

(* Steps that touch neither, and move no handler from or to those places.  *)
LEMMA Aside ==
  ASSUME HiddenInv, mishaps \subseteq mishaps', setting' = setting,
         store'.connected = store.connected,
         \A t \in All : /\ In(t, {"setTrue", "clearOut"}) => tasks'[t].pc = tasks[t].pc
                        /\ tasks'[t].pc = "setFalse" => tasks[t].pc = "setFalse"
  PROVE  HiddenInv'
BY SparedBefore DEF HiddenInv, In

LEMMA SetHidden ==
  ASSUME TypeInv, HiddenInv, NEW t \in All, ConnectSet(t) PROVE HiddenInv'
<1>1. /\ tasks[t].pc = "set" /\ UNCHANGED store /\ mishaps \subseteq mishaps'
      /\ \A s \in All : s # t => tasks'[s] = tasks[s]
  BY StepMoves DEF ConnectSet, At, Step
<1>2. CASE setting' = tasks[t].host /\ mishaps' = mishaps \cup Crossing /\ Goto(t, "setTrue")
  <2>1. tasks'[t].pc = "setTrue" BY <1>2, Went DEF TypeInv, PCs
  <2>2. Spared(Exceptions)' => \A s \in All : tasks[s].pc # "setFalse"
    BY <1>2 DEF Crossing, If, Spared, Exceptions, At, All
  <2> QED BY <1>1, <2>1, <2>2 DEF HiddenInv, In
<1>3. CASE SetRefused(t)
  <2>1. tasks'[t].pc = "idle" /\ setting' = setting
    BY <1>3, Ended DEF SetRefused, TypeInv
  <2> QED BY <1>1, <2>1, Aside DEF In
<1> QED BY <1>2, <1>3 DEF ConnectSet

LEMMA ClearHidden ==
  ASSUME TypeInv, HiddenInv, NEW t \in All, ClearProxy(t) \/ ClearAtSignOut(t)
  PROVE  HiddenInv'
<1>1. clearProxy BY DEF ClearProxy, ClearAtSignOut
<1>2. setting' = None \/ ~Spared(Exceptions)' BY <1>1, Cleared DEF Spared, Exceptions
<1> QED BY <1>2 DEF HiddenInv

LEMMA StoreHidden ==
  ASSUME TypeInv, HiddenInv, NEW t \in All,
         ConnectStore(t) \/ DisconnectStore(t) \/ RemoveSession(t)
  PROVE  HiddenInv'
<1>1. UNCHANGED <<setting, mishaps>> /\ \A s \in All : s # t => tasks'[s] = tasks[s]
  BY StepMoves DEF ConnectStore, DisconnectStore, RemoveSession, Step
<1>2. Spared(Exceptions)' => Spared(Exceptions) BY <1>1 DEF Spared
<1>3. CASE ConnectStore(t)
  <2>1. tasks'[t].pc = "badgeOn" BY <1>3, Went DEF ConnectStore, TypeInv, PCs
  <2>2. store'.connected BY <1>3 DEF ConnectStore, TypeInv, StoreOK
  <2> QED BY <1>1, <1>2, <2>1, <2>2 DEF HiddenInv, In
<1>4. CASE DisconnectStore(t)
  <2>1. tasks[t].pc = "setFalse" /\ tasks'[t].pc = "badgeOff"
    BY <1>4, Went DEF DisconnectStore, At, TypeInv, PCs
  <2> QED BY <1>1, <1>2, <2>1 DEF HiddenInv, In
<1>5. CASE RemoveSession(t)
  <2>1. tasks'[t].pc = "clearOut" BY <1>5, Went DEF RemoveSession, TypeInv, PCs
  <2> QED BY <1>1, <1>2, <2>1 DEF HiddenInv, In
<1> QED BY <1>3, <1>4, <1>5

LEMMA StepHidden ==
  ASSUME TypeInv, HiddenInv, NEW t \in All, Step(t) PROVE HiddenInv'
<1>1. CASE ToggleRead(t) \/ ConnectRead(t) \/ ConnectBadge(t) \/ ShowOn(t)
           \/ DisconnectBadge(t) \/ ShowOff(t) \/ AuthAnswered(t) \/ Refresh(t)
  <2>1. /\ mishaps \subseteq mishaps' /\ \A s \in All : s # t => tasks'[s] = tasks[s]
    BY StepMoves
  <2>2. setting' = setting
    BY <1>1, Zenon DEF ToggleRead, ConnectRead, ConnectBadge, ShowOn, DisconnectBadge, ShowOff,
       AuthAnswered, Refresh
  <2>3. store'.connected = store.connected
    BY <1>1 DEF ToggleRead, ConnectRead, ConnectBadge, ShowOn, DisconnectBadge, ShowOff,
       AuthAnswered, Refresh, TypeInv, StoreOK
  <2>4. tasks[t].pc \notin {"setTrue", "clearOut"}
    BY <1>1 DEF ToggleRead, ConnectRead, ConnectBadge, ShowOn, DisconnectBadge, ShowOff,
       AuthAnswered, Refresh, At
  <2>5. tasks'[t].pc # "setFalse"
    <3>1. TasksOK BY DEF TypeInv
    <3>2. CASE ConnectRead(t)
      <4>1. Ends(t) \/ \E pc \in {"set", "setTrue"} :
                         tasks' = [tasks EXCEPT ![t] = [pc |-> pc, host |-> store.proxy]]
        BY <3>2 DEF ConnectRead
      <4> QED BY <3>1, <4>1, Ended, Read DEF TypeInv, PCs
    <3>3. CASE ToggleRead(t) \/ ConnectBadge(t) \/ DisconnectBadge(t) \/ AuthAnswered(t)
      <4>1. Ends(t) \/ \E pc \in {"clear", "session", "showOn", "showOff", "refresh"} : Goto(t, pc)
        BY <3>3 DEF ToggleRead, ConnectBadge, DisconnectBadge, AuthAnswered
      <4> QED BY <3>1, <4>1, Went, Ended DEF PCs
    <3>4. CASE ShowOn(t) \/ ShowOff(t) \/ Refresh(t)
      BY <3>1, <3>4, Ended DEF ShowOn, ShowOff, Refresh
    <3> QED BY <1>1, <3>2, <3>3, <3>4
  <2> QED BY <2>1, <2>2, <2>3, <2>4, <2>5, Aside DEF In
<1> QED BY <1>1, SetHidden, ClearHidden, StoreHidden DEF Step

LEMMA ClickHidden ==
  ASSUME TypeInv, HiddenInv, mishaps \subseteq mishaps', NEW t \in Handlers, Click(t)
  PROVE  HiddenInv'
<1>0. t \in All BY DEF All
<1>1. UNCHANGED <<store, setting>> /\ tasks[t].pc = "idle"
  BY Zenon DEF Click, OpenPopup, ClickToggle, ClickSignOut, SubmitAuth, Start, At
<1>2. /\ tasks'[t].pc \in {"refresh", "toggle", "remove", "auth"}
      /\ \A s \in All : s # t => tasks'[s] = tasks[s]
  BY <1>0, Went DEF Click, OpenPopup, ClickToggle, ClickSignOut, SubmitAuth, Start, TypeInv, PCs
<1> QED BY <1>1, <1>2, Aside DEF In

LEMMA PopupEndsHidden ==
  ASSUME TypeInv, HiddenInv, mishaps \subseteq mishaps',
         ClosePopup \/ \E event \in {"startup", "installed"} : Restart(event)
  PROVE  HiddenInv'
<1> SUFFICES ASSUME Spared(Exceptions)' PROVE HiddenInv' BY DEF HiddenInv
<1>1. UNCHANGED <<store, setting>> BY DEF ClosePopup, Restart
<1>2. \A t \in Handlers : tasks[t].pc \in {"idle", "refresh"}
  <2> DEFINE busy == \E t \in Handlers : tasks[t].pc \notin {"idle", "refresh"}
  <2>1. Note(If(busy, "killed")) \/ Note({"restart"} \cup If(busy, "killed"))
    BY Zenon DEF ClosePopup, Restart
  <2>2. busy => "killed" \in mishaps'
    <3> HIDE DEF busy
    <3> QED BY <2>1 DEF Note, If
  <2> QED BY <2>2 DEF Spared, Exceptions
<1>3. TasksOK /\ Worker \in All /\ Worker \notin Handlers /\ Handlers \subseteq All
  BY ExtensionAssumption DEF TypeInv, All
<1>4. /\ HandlersGone \in [All -> TaskRecords]
      /\ \A t \in Handlers : HandlersGone[t].pc = "idle"
      /\ HandlersGone[Worker] = tasks[Worker]
  BY <1>3, Gone
<1>5. CASE ClosePopup
  <2>1. tasks' = HandlersGone BY <1>5 DEF ClosePopup
  <2> QED BY <1>1, <1>2, <1>3, <1>4, <2>1, Aside DEF In, All
<1>6. ASSUME NEW event \in {"startup", "installed"}, Restart(event) PROVE HiddenInv'
  <2>1. tasks[Worker].pc = "idle" /\ tasks' = [HandlersGone EXCEPT ![Worker].pc = event]
    BY <1>6 DEF Restart, At
  <2>2. \A t \in Handlers : tasks'[t] = HandlersGone[t] BY <1>3, <1>4, <2>1
  <2>3. tasks'[Worker].pc = event
    <3>1. tasks'[Worker] = [HandlersGone[Worker] EXCEPT !.pc = event] BY <1>3, <1>4, <2>1
    <3> QED BY <1>3, <1>4, <3>1 DEF TaskRecords
  <2> QED BY <1>1, <1>2, <1>4, <2>1, <2>2, <2>3, Aside DEF In, All
<1> QED BY <1>5, <1>6

LEMMA WorkerHidden ==
  ASSUME TypeInv, HiddenInv, mishaps \subseteq mishaps', Alarm \/ Startup \/ Installed
  PROVE  HiddenInv'
<1>1. UNCHANGED <<store, setting>> BY Zenon DEF Alarm, Startup, Installed
<1>2. Worker \in All /\ TasksOK BY DEF All, TypeInv
<1>3. tasks[Worker].pc \in {"idle", "startup", "installed"}
  BY DEF Alarm, Startup, Installed, At
<1>4. /\ tasks'[Worker].pc \in {"clear", "idle"}
      /\ \A s \in All : s # Worker => tasks'[s] = tasks[s]
  <2>1. Goto(Worker, "clear") \/ Ends(Worker) BY DEF Alarm, Startup, Installed
  <2> QED BY <1>2, <2>1, Went, Ended DEF PCs
<1> QED BY <1>1, <1>2, <1>3, <1>4, Aside DEF In

LEMMA HiddenStays == TypeInv /\ HiddenInv /\ [Next]_vars => HiddenInv'
<1> SUFFICES ASSUME TypeInv, HiddenInv, [Next]_vars PROVE HiddenInv' OBVIOUS
<1>1. mishaps \subseteq mishaps' BY MishapsGrow
<1>2. CASE UNCHANGED vars BY <1>2 DEF vars, HiddenInv, In, Spared
<1>3. CASE SaveProxy
  <2>1. store'.connected = store.connected /\ UNCHANGED <<setting, tasks>>
    BY <1>3 DEF SaveProxy, TypeInv, StoreOK
  <2> QED BY <1>1, <2>1, Aside
<1> QED BY <1>1, <1>2, <1>3, StepHidden, ClickHidden, PopupEndsHidden, WorkerHidden
        DEF Next, All

LEMMA HiddenInit == Init => HiddenInv
BY IdleOK DEF Init, HiddenInv, In, All

(* NeverHiddenProxy: when the handlers have ended, the browser uses a      *)
(* proxy only for a connection that storage has, however many handlers     *)
(* overlapped, and without overlaps only for a user who is signed in.      *)
THEOREM NeverHiddenProxy == Spec => []HiddenProxyNever
<1>1. Trust /\ HiddenInv => HiddenProxyNever
  <2> SUFFICES ASSUME Trust, HiddenInv, Quiet, setting # None, Spared(Exceptions)
               PROVE  store.connected /\ (Spared({"overlap"}) => store.user)
    BY DEF HiddenProxyNever, Exceptions
  <2>1. \A t \in All : tasks[t].pc = "idle" BY DEF Quiet, All
  <2>2. store.connected BY <2>1 DEF HiddenInv, In
  <2>3. ASSUME Spared({"overlap"}) PROVE store.user
    <3>1. Spared({"killed", "overlap"}) BY <2>3 DEF Spared, Exceptions
    <3>2. PICK u \in All : Good(u) BY <3>1 DEF Trust
    <3> QED BY <2>2, <3>2 DEF Good, ProxyGood
  <2> QED BY <2>2, <2>3
<1>2. TypeInv /\ HiddenInv /\ [Next]_vars => HiddenInv' BY HiddenStays
<1>3. Init => HiddenInv BY HiddenInit
<1> QED BY <1>1, <1>2, <1>3, AlwaysTypeInv, AlwaysTrust, PTL DEF Spec
=============================================================================
