------------------------- MODULE DesktopApp_proofs -------------------------
(***************************************************************************)
(* Proofs about DesktopApp for any accounts, connect attempts, overlapping *)
(* disconnects and failures.                                               *)
(***************************************************************************)
EXTENDS DesktopApp, SequenceTheorems, TLAPS

-----------------------------------------------------------------------------
(* Types.                                                                  *)

UiRecords == [user : Accounts \cup {None}, peer : Accounts \cup {None},
              newId : Accounts \cup {None}, form : Forms]
Sessions == [user : Accounts \cup {None}, access : Token,
             refresh : Accounts \cup {None}]
ConnectRecords ==
  [pc : {"idle", "refreshing", "posting", "bringup", "up", "failed", "rollback"},
   rt : Accounts \cup {None}, token : Token,
   key : 0..MaxConnects, created : Accounts \cup {None}]
DiscRecords ==
  [pc : {"idle", "teardown", "down", "incomplete", "deleting"},
   peer : Accounts \cup {None}, token : Token]

(* What a handler holds at each of its awaits.                             *)
ConnectOK(c, n) ==
  /\ c \in ConnectRecords
  /\ c.pc = "refreshing" => c.rt # None /\ n < MaxConnects
  /\ c.pc \notin {"idle", "refreshing"} => c.token.acc # None /\ c.key # 0
  /\ c.pc \notin {"idle", "refreshing", "posting"} => c.created # None

DiscOK(d) == d \in DiscRecords /\ (d.pc # "idle" => d.peer # None)

HandlersOK ==
  /\ ConnectOK(connect, attempts)
  /\ DOMAIN disc = Disconnects /\ disc = [d \in Disconnects |-> disc[d]]
  /\ \A d \in Disconnects : DiscOK(disc[d])

ScreenOK == ui \in UiRecords /\ stored \in Sessions /\ auth \in Forms \cup {None}

OutsideOK ==
  /\ commands \in Seq(Disconnects \cup {"connect"})
  /\ tunnel \in 0..MaxConnects
  /\ rows \in [Accounts -> 0..MaxConnects]
  /\ late \subseteq Accounts
  /\ attempts \in 0..MaxConnects

HistoryOK == known \subseteq Accounts /\ mishaps \subseteq Mishaps /\ faults \in 0..FaultLimit

TypeInv == HandlersOK /\ ScreenOK /\ OutsideOK /\ HistoryOK

LEMMA TypeInvIsTypeOK == TypeInv => TypeOK
BY DEF TypeInv, TypeOK, HandlersOK, ScreenOK, OutsideOK, HistoryOK, UiRecords,
       Sessions, ConnectRecords, DiscRecords, ConnectOK, DiscOK

LEMMA Constants ==
  /\ NoToken \in Token /\ NoToken.acc = None /\ NoSession \in Sessions
  /\ NoSession.user = None /\ NoSession.access = NoToken /\ NoSession.refresh = None
  /\ IdleConnect \in ConnectRecords /\ IdleConnect.pc = "idle" /\ IdleConnect.rt = None
  /\ IdleConnect.token = NoToken
  /\ IdleDisc \in DiscRecords /\ IdleDisc.pc = "idle"
  /\ MaxConnects \in Nat /\ FaultLimit \in Nat /\ None \notin Accounts /\ None \notin Forms
<1>1. NoToken \in Token /\ NoToken.acc = None BY DEF NoToken, Token
<1>2. /\ NoSession \in Sessions /\ NoSession.user = None
      /\ NoSession.access = NoToken /\ NoSession.refresh = None
  BY <1>1 DEF NoSession, Sessions
<1>3. /\ IdleConnect \in ConnectRecords /\ IdleConnect.pc = "idle"
      /\ IdleConnect.rt = None /\ IdleConnect.token = NoToken
  BY <1>1, DesktopAssumption DEF IdleConnect, ConnectRecords
<1>4. IdleDisc \in DiscRecords /\ IdleDisc.pc = "idle"
  BY <1>1 DEF IdleDisc, DiscRecords
<1> QED BY <1>1, <1>2, <1>3, <1>4, DesktopAssumption

LEMMA IdleOK == DiscOK(IdleDisc) /\ \A n : ConnectOK(IdleConnect, n)
BY Constants DEF DiscOK, ConnectOK

(* The records the handlers write.                                         *)
LEMMA FormWritten ==
  ASSUME ui \in UiRecords, NEW form \in Forms
  PROVE  [ui EXCEPT !.form = form, !.newId = None] =
           [user |-> ui.user, peer |-> ui.peer, newId |-> None, form |-> form]
<1> DEFINE r == [ui EXCEPT !.form = form]
<1>1. r \in UiRecords /\ r.user = ui.user /\ r.peer = ui.peer /\ r.form = form
  BY DEF UiRecords
<1> HIDE DEF r
<1>2. [r EXCEPT !.newId = None] =
        [user |-> r.user, peer |-> r.peer, newId |-> None, form |-> r.form]
  BY <1>1 DEF UiRecords
<1> QED BY <1>1, <1>2 DEF r

LEMMA UserWritten ==
  ASSUME ui \in UiRecords, NEW a \in Accounts \cup {None}, NEW id \in Accounts \cup {None}
  PROVE  [ui EXCEPT !.user = a, !.newId = id] =
           [user |-> a, peer |-> ui.peer, newId |-> id, form |-> ui.form]
<1> DEFINE r == [ui EXCEPT !.user = a]
<1>1. r \in UiRecords /\ r.user = a /\ r.peer = ui.peer /\ r.form = ui.form
  BY DEF UiRecords
<1> HIDE DEF r
<1>2. [r EXCEPT !.newId = id] =
        [user |-> r.user, peer |-> r.peer, newId |-> id, form |-> r.form]
  BY <1>1 DEF UiRecords
<1> QED BY <1>1, <1>2 DEF r

LEMMA PeerWritten ==
  ASSUME ui \in UiRecords, NEW a \in Accounts \cup {None}
  PROVE  [ui EXCEPT !.peer = a] =
           [user |-> ui.user, peer |-> a, newId |-> ui.newId, form |-> ui.form]
BY DEF UiRecords

LEMMA ConnectMoved ==
  ASSUME connect \in ConnectRecords, NEW pc
  PROVE  [connect EXCEPT !.pc = pc] =
           [pc |-> pc, rt |-> connect.rt, token |-> connect.token,
            key |-> connect.key, created |-> connect.created]
BY DEF ConnectRecords

LEMMA ConnectPosted ==
  ASSUME connect \in ConnectRecords, NEW token \in Token, NEW key
  PROVE  [connect EXCEPT !.pc = "posting", !.token = token, !.key = key] =
           [pc |-> "posting", rt |-> connect.rt, token |-> token,
            key |-> key, created |-> connect.created]
<1> DEFINE r == [connect EXCEPT !.pc = "posting"]
           s == [r EXCEPT !.token = token]
<1>1. /\ r \in ConnectRecords /\ r.pc = "posting" /\ r.rt = connect.rt
      /\ r.key = connect.key /\ r.created = connect.created
  BY DEF ConnectRecords
<1> HIDE DEF r
<1>2. /\ s \in ConnectRecords /\ s.pc = "posting" /\ s.rt = connect.rt
      /\ s.token = token /\ s.created = connect.created
  BY <1>1 DEF ConnectRecords
<1> HIDE DEF s
<1>3. [s EXCEPT !.key = key] = [pc |-> s.pc, rt |-> s.rt, token |-> s.token,
                                key |-> key, created |-> s.created]
  BY <1>2 DEF ConnectRecords
<1> QED BY <1>2, <1>3 DEF r, s

LEMMA ConnectCreated ==
  ASSUME connect \in ConnectRecords, NEW created
  PROVE  [connect EXCEPT !.pc = "bringup", !.created = created] =
           [pc |-> "bringup", rt |-> connect.rt, token |-> connect.token,
            key |-> connect.key, created |-> created]
<1> DEFINE r == [connect EXCEPT !.pc = "bringup"]
<1>1. /\ r \in ConnectRecords /\ r.pc = "bringup" /\ r.rt = connect.rt
      /\ r.key = connect.key /\ r.token = connect.token
  BY DEF ConnectRecords
<1> HIDE DEF r
<1>2. [r EXCEPT !.created = created] = [pc |-> r.pc, rt |-> r.rt, token |-> r.token,
                                        key |-> r.key, created |-> created]
  BY <1>1 DEF ConnectRecords
<1> QED BY <1>1, <1>2 DEF r

LEMMA Persisted ==
  ASSUME NEW a \in Accounts \cup {None}, NEW user \in Accounts \cup {None}
  PROVE  /\ persistSession(a) = [user |-> a, access |-> [acc |-> a, fresh |-> TRUE],
                                 refresh |-> a]
         /\ [persistSession(a) EXCEPT !.user = user] =
              [user |-> user, access |-> [acc |-> a, fresh |-> TRUE], refresh |-> a]
         /\ [acc |-> a, fresh |-> TRUE] \in Token
<1>1. persistSession(a) = [user |-> a, access |-> [acc |-> a, fresh |-> TRUE],
                           refresh |-> a]
  BY DEF persistSession
<1>2. [acc |-> a, fresh |-> TRUE] \in Token BY DEF Token
<1> DEFINE t == [acc |-> a, fresh |-> TRUE]
           r == [user |-> a, access |-> t, refresh |-> a]
<1> HIDE DEF t
<1>3. [r EXCEPT !.user = user] = [user |-> user, access |-> t, refresh |-> a] OBVIOUS
<1> QED BY <1>1, <1>2, <1>3 DEF t

-----------------------------------------------------------------------------
(* Steps of the screen and of handleAuth.                                  *)

LEMMA ConnectStays ==
  ASSUME HandlersOK, ConnectOK(connect', attempts'), UNCHANGED disc PROVE HandlersOK'
BY DEF HandlersOK

LEMMA DiscWritten ==
  ASSUME HandlersOK, UNCHANGED <<connect, attempts>>, NEW d \in Disconnects, NEW r, DiscOK(r),
         disc' = [disc EXCEPT ![d] = r]
  PROVE  HandlersOK' /\ \A e \in Disconnects : disc'[e] = IF e = d THEN r ELSE disc[e]
BY DEF HandlersOK

LEMMA HandlersStay == ASSUME HandlersOK, UNCHANGED <<connect, attempts, disc>> PROVE HandlersOK'
BY DEF HandlersOK

LEMMA OutsideStays ==
  ASSUME OutsideOK, UNCHANGED <<commands, tunnel, rows, late, attempts>> PROVE OutsideOK'
BY DEF OutsideOK

LEMMA HistoryStays == ASSUME HistoryOK, UNCHANGED <<known, mishaps, faults>> PROVE HistoryOK'
BY DEF HistoryOK

LEMMA ScreenStays == ASSUME ScreenOK, UNCHANGED <<ui, stored, auth>> PROVE ScreenOK'
BY DEF ScreenOK

LEMMA Faulty ==
  ASSUME HistoryOK, NEW kind, Fault(kind), UNCHANGED known
  PROVE  HistoryOK' /\ kind \in mishaps' /\ mishaps \subseteq mishaps'
BY DesktopAssumption DEF HistoryOK, Fault, Mishaps

(* switchMode and switchMethod: the form changes, nothing else on screen.  *)
FormChanged ==
  /\ FormSwitches /\ NoteSwitchedForm
  /\ \E form \in Forms : ui' = [user |-> ui.user, peer |-> ui.peer,
                                newId |-> None, form |-> form]
  /\ UNCHANGED <<stored, auth, connect, disc, commands, tunnel, rows, late,
                 attempts, known, faults>>

LEMMA ModeSwitches ==
  ASSUME TypeInv, NEW m \in {"signin", "signup"}, switchMode(m) PROVE FormChanged
<1>1. m \in Forms BY DEF Forms
<1>2. ui' = [ui EXCEPT !.form = m, !.newId = None] BY DEF switchMode
<1>3. ui' = [user |-> ui.user, peer |-> ui.peer, newId |-> None, form |-> m]
  BY <1>1, <1>2, FormWritten DEF TypeInv, ScreenOK
<1> QED BY <1>1, <1>3 DEF switchMode, FormChanged

LEMMA MethodSwitches == ASSUME TypeInv, switchMethod PROVE FormChanged
<1> DEFINE form == [signin |-> "signin", signup |-> "anonymous",
                    anonymous |-> "signup"][ui.form]
<1>1. form \in Forms BY DEF Forms, TypeInv, ScreenOK, UiRecords
<1>2. ui' = [ui EXCEPT !.form = form, !.newId = None] BY DEF switchMethod
<1> HIDE DEF form
<1>3. ui' = [user |-> ui.user, peer |-> ui.peer, newId |-> None, form |-> form]
  BY <1>1, <1>2, FormWritten DEF TypeInv, ScreenOK
<1> QED BY <1>1, <1>3 DEF switchMethod, FormChanged

LEMMA FormChangedType == ASSUME TypeInv, FormChanged PROVE TypeInv'
<1>1. ScreenOK' BY DEF TypeInv, ScreenOK, FormChanged, UiRecords
<1>2. HistoryOK' BY DEF TypeInv, HistoryOK, FormChanged, NoteSwitchedForm, Mishaps
<1>3. UNCHANGED <<connect, disc, commands, tunnel, rows, late, attempts>> BY DEF FormChanged
<1> QED BY <1>1, <1>2, <1>3, HandlersStay, OutsideStays DEF TypeInv

LEMMA ContinueType == ASSUME TypeInv, Continue PROVE TypeInv'
<1>1. ScreenOK' BY DEF TypeInv, ScreenOK, Continue, UiRecords
<1>2. UNCHANGED <<connect, disc, commands, tunnel, rows, late, attempts, known, mishaps, faults>>
  BY DEF Continue
<1> QED BY <1>1, <1>2, HandlersStay, OutsideStays, HistoryStays DEF TypeInv

LEMMA handleAuthType == ASSUME TypeInv, handleAuth PROVE TypeInv'
<1>1. ScreenOK' BY DEF TypeInv, ScreenOK, handleAuth, UiRecords
<1>2. UNCHANGED <<connect, disc, commands, tunnel, rows, late, attempts, known, mishaps, faults>>
  BY DEF handleAuth
<1> QED BY <1>1, <1>2, HandlersStay, OutsideStays, HistoryStays DEF TypeInv

LEMMA AuthRefusedType == ASSUME TypeInv, AuthRefused PROVE TypeInv'
<1>1. ScreenOK' BY DEF TypeInv, ScreenOK, AuthRefused
<1>2. UNCHANGED <<connect, disc, commands, tunnel, rows, late, attempts, known, mishaps, faults>>
  BY DEF AuthRefused
<1> QED BY <1>1, <1>2, HandlersStay, OutsideStays, HistoryStays DEF TypeInv

(* handleAuth's answer: a session of one account.                          *)
LEMMA AuthAnsweredFacts ==
  ASSUME TypeInv, AuthAnswered
  PROVE  \E a \in Accounts :
           /\ stored' = [user |-> a, access |-> [acc |-> a, fresh |-> TRUE], refresh |-> a]
           /\ ui' = [user |-> a, peer |-> ui.peer,
                     newId |-> IF auth = "anonymous" THEN a ELSE ui.newId,
                     form |-> ui.form]
           /\ known' = known \cup {a}
           /\ NoteSwitchedAccount(a)
           /\ auth # None /\ auth' = None
           /\ UNCHANGED <<connect, disc, commands, tunnel, rows, late, attempts, faults>>
<1>1. PICK a \in (IF auth = "signin" THEN known ELSE Accounts \ known) :
        /\ stored' = persistSession(a)
        /\ ui' = [ui EXCEPT !.user = a, !.newId = IF auth = "anonymous" THEN a ELSE @]
        /\ known' = known \cup {a}
        /\ NoteSwitchedAccount(a)
  BY Zenon DEF AuthAnswered
<1>2. a \in Accounts BY DEF TypeInv, HistoryOK
<1> DEFINE id == IF auth = "anonymous" THEN a ELSE ui.newId
<1>3. id \in Accounts \cup {None} BY <1>2 DEF TypeInv, ScreenOK, UiRecords
<1>4. ui' = [ui EXCEPT !.user = a, !.newId = id]
  <2>1. DOMAIN ui = {"user", "peer", "newId", "form"} BY DEF TypeInv, ScreenOK, UiRecords
  <2> QED BY <1>1, <2>1
<1> HIDE DEF id
<1>5. ui' = [user |-> a, peer |-> ui.peer, newId |-> id, form |-> ui.form]
  BY <1>2, <1>3, <1>4, UserWritten DEF TypeInv, ScreenOK
<1>6. stored' = [user |-> a, access |-> [acc |-> a, fresh |-> TRUE], refresh |-> a]
  BY <1>1, <1>2, Persisted
<1> QED BY <1>1, <1>2, <1>5, <1>6 DEF AuthAnswered, NoFault, id

LEMMA AuthAnsweredType == ASSUME TypeInv, AuthAnswered PROVE TypeInv'
<1>1. PICK a \in Accounts :
           /\ stored' = [user |-> a, access |-> [acc |-> a, fresh |-> TRUE], refresh |-> a]
           /\ ui' = [user |-> a, peer |-> ui.peer,
                     newId |-> IF auth = "anonymous" THEN a ELSE ui.newId,
                     form |-> ui.form]
           /\ known' = known \cup {a}
           /\ NoteSwitchedAccount(a)
           /\ auth # None /\ auth' = None
           /\ UNCHANGED <<connect, disc, commands, tunnel, rows, late, attempts, faults>>
  BY AuthAnsweredFacts
<1>2. ui' \in UiRecords BY <1>1 DEF TypeInv, ScreenOK, UiRecords
<1>3. stored' \in Sessions BY <1>1, Persisted DEF Sessions
<1>4. HistoryOK' BY <1>1 DEF TypeInv, HistoryOK, NoteSwitchedAccount, Mishaps
<1> QED BY <1>1, <1>2, <1>3, <1>4, HandlersStay, OutsideStays DEF TypeInv, ScreenOK

LEMMA TokenExpiresType == ASSUME TypeInv, TokenExpires PROVE TypeInv'
<1>1. ScreenOK' BY DEF TypeInv, ScreenOK, TokenExpires, Sessions, Token
<1>2. HistoryOK' BY Faulty DEF TokenExpires, TypeInv
<1>3. UNCHANGED <<connect, disc, commands, tunnel, rows, late, attempts>> BY DEF TokenExpires
<1> QED BY <1>1, <1>2, <1>3, HandlersStay, OutsideStays DEF TypeInv

-----------------------------------------------------------------------------
(* Steps of handleConnect.                                                 *)

(* The handler posts a new key, or ends without a token.                   *)
Posts(token) ==
  \/ token.acc = None /\ connect' = IdleConnect /\ UNCHANGED attempts
  \/ /\ token.acc # None /\ attempts' = attempts + 1
     /\ connect' = [pc |-> "posting", rt |-> connect.rt, token |-> token,
                    key |-> attempts + 1, created |-> connect.created]

LEMMA PostPeerFacts ==
  ASSUME ConnectOK(connect, attempts), attempts \in 0..MaxConnects, attempts < MaxConnects,
         NEW token \in Token, PostPeer(token)
  PROVE  Posts(token) /\ ConnectOK(connect', attempts') /\ attempts' \in 0..MaxConnects
<1>1. CASE token.acc = None
  BY <1>1, IdleOK DEF PostPeer, Posts
<1>2. CASE token.acc # None
  <2>1. connect' = [connect EXCEPT !.pc = "posting", !.token = token, !.key = attempts + 1]
        /\ attempts' = attempts + 1
    BY <1>2 DEF PostPeer
  <2>2. connect \in ConnectRecords BY DEF ConnectOK
  <2>3. connect' = [pc |-> "posting", rt |-> connect.rt, token |-> token,
                    key |-> attempts + 1, created |-> connect.created]
    BY <2>1, <2>2, ConnectPosted
  <2>4. attempts' \in 0..MaxConnects /\ attempts + 1 # 0 BY <2>1, Constants
  <2>5. ConnectOK(connect', attempts')
    BY <1>2, <2>1, <2>2, <2>3, <2>4 DEF ConnectOK, ConnectRecords
  <2> QED BY <1>2, <2>1, <2>3, <2>4, <2>5 DEF Posts
<1> QED BY <1>1, <1>2

LEMMA handleConnectFacts ==
  ASSUME TypeInv, handleConnect
  PROVE  /\ \/ stored.refresh = None /\ Posts(stored.access)
            \/ /\ stored.refresh # None /\ UNCHANGED attempts
               /\ connect' = [IdleConnect EXCEPT !.pc = "refreshing", !.rt = stored.refresh]
               /\ connect'.pc = "refreshing" /\ connect'.rt = stored.refresh
         /\ ConnectOK(connect', attempts') /\ attempts' \in 0..MaxConnects
<1>1. /\ ConnectOK(connect, attempts) /\ attempts \in 0..MaxConnects /\ attempts < MaxConnects
      /\ stored.access \in Token /\ stored.refresh \in Accounts \cup {None}
  BY DEF TypeInv, HandlersOK, OutsideOK, ScreenOK, Sessions, handleConnect
<1>2. CASE stored.refresh = None
  BY <1>1, <1>2, PostPeerFacts DEF handleConnect
<1>3. CASE stored.refresh # None
  <2>1. connect' = [IdleConnect EXCEPT !.pc = "refreshing", !.rt = stored.refresh]
        /\ UNCHANGED attempts
    BY <1>3 DEF handleConnect
  <2>2. [IdleConnect EXCEPT !.pc = "refreshing", !.rt = stored.refresh]
          = [pc |-> "refreshing", rt |-> stored.refresh, token |-> NoToken,
             key |-> 0, created |-> None]
    <3> DEFINE r == [IdleConnect EXCEPT !.pc = "refreshing"]
    <3>1. r = [pc |-> "refreshing", rt |-> None, token |-> NoToken, key |-> 0, created |-> None]
      BY DEF IdleConnect
    <3> HIDE DEF r
    <3>2. [r EXCEPT !.rt = stored.refresh]
            = [pc |-> "refreshing", rt |-> stored.refresh, token |-> NoToken,
               key |-> 0, created |-> None]
      BY <3>1
    <3> QED BY <3>2 DEF r
  <2>3. ConnectOK(connect', attempts') /\ connect'.pc = "refreshing"
        /\ connect'.rt = stored.refresh
    BY <1>1, <1>3, <2>1, <2>2, Constants DEF ConnectOK, ConnectRecords
  <2> QED BY <1>1, <1>3, <2>1, <2>3
<1> QED BY <1>2, <1>3

LEMMA handleConnectType == ASSUME TypeInv, handleConnect PROVE TypeInv'
<1>1. /\ ConnectOK(connect', attempts') /\ attempts' \in 0..MaxConnects
      /\ UNCHANGED <<ui, stored, auth, disc, commands, tunnel, rows, late, known, faults>>
      /\ mishaps' \in {mishaps, mishaps \cup {"hurried"}}
  BY handleConnectFacts DEF handleConnect
<1>2. OutsideOK' /\ HistoryOK' BY <1>1 DEF TypeInv, OutsideOK, HistoryOK, Mishaps
<1> QED BY <1>1, <1>2, ConnectStays, ScreenStays DEF TypeInv

(* The refresh's answer leaves the user as it is.                          *)
LEMMA RefreshAnsweredFacts ==
  ASSUME TypeInv, RefreshAnswered
  PROVE  /\ stored' \in Sessions /\ stored'.user = stored.user
         /\ stored.user = None => stored' = stored
         /\ stored.user # None => /\ stored'.access.acc = connect.rt
                                 /\ stored'.refresh = connect.rt
         /\ Posts(stored'.access)
         /\ ConnectOK(connect', attempts') /\ attempts' \in 0..MaxConnects
         /\ UNCHANGED <<ui, auth, disc, commands, tunnel, rows, late, known, mishaps, faults>>
<1>1. /\ ConnectOK(connect, attempts) /\ attempts \in 0..MaxConnects /\ attempts < MaxConnects
      /\ stored \in Sessions /\ connect.rt \in Accounts \cup {None}
      /\ stored.user \in Accounts \cup {None}
  BY DEF TypeInv, HandlersOK, OutsideOK, ScreenOK, Sessions, RefreshAnswered, ConnectOK,
         ConnectRecords
<1>2. stored' = IF stored.user = None THEN stored
                ELSE [user |-> stored.user, access |-> [acc |-> connect.rt, fresh |-> TRUE],
                      refresh |-> connect.rt]
  BY <1>1, Persisted DEF RefreshAnswered, Refreshed
<1>3. stored' \in Sessions BY <1>1, <1>2, Persisted DEF Sessions
<1>4. stored'.access \in Token BY <1>3 DEF Sessions
<1>5. Posts(stored'.access) /\ ConnectOK(connect', attempts') /\ attempts' \in 0..MaxConnects
  BY <1>1, <1>4, PostPeerFacts DEF RefreshAnswered
<1> QED BY <1>2, <1>3, <1>5 DEF RefreshAnswered, NoFault

LEMMA RefreshAnsweredType == ASSUME TypeInv, RefreshAnswered PROVE TypeInv'
<1>1. /\ stored' \in Sessions /\ ConnectOK(connect', attempts') /\ attempts' \in 0..MaxConnects
      /\ UNCHANGED <<ui, auth, disc, commands, tunnel, rows, late, known, mishaps, faults>>
  BY RefreshAnsweredFacts
<1>2. OutsideOK' /\ ScreenOK' BY <1>1 DEF TypeInv, OutsideOK, ScreenOK
<1> QED BY <1>1, <1>2, ConnectStays, HistoryStays DEF TypeInv

LEMMA RefreshFailedFacts ==
  ASSUME TypeInv, RefreshFailed
  PROVE  Posts(stored.access) /\ ConnectOK(connect', attempts') /\ attempts' \in 0..MaxConnects
<1>1. /\ ConnectOK(connect, attempts) /\ attempts \in 0..MaxConnects /\ attempts < MaxConnects
      /\ stored.access \in Token
  BY DEF TypeInv, HandlersOK, OutsideOK, ScreenOK, Sessions, RefreshFailed, ConnectOK
<1> QED BY <1>1, PostPeerFacts DEF RefreshFailed

LEMMA RefreshFailedType == ASSUME TypeInv, RefreshFailed PROVE TypeInv'
<1>1. /\ ConnectOK(connect', attempts') /\ attempts' \in 0..MaxConnects
      /\ UNCHANGED <<ui, stored, auth, disc, commands, tunnel, rows, late, known>>
  BY RefreshFailedFacts DEF RefreshFailed
<1>2. OutsideOK' BY <1>1 DEF TypeInv, OutsideOK
<1>3. HistoryOK' BY <1>1, Faulty DEF TypeInv, RefreshFailed
<1> QED BY <1>1, <1>2, <1>3, ConnectStays, ScreenStays DEF TypeInv

(* The handler ends.                                                       *)
LEMMA ConnectEnds ==
  ASSUME TypeInv, connect' = IdleConnect, UNCHANGED <<disc, attempts>> PROVE HandlersOK'
BY IdleOK, ConnectStays DEF TypeInv

LEMMA MovedOK ==
  ASSUME ConnectOK(connect, attempts), UNCHANGED attempts,
         NEW pc \in {"up", "failed", "rollback"}, connect.pc \in {"bringup", "up", "failed"},
         connect' = [connect EXCEPT !.pc = pc]
  PROVE  /\ connect' = [pc |-> pc, rt |-> connect.rt, token |-> connect.token,
                        key |-> connect.key, created |-> connect.created]
         /\ ConnectOK(connect', attempts')
<1>1. connect \in ConnectRecords BY DEF ConnectOK
<1>2. connect' = [pc |-> pc, rt |-> connect.rt, token |-> connect.token,
                  key |-> connect.key, created |-> connect.created]
  BY <1>1, ConnectMoved
<1> QED BY <1>1, <1>2 DEF ConnectOK, ConnectRecords

LEMMA PeerCreatedFacts ==
  ASSUME TypeInv, PeerCreated
  PROVE  /\ connect' = [pc |-> "bringup", rt |-> connect.rt, token |-> connect.token,
                        key |-> connect.key, created |-> connect.token.acc]
         /\ ConnectOK(connect', attempts')
         /\ connect.token.acc \in Accounts /\ connect.key \in Keys
<1>1. /\ connect \in ConnectRecords /\ connect.pc = "posting" /\ connect.token.acc # None
      /\ connect.key # 0
      /\ connect' = [connect EXCEPT !.pc = "bringup", !.created = connect.token.acc]
  BY DEF TypeInv, HandlersOK, ConnectOK, PeerCreated
<1>2. connect' = [pc |-> "bringup", rt |-> connect.rt, token |-> connect.token,
                  key |-> connect.key, created |-> connect.token.acc]
  BY <1>1, ConnectCreated
<1>3. connect.token.acc \in Accounts /\ connect.key \in Keys
  BY <1>1, Constants DEF ConnectRecords, Token, Keys
<1>4. UNCHANGED attempts BY DEF PeerCreated
<1>5. ConnectOK(connect', attempts')
  BY <1>1, <1>2, <1>3, Constants DEF ConnectOK, ConnectRecords
<1> QED BY <1>2, <1>3, <1>5

LEMMA PeerCreatedType == ASSUME TypeInv, PeerCreated PROVE TypeInv'
<1>1. /\ ConnectOK(connect', attempts')
      /\ connect.token.acc \in Accounts /\ connect.key \in Keys
      /\ rows' = [rows EXCEPT ![connect.token.acc] = connect.key]
      /\ commands' = Append(commands, "connect")
      /\ UNCHANGED <<ui, stored, auth, disc, tunnel, late, attempts, known, mishaps, faults>>
  BY PeerCreatedFacts DEF PeerCreated, NoFault
<1>2. OutsideOK' BY <1>1, Constants DEF TypeInv, OutsideOK, Keys
<1> QED BY <1>1, <1>2, ConnectStays, ScreenStays, HistoryStays DEF TypeInv

LEMMA PeerRefusedType == ASSUME TypeInv, PeerRefused PROVE TypeInv'
<1>1. /\ connect' = IdleConnect
      /\ UNCHANGED <<ui, stored, auth, disc, commands, tunnel, rows, late, attempts, known,
                     mishaps, faults>>
  BY DEF PeerRefused
<1> QED BY <1>1, ConnectEnds, ScreenStays, OutsideStays, HistoryStays DEF TypeInv

LEMMA PostLostType == ASSUME TypeInv, PostLost PROVE TypeInv'
<1>1. /\ connect' = IdleConnect
      /\ UNCHANGED <<ui, stored, auth, disc, commands, tunnel, late, attempts, known>>
      /\ \/ UNCHANGED rows
         \/ rows' = [rows EXCEPT ![connect.token.acc] = connect.key]
  BY DEF PostLost
<1>2. connect.key \in 0..MaxConnects BY DEF TypeInv, HandlersOK, ConnectOK, ConnectRecords
<1>3. OutsideOK' BY <1>1, <1>2 DEF TypeInv, OutsideOK
<1>4. HistoryOK' BY <1>1, Faulty DEF TypeInv, PostLost
<1> QED BY <1>1, <1>3, <1>4, ConnectEnds, ScreenStays DEF TypeInv

LEMMA ConnectSucceedsType == ASSUME TypeInv, ConnectSucceeds PROVE TypeInv'
<1>1. /\ connect' = IdleConnect /\ ui' = [ui EXCEPT !.peer = connect.created]
      /\ UNCHANGED <<stored, auth, disc, commands, tunnel, rows, late, attempts, known,
                     mishaps, faults>>
  BY DEF ConnectSucceeds, AfterSuccess
<1>2. connect.created \in Accounts \cup {None}
  BY DEF TypeInv, HandlersOK, ConnectOK, ConnectRecords
<1>3. ScreenOK' BY <1>1, <1>2 DEF TypeInv, ScreenOK, UiRecords
<1> QED BY <1>1, <1>3, ConnectEnds, OutsideStays, HistoryStays DEF TypeInv

LEMMA ConnectFailsFacts ==
  ASSUME TypeInv, ConnectFails
  PROVE  connect' = [connect EXCEPT !.pc = "rollback"] /\ ConnectOK(connect', attempts')
<1>1. /\ ConnectOK(connect, attempts) /\ connect.pc = "failed" /\ connect.created # None
      /\ UNCHANGED attempts
  BY DEF TypeInv, HandlersOK, ConnectOK, ConnectFails
<1>2. connect' = [connect EXCEPT !.pc = "rollback"] BY <1>1 DEF ConnectFails
<1> QED BY <1>1, <1>2, MovedOK

LEMMA ConnectFailsType == ASSUME TypeInv, ConnectFails PROVE TypeInv'
<1>1. /\ ConnectOK(connect', attempts')
      /\ UNCHANGED <<ui, stored, auth, disc, commands, tunnel, rows, late, attempts, known,
                     mishaps, faults>>
  BY ConnectFailsFacts DEF ConnectFails
<1> QED BY <1>1, ConnectStays, ScreenStays, OutsideStays, HistoryStays DEF TypeInv

Hits(peer, token) == token.fresh /\ token.acc = peer

LEMMA DeletedType ==
  ASSUME OutsideOK, NEW peer, NEW token
  PROVE  /\ Deleted(peer, token) \in [Accounts -> 0..MaxConnects]
         /\ \A a \in Accounts : Deleted(peer, token)[a] =
              IF a = peer /\ Hits(peer, token) THEN 0 ELSE rows[a]
<1>1. CASE Hits(peer, token)
  <2>1. Deleted(peer, token) = [rows EXCEPT ![peer] = 0] BY <1>1, Zenon DEF Deleted, Hits
  <2>2. 0 \in 0..MaxConnects /\ rows \in [Accounts -> 0..MaxConnects]
    BY DesktopAssumption DEF OutsideOK
  <2>3. [rows EXCEPT ![peer] = 0] \in [Accounts -> 0..MaxConnects] BY <2>2
  <2>4. \A a \in Accounts : [rows EXCEPT ![peer] = 0][a] = IF a = peer THEN 0 ELSE rows[a]
    BY <2>2
  <2> QED BY <1>1, <2>1, <2>3, <2>4
<1>2. CASE ~Hits(peer, token)
  <2>1. Deleted(peer, token) = rows BY <1>2, Zenon DEF Deleted, Hits
  <2> QED BY <1>2, <2>1 DEF OutsideOK
<1> QED BY <1>1, <1>2

LEMMA RollbackAnsweredType == ASSUME TypeInv, RollbackAnswered PROVE TypeInv'
<1>1. /\ connect' = IdleConnect /\ rows' = Deleted(connect.created, connect.token)
      /\ UNCHANGED <<ui, stored, auth, disc, commands, tunnel, late, attempts, known,
                     mishaps, faults>>
  BY DEF RollbackAnswered
<1>2. OutsideOK' BY <1>1, DeletedType DEF TypeInv, OutsideOK
<1> QED BY <1>1, <1>2, ConnectEnds, ScreenStays, HistoryStays DEF TypeInv

LEMMA RollbackLostType == ASSUME TypeInv, RollbackLost PROVE TypeInv'
<1>1. /\ connect' = IdleConnect
      /\ rows' = rows \/ rows' = Deleted(connect.created, connect.token)
      /\ mishaps' = mishaps \cup {"network"}
      /\ UNCHANGED <<ui, stored, auth, disc, commands, tunnel, late, attempts, known, faults>>
  BY DEF RollbackLost
<1>2. OutsideOK' BY <1>1, DeletedType DEF TypeInv, OutsideOK
<1>3. HistoryOK' BY <1>1 DEF TypeInv, HistoryOK, Mishaps, FaultKinds
<1> QED BY <1>1, <1>2, <1>3, ConnectEnds, ScreenStays DEF TypeInv

-----------------------------------------------------------------------------
(* The main thread, handleDisconnect, sign-out and restart.                *)

LEMMA Queues ==
  ASSUME OutsideOK
  PROVE  /\ commands \in Seq(Disconnects \cup {"connect"}) /\ Len(commands) \in Nat
         /\ commands # << >> =>
              /\ Len(commands) > 0 /\ Head(commands) = commands[1]
              /\ Tail(commands) \in Seq(Disconnects \cup {"connect"})
              /\ Len(Tail(commands)) = Len(commands) - 1
              /\ \A i \in 1..Len(Tail(commands)) : Tail(commands)[i] = commands[i + 1]
         /\ \A e \in Disconnects \cup {"connect"} :
              /\ Append(commands, e) \in Seq(Disconnects \cup {"connect"})
              /\ Len(Append(commands, e)) = Len(commands) + 1
              /\ Append(commands, e)[Len(commands) + 1] = e
              /\ \A i \in 1..Len(commands) : Append(commands, e)[i] = commands[i]
BY DEF OutsideOK

(* A command is done; connect_wireguard's result is read by the handler.   *)
BringUpFacts(pc) ==
  /\ pc \in {"up", "failed"}
  /\ connect' = [connect EXCEPT !.pc = pc]
  /\ pc = "up" => tunnel' = connect.key /\ UNCHANGED <<mishaps, faults>>
  /\ pc = "failed" => tunnel' \in {tunnel, 0} /\ Fault("bringup")
  /\ commands # << >> /\ Head(commands) = "connect" /\ commands' = Tail(commands)
  /\ UNCHANGED <<ui, stored, auth, disc, rows, late, attempts, known>>

LEMMA BringUpIs == ASSUME BringUp PROVE \E pc \in {"up", "failed"} : BringUpFacts(pc)
BY DEF BringUp, BringUpOutcome, BringUpFacts

(* The handler waits while its command is in the queue, and no disconnect  *)
(* is asked for while it runs: the screen shows no peer.                   *)
Waiting ==
  /\ \A i \in 1..Len(commands) :
       commands[i] = "connect" => connect.pc = "bringup" /\ i = Len(commands)
  /\ connect.pc # "idle" => ui.peer = None
  /\ connect.pc = "up" => tunnel = connect.key /\ commands = << >>

LEMMA BringUpWaited ==
  ASSUME TypeInv, Waiting, commands # << >>, Head(commands) = "connect"
  PROVE  connect.pc = "bringup" /\ Len(commands) = 1 /\ Tail(commands) = << >>
<1>1. Len(commands) \in Nat /\ Len(commands) > 0 /\ commands[1] = "connect"
      /\ commands \in Seq(Disconnects \cup {"connect"})
  BY Queues DEF TypeInv
<1>2. connect.pc = "bringup" /\ Len(commands) = 1
  <2>1. \A i \in 1..Len(commands) :
          commands[i] = "connect" => connect.pc = "bringup" /\ i = Len(commands)
    BY Zenon DEF Waiting
  <2>2. 1 \in 1..Len(commands) BY <1>1
  <2> QED BY <1>1, <2>1, <2>2
<1>3. Tail(commands) \in Seq(Disconnects \cup {"connect"}) /\ Len(Tail(commands)) = 0
  BY <1>1, <1>2, Queues DEF TypeInv
<1>4. Tail(commands) = << >> BY <1>3, EmptySeq
<1> QED BY <1>2, <1>4

LEMMA BringUpType == ASSUME TypeInv, Waiting, BringUp PROVE TypeInv'
<1>1. PICK pc \in {"up", "failed"} : BringUpFacts(pc) BY BringUpIs
<1>2. connect.pc = "bringup" /\ commands' = << >>
  BY <1>1, BringUpWaited DEF BringUpFacts
<1>3. ConnectOK(connect', attempts')
  BY <1>1, <1>2, MovedOK DEF BringUpFacts, TypeInv, HandlersOK
<1>4. tunnel' \in 0..MaxConnects
  BY <1>1, DesktopAssumption
     DEF BringUpFacts, TypeInv, HandlersOK, ConnectOK, ConnectRecords, OutsideOK
<1>5. OutsideOK' BY <1>1, <1>2, <1>4 DEF BringUpFacts, TypeInv, OutsideOK
<1>6. HistoryOK' BY <1>1, Faulty DEF BringUpFacts, TypeInv, HistoryOK
<1> QED BY <1>1, <1>3, <1>5, <1>6, ConnectStays, ScreenStays DEF BringUpFacts, TypeInv

(* A disconnect starts, with peer and token as the screen shows them.      *)
LEMMA StartFacts ==
  ASSUME TypeInv, NEW d \in Disconnects, StartDisconnect(d, stored.access), connected,
         UNCHANGED <<connect, attempts>>
  PROVE  /\ HandlersOK'
         /\ \A e \in Disconnects : disc'[e] =
              IF e = d THEN [pc |-> "teardown", peer |-> ui.peer, token |-> stored.access]
              ELSE disc[e]
         /\ commands' = Append(commands, d) /\ disc[d].pc = "idle"
<1> DEFINE r == [pc |-> "teardown", peer |-> ui.peer, token |-> stored.access]
<1>1. DiscOK(r)
  BY DEF TypeInv, ScreenOK, UiRecords, Sessions, DiscOK, DiscRecords, connected
<1>2. disc' = [disc EXCEPT ![d] = r] /\ commands' = Append(commands, d) /\ disc[d].pc = "idle"
  BY DEF StartDisconnect
<1> HIDE DEF r
<1>3. HandlersOK' /\ \A e \in Disconnects : disc'[e] = IF e = d THEN r ELSE disc[e]
  BY <1>1, <1>2, DiscWritten DEF TypeInv
<1> QED BY <1>2, <1>3 DEF r

LEMMA AppendedType ==
  ASSUME OutsideOK, NEW d \in Disconnects, commands' = Append(commands, d),
         UNCHANGED <<tunnel, rows, late, attempts>>
  PROVE  OutsideOK'
BY Queues DEF OutsideOK

LEMMA handleDisconnectType ==
  ASSUME TypeInv, NEW d \in Disconnects, handleDisconnect(d) PROVE TypeInv'
<1>1. /\ StartDisconnect(d, stored.access) /\ connected
      /\ UNCHANGED <<ui, stored, auth, connect, tunnel, rows, late, attempts, known, mishaps,
                     faults>>
  BY DEF handleDisconnect
<1>2. HandlersOK' /\ commands' = Append(commands, d) BY <1>1, StartFacts
<1> QED BY <1>1, <1>2, AppendedType, ScreenStays, HistoryStays DEF TypeInv

LEMMA DiscMoved ==
  ASSUME TypeInv, NEW d \in Disconnects, disc[d].pc # "idle",
         NEW pc \in {"down", "incomplete", "deleting"}
  PROVE  /\ DiscOK([disc[d] EXCEPT !.pc = pc])
         /\ [disc[d] EXCEPT !.pc = pc].pc = pc
         /\ [disc[d] EXCEPT !.pc = pc].peer = disc[d].peer
         /\ [disc[d] EXCEPT !.pc = pc].token = disc[d].token
BY DEF TypeInv, HandlersOK, DiscOK, DiscRecords

(* disconnect_wireguard has run.  A queued call is at its teardown, once.  *)
Queued ==
  /\ \A i \in 1..Len(commands), d \in Disconnects :
       commands[i] = d => disc[d].pc = "teardown"
  /\ \A i, j \in 1..Len(commands) : commands[i] = commands[j] => i = j

BringDownFacts(d, pc) ==
  /\ pc \in {"down", "incomplete"}
  /\ disc' = [disc EXCEPT ![d] = [disc[d] EXCEPT !.pc = pc]]
  /\ pc = "down" => tunnel' = 0 /\ UNCHANGED <<mishaps, faults>>
  /\ pc = "incomplete" => UNCHANGED tunnel /\ Fault("teardown")
  /\ commands # << >> /\ Head(commands) = d /\ commands' = Tail(commands)
  /\ UNCHANGED <<ui, stored, auth, connect, rows, late, attempts, known>>

LEMMA BringDownIs ==
  ASSUME NEW d \in Disconnects, BringDown(d)
  PROVE  \E pc \in {"down", "incomplete"} : BringDownFacts(d, pc)
BY DEF BringDown, TeardownOutcome, BringDownFacts

LEMMA BringDownType ==
  ASSUME TypeInv, Queued, NEW d \in Disconnects, BringDown(d) PROVE TypeInv'
<1>1. PICK pc \in {"down", "incomplete"} : BringDownFacts(d, pc) BY BringDownIs
<1>2. commands # << >> /\ Head(commands) = d /\ commands' = Tail(commands)
      /\ UNCHANGED <<ui, stored, auth, connect, rows, late, attempts, known>>
      /\ disc' = [disc EXCEPT ![d] = [disc[d] EXCEPT !.pc = pc]]
  BY <1>1 DEF BringDownFacts
<1>3. 1 \in 1..Len(commands) /\ commands[1] = d BY <1>2, Queues DEF TypeInv
<1>4. disc[d].pc = "teardown" BY <1>3 DEF Queued
<1>5. DiscOK([disc[d] EXCEPT !.pc = pc]) BY <1>4, DiscMoved
<1>6. HandlersOK' BY <1>2, <1>5, DiscWritten DEF TypeInv
<1>7. tunnel' \in 0..MaxConnects
  BY <1>1, DesktopAssumption DEF BringDownFacts, TypeInv, OutsideOK
<1>8. OutsideOK' BY <1>2, <1>7, Queues DEF TypeInv, OutsideOK
<1>9. HistoryOK' BY <1>1, Faulty DEF BringDownFacts, TypeInv, HistoryOK
<1> QED BY <1>2, <1>6, <1>8, <1>9, ScreenStays DEF TypeInv

LEMMA UiCleared ==
  ASSUME ScreenOK, clearUi
  PROVE  /\ ui' = [user |-> ui.user, peer |-> None, newId |-> ui.newId, form |-> ui.form]
         /\ UNCHANGED <<stored, auth>> => ScreenOK'
<1>1. ui' = [ui EXCEPT !.peer = None] /\ ui \in UiRecords BY DEF clearUi, ScreenOK
<1>2. ui' = [user |-> ui.user, peer |-> None, newId |-> ui.newId, form |-> ui.form]
  BY <1>1, PeerWritten
<1>3. ui' \in UiRecords BY <1>1, <1>2 DEF UiRecords
<1> QED BY <1>2, <1>3 DEF ScreenOK

LEMMA DisconnectIncompleteType ==
  ASSUME TypeInv, NEW d \in Disconnects, DisconnectIncomplete(d) PROVE TypeInv'
<1>1. /\ clearUi /\ disc' = [disc EXCEPT ![d] = IdleDisc]
      /\ UNCHANGED <<stored, auth, connect, commands, tunnel, rows, late, attempts, known,
                     mishaps, faults>>
  BY DEF DisconnectIncomplete
<1>2. HandlersOK' BY <1>1, IdleOK, DiscWritten DEF TypeInv
<1> QED BY <1>1, <1>2, UiCleared, OutsideStays, HistoryStays DEF TypeInv

LEMMA LocalDownFacts ==
  ASSUME TypeInv, NEW d \in Disconnects, LocalDown(d)
  PROVE  /\ HandlersOK' /\ disc[d].pc = "down"
         /\ \A e \in Disconnects \ {d} : disc'[e] = disc[e]
         /\ \/ disc'[d] = IdleDisc /\ disc[d].token.acc = None
            \/ /\ disc'[d].pc = "deleting" /\ disc'[d].peer = disc[d].peer
               /\ disc'[d].token = disc[d].token
<1>1. disc[d].pc = "down" /\ UNCHANGED <<connect, attempts>> BY DEF LocalDown
<1>2. CASE disc[d].token.acc # None /\ disc[d].peer # None
  <2> DEFINE r == [disc[d] EXCEPT !.pc = "deleting"]
  <2>1. disc' = [disc EXCEPT ![d] = r] BY <1>2 DEF LocalDown
  <2>2. /\ DiscOK(r) /\ r.pc = "deleting" /\ r.peer = disc[d].peer
        /\ r.token = disc[d].token
    BY <1>1, DiscMoved
  <2> HIDE DEF r
  <2>3. HandlersOK' /\ \A e \in Disconnects : disc'[e] = IF e = d THEN r ELSE disc[e]
    BY <1>1, <2>1, <2>2, DiscWritten DEF TypeInv
  <2> QED BY <1>1, <2>2, <2>3
<1>3. CASE ~(disc[d].token.acc # None /\ disc[d].peer # None)
  <2>1. disc' = [disc EXCEPT ![d] = IdleDisc] BY <1>3 DEF LocalDown
  <2>2. disc[d].token.acc = None BY <1>1, <1>3 DEF TypeInv, HandlersOK, DiscOK
  <2>3. HandlersOK' /\ \A e \in Disconnects : disc'[e] = IF e = d THEN IdleDisc ELSE disc[e]
    BY <1>1, <2>1, IdleOK, DiscWritten DEF TypeInv
  <2> QED BY <1>1, <2>2, <2>3
<1> QED BY <1>2, <1>3

LEMMA LocalDownType == ASSUME TypeInv, NEW d \in Disconnects, LocalDown(d) PROVE TypeInv'
<1>1. /\ clearUi
      /\ UNCHANGED <<stored, auth, connect, commands, tunnel, rows, late, attempts, known,
                     mishaps, faults>>
  BY DEF LocalDown
<1>2. HandlersOK' BY LocalDownFacts
<1> QED BY <1>1, <1>2, UiCleared, OutsideStays, HistoryStays DEF TypeInv

LEMMA DeleteAnsweredType ==
  ASSUME TypeInv, NEW d \in Disconnects, DeleteAnswered(d) PROVE TypeInv'
<1>1. /\ clearUi /\ disc' = [disc EXCEPT ![d] = IdleDisc]
      /\ rows' = Deleted(disc[d].peer, disc[d].token)
      /\ UNCHANGED <<stored, auth, connect, commands, tunnel, late, attempts, known,
                     mishaps, faults>>
  BY DEF DeleteAnswered, NoFault
<1>2. HandlersOK' BY <1>1, IdleOK, DiscWritten DEF TypeInv
<1>3. OutsideOK' BY <1>1, DeletedType DEF TypeInv, OutsideOK
<1> QED BY <1>1, <1>2, <1>3, UiCleared, HistoryStays DEF TypeInv

LEMMA DeleteTimesOutType ==
  ASSUME TypeInv, NEW d \in Disconnects, DeleteTimesOut(d) PROVE TypeInv'
<1>1. /\ clearUi /\ disc' = [disc EXCEPT ![d] = IdleDisc]
      /\ late' = late \/ late' = late \cup {disc[d].peer}
      /\ mishaps' = mishaps \cup {"network"} /\ disc[d].pc = "deleting"
      /\ UNCHANGED <<stored, auth, connect, commands, tunnel, rows, attempts, known, faults>>
  BY DEF DeleteTimesOut
<1>2. HandlersOK' BY <1>1, IdleOK, DiscWritten DEF TypeInv
<1>3. disc[d].peer \in Accounts BY <1>1 DEF TypeInv, HandlersOK, DiscOK, DiscRecords
<1>4. OutsideOK' BY <1>1, <1>3 DEF TypeInv, OutsideOK
<1>5. HistoryOK' BY <1>1 DEF TypeInv, HistoryOK, Mishaps, FaultKinds
<1> QED BY <1>1, <1>2, <1>4, <1>5, UiCleared DEF TypeInv

LEMMA LateDeleteType == ASSUME TypeInv, NEW a \in Accounts, LateDelete(a) PROVE TypeInv'
<1>1. /\ UNCHANGED <<ui, stored, auth, connect, disc, commands, tunnel, attempts, known,
                     mishaps, faults>>
      /\ late' \subseteq late /\ rows' \in {rows, [rows EXCEPT ![a] = 0]}
  BY DEF LateDelete
<1>2. OutsideOK' BY <1>1, DesktopAssumption DEF TypeInv, OutsideOK
<1> QED BY <1>1, <1>2, HandlersStay, ScreenStays, HistoryStays DEF TypeInv

LEMMA SignOutFacts ==
  ASSUME TypeInv, handleSignOut
  PROVE  /\ HandlersOK' /\ stored' = NoSession
         /\ ui' = [user |-> None, peer |-> ui.peer, newId |-> None, form |-> ui.form]
         /\ \/ ~connected /\ UNCHANGED <<disc, commands>>
            \/ \E d \in Disconnects :
                 /\ connected /\ StartDisconnect(d, stored.access)
                 /\ commands' = Append(commands, d)
         /\ UNCHANGED <<auth, connect, tunnel, rows, late, attempts, known, mishaps, faults>>
<1>1. /\ stored' = NoSession /\ ui' = [ui EXCEPT !.user = None, !.newId = None]
      /\ UNCHANGED <<auth, connect, tunnel, rows, late, attempts, known, mishaps, faults>>
  BY DEF handleSignOut, SignedOutUi
<1>2. ui' = [user |-> None, peer |-> ui.peer, newId |-> None, form |-> ui.form]
  BY <1>1, UserWritten DEF TypeInv, ScreenOK
<1>3. CASE connected
  <2>1. PICK d \in Disconnects : StartDisconnect(d, stored.access)
    BY <1>3, Zenon DEF handleSignOut, TokenAtSignOut
  <2>2. HandlersOK' /\ commands' = Append(commands, d) BY <1>1, <1>3, <2>1, StartFacts
  <2> QED BY <1>1, <1>2, <1>3, <2>1, <2>2
<1>4. CASE ~connected
  <2>1. UNCHANGED <<disc, commands>> BY <1>4 DEF handleSignOut
  <2> QED BY <1>1, <1>2, <1>4, <2>1, HandlersStay DEF TypeInv
<1> QED BY <1>3, <1>4

LEMMA SignOutType == ASSUME TypeInv, handleSignOut PROVE TypeInv'
<1>1. /\ HandlersOK' /\ stored' = NoSession
      /\ ui' = [user |-> None, peer |-> ui.peer, newId |-> None, form |-> ui.form]
      /\ UNCHANGED <<auth, connect, tunnel, rows, late, attempts, known, mishaps, faults>>
  BY SignOutFacts
<1>2. OutsideOK'
  <2>1. CASE UNCHANGED commands BY <1>1, <2>1, OutsideStays DEF TypeInv
  <2>2. CASE \E d \in Disconnects : commands' = Append(commands, d)
    BY <1>1, <2>2, AppendedType DEF TypeInv
  <2> QED BY <2>1, <2>2, SignOutFacts
<1>3. ScreenOK' BY <1>1, Constants DEF TypeInv, ScreenOK, UiRecords
<1> QED BY <1>1, <1>2, <1>3, HistoryStays DEF TypeInv

LEMMA RestartFacts ==
  ASSUME TypeInv, Restart
  PROVE  /\ ui' = [user |-> stored.user, peer |-> None, newId |-> None, form |-> "signin"]
         /\ auth' = None /\ connect' = IdleConnect /\ commands' = << >>
         /\ HandlersOK' /\ \A d \in Disconnects : disc'[d] = IdleDisc
         /\ "restart" \in mishaps' /\ mishaps \subseteq mishaps' /\ HistoryOK'
         /\ UNCHANGED <<stored, attempts, known>>
<1>1. /\ ui' = [user |-> stored.user, peer |-> None, newId |-> None, form |-> "signin"]
      /\ auth' = None /\ connect' = IdleConnect /\ commands' = << >>
      /\ disc' = [d \in Disconnects |-> IdleDisc]
      /\ Fault("restart") /\ UNCHANGED <<stored, attempts, known>>
  BY DEF Restart
<1>2. HandlersOK' BY <1>1, IdleOK DEF HandlersOK
<1>3. "restart" \in mishaps' /\ mishaps \subseteq mishaps' /\ HistoryOK'
  BY <1>1, Faulty DEF TypeInv
<1> QED BY <1>1, <1>2, <1>3

LEMMA RestartType == ASSUME TypeInv, Restart PROVE TypeInv'
<1>1. HandlersOK' /\ HistoryOK' BY RestartFacts
<1>2. ScreenOK' BY RestartFacts DEF TypeInv, ScreenOK, UiRecords, Sessions, Forms
<1>3. tunnel' \in 0..MaxConnects
  <2>1. connect.key \in 0..MaxConnects BY DEF TypeInv, HandlersOK, ConnectOK, ConnectRecords
  <2>2. Begun \subseteq {connect.key, 0} BY DEF Begun
  <2>3. tunnel' \in {tunnel} \cup Begun BY DEF Restart
  <2> QED BY <2>1, <2>2, <2>3, DesktopAssumption DEF TypeInv, OutsideOK
<1>4. rows' \in [Accounts -> 0..MaxConnects]
  <2>1. connect.key \in 0..MaxConnects BY DEF TypeInv, HandlersOK, ConnectOK, ConnectRecords
  <2>2. rows' = rows \/ rows' = [rows EXCEPT ![connect.token.acc] = connect.key]
    BY DEF Restart
  <2> QED BY <2>1, <2>2 DEF TypeInv, OutsideOK
<1>5. late' \subseteq Accounts
  <2>1. Abandoned \subseteq Accounts BY Zenon DEF Abandoned
  <2>2. late' = late \cup Abandoned BY Zenon DEF Restart
  <2>3. late \subseteq Accounts BY DEF TypeInv, OutsideOK
  <2> QED BY <2>1, <2>2, <2>3
<1>6. commands' \in Seq(Disconnects \cup {"connect"}) /\ attempts' \in 0..MaxConnects
  <2>1. commands' = << >> /\ attempts' = attempts BY RestartFacts
  <2> QED BY <2>1, EmptySeq DEF TypeInv, OutsideOK
<1>7. OutsideOK' BY <1>3, <1>4, <1>5, <1>6 DEF OutsideOK
<1> QED BY <1>1, <1>2, <1>7 DEF TypeInv

LEMMA TypeInit == Init => TypeInv
<1> SUFFICES ASSUME Init PROVE TypeInv OBVIOUS
<1>1. HandlersOK BY IdleOK DEF Init, HandlersOK
<1>2. ScreenOK
  <2>1. ui = [user |-> None, peer |-> None, newId |-> None, form |-> "signin"]
        /\ stored = NoSession /\ auth = None
    BY DEF Init
  <2>2. ui \in UiRecords BY <2>1 DEF UiRecords, Forms
  <2>3. stored \in Sessions BY <2>1, Constants
  <2> QED BY <2>1, <2>2, <2>3 DEF ScreenOK
<1>3. OutsideOK BY DesktopAssumption DEF Init, OutsideOK
<1>4. HistoryOK BY DesktopAssumption DEF Init, HistoryOK
<1> QED BY <1>1, <1>2, <1>3, <1>4 DEF TypeInv

LEMMA TypeStays == TypeInv /\ Waiting /\ Queued /\ [Next]_vars => TypeInv'
<1> SUFFICES ASSUME TypeInv, Waiting, Queued, [Next]_vars PROVE TypeInv' OBVIOUS
<1>1. CASE UNCHANGED vars
  BY <1>1, HandlersStay, ScreenStays, OutsideStays, HistoryStays DEF vars, TypeInv
<1>2. ASSUME NEW d \in Disconnects, DisconnectStep(d) PROVE TypeInv'
  BY <1>2, BringDownType, DisconnectIncompleteType, LocalDownType, DeleteAnsweredType,
     DeleteTimesOutType DEF DisconnectStep
<1>3. ASSUME NEW m \in {"signin", "signup"}, switchMode(m) PROVE TypeInv'
  BY <1>3, ModeSwitches, FormChangedType
<1>4. switchMethod => TypeInv' BY MethodSwitches, FormChangedType
<1> QED BY <1>1, <1>2, <1>3, <1>4, ContinueType, handleAuthType, AuthAnsweredType,
           AuthRefusedType, TokenExpiresType, handleConnectType, RefreshAnsweredType,
           RefreshFailedType, PeerCreatedType, PeerRefusedType, PostLostType, BringUpType,
           ConnectSucceedsType, ConnectFailsType, RollbackAnsweredType, RollbackLostType,
           handleDisconnectType, LateDeleteType, SignOutType, RestartType DEF Next

-----------------------------------------------------------------------------
(* The queue of commands: handleConnect waits for the last one, each call  *)
(* of handleDisconnect for one of its own.                                 *)

WaitInv == Waiting /\ Queued

LEMMA NoConnectQueued ==
  ASSUME Waiting, connect.pc # "bringup" PROVE \A i \in 1..Len(commands) : commands[i] # "connect"
BY DEF Waiting

LEMMA WaitsOn ==
  ASSUME WaitInv, ui'.peer \in {ui.peer, None}, UNCHANGED <<connect, disc, commands, tunnel>>
  PROVE  WaitInv'
BY DEF WaitInv, Waiting, Queued

LEMMA ConnectMoves ==
  ASSUME WaitInv, connect.pc # "bringup", connect'.pc # "up",
         connect'.pc # "idle" => ui'.peer = None, UNCHANGED <<commands, disc, tunnel>>
  PROVE  WaitInv'
<1>1. Waiting' BY NoConnectQueued DEF WaitInv, Waiting
<1>2. Queued' BY DEF WaitInv, Queued
<1> QED BY <1>1, <1>2 DEF WaitInv

LEMMA DiscMoves ==
  ASSUME WaitInv, NEW d \in Disconnects, disc[d].pc # "teardown",
         \A e \in Disconnects \ {d} : disc'[e] = disc[e],
         ui'.peer = None, UNCHANGED <<connect, commands, tunnel>>
  PROVE  WaitInv'
<1>1. Waiting' BY DEF WaitInv, Waiting
<1>2. Queued' BY DEF WaitInv, Queued
<1> QED BY <1>1, <1>2 DEF WaitInv

LEMMA CommandQueued ==
  ASSUME TypeInv, WaitInv, PeerCreated PROVE WaitInv'
<1>1. /\ connect.pc = "posting" /\ connect'.pc = "bringup" /\ ui.peer = None
      /\ commands' = Append(commands, "connect")
      /\ UNCHANGED <<ui, disc, tunnel>>
  BY PeerCreatedFacts DEF PeerCreated, WaitInv, Waiting
<1> DEFINE n == Len(commands)
<1>2. /\ n \in Nat /\ Len(commands') = n + 1 /\ commands'[n + 1] = "connect"
      /\ \A i \in 1..n : commands'[i] = commands[i]
  BY <1>1, Queues DEF TypeInv
<1>3. \A i \in 1..n : commands[i] # "connect" BY <1>1, NoConnectQueued DEF WaitInv
<1> HIDE DEF n
<1>4. \A i \in 1..Len(commands') : i = n + 1 \/ i \in 1..n BY <1>2
<1>5. Waiting' BY <1>1, <1>2, <1>3, <1>4 DEF Waiting
<1>6. Queued'
  <2>1. ASSUME NEW i \in 1..Len(commands'), NEW d \in Disconnects, commands'[i] = d
        PROVE  disc'[d].pc = "teardown"
    BY <1>1, <1>2, <1>4, <2>1, DesktopAssumption DEF WaitInv, Queued, n
  <2>2. ASSUME NEW i \in 1..Len(commands'), NEW j \in 1..Len(commands'),
               commands'[i] = commands'[j]
        PROVE  i = j
    BY <1>2, <1>3, <1>4, <2>2 DEF WaitInv, Queued, n
  <2> QED BY <2>1, <2>2 DEF Queued
<1> QED BY <1>5, <1>6 DEF WaitInv

LEMMA DisconnectQueued ==
  ASSUME TypeInv, WaitInv, NEW d \in Disconnects, StartDisconnect(d, stored.access), connected,
         ui'.peer = ui.peer, UNCHANGED <<connect, attempts, tunnel>>
  PROVE  WaitInv'
<1>1. /\ connect.pc = "idle" /\ disc[d].pc = "idle" /\ disc'[d].pc = "teardown"
      /\ \A e \in Disconnects \ {d} : disc'[e] = disc[e]
      /\ commands' = Append(commands, d)
  BY StartFacts DEF WaitInv, Waiting, connected
<1> DEFINE n == Len(commands)
<1>2. /\ n \in Nat /\ Len(commands') = n + 1 /\ commands'[n + 1] = d
      /\ \A i \in 1..n : commands'[i] = commands[i]
  BY <1>1, Queues DEF TypeInv
<1>3. \A i \in 1..n : commands[i] # "connect" /\ commands[i] # d
  BY <1>1, NoConnectQueued DEF WaitInv, Queued
<1> HIDE DEF n
<1>4. \A i \in 1..Len(commands') : i = n + 1 \/ i \in 1..n BY <1>2
<1>5. Waiting' BY <1>1, <1>2, <1>3, <1>4, DesktopAssumption DEF Waiting
<1>6. Queued'
  <2>1. ASSUME NEW i \in 1..Len(commands'), NEW e \in Disconnects, commands'[i] = e
        PROVE  disc'[e].pc = "teardown"
    BY <1>1, <1>2, <1>4, <2>1 DEF WaitInv, Queued, n
  <2>2. ASSUME NEW i \in 1..Len(commands'), NEW j \in 1..Len(commands'),
               commands'[i] = commands'[j]
        PROVE  i = j
    BY <1>2, <1>3, <1>4, <2>2 DEF WaitInv, Queued, n
  <2> QED BY <2>1, <2>2 DEF Queued
<1> QED BY <1>5, <1>6 DEF WaitInv

LEMMA BringUpWaits == ASSUME TypeInv, WaitInv, BringUp PROVE WaitInv'
<1>1. PICK pc \in {"up", "failed"} : BringUpFacts(pc) BY BringUpIs
<1>2. connect.pc = "bringup" /\ commands' = << >>
  BY <1>1, BringUpWaited DEF BringUpFacts, WaitInv
<1>3. /\ connect'.pc = pc /\ connect'.key = connect.key
      /\ pc = "up" => tunnel' = connect.key
      /\ UNCHANGED <<ui, disc>>
  BY <1>1, <1>2, MovedOK DEF BringUpFacts, TypeInv, HandlersOK
<1>4. Len(commands') = 0 BY <1>2
<1>5. ui.peer = None BY <1>2 DEF WaitInv, Waiting
<1>6. Waiting' BY <1>2, <1>3, <1>4, <1>5 DEF Waiting
<1>7. Queued' BY <1>4 DEF Queued
<1> QED BY <1>6, <1>7 DEF WaitInv

LEMMA BringDownWaits ==
  ASSUME TypeInv, WaitInv, NEW d \in Disconnects, BringDown(d)
  PROVE  WaitInv' /\ disc[d].pc = "teardown" /\ connect.pc # "up"
<1>1. PICK pc \in {"down", "incomplete"} : BringDownFacts(d, pc) BY BringDownIs
<1>2. /\ commands # << >> /\ Head(commands) = d /\ commands' = Tail(commands)
      /\ UNCHANGED <<ui, connect, attempts>>
      /\ disc' = [disc EXCEPT ![d] = [disc[d] EXCEPT !.pc = pc]]
  BY <1>1 DEF BringDownFacts
<1> DEFINE n == Len(commands)
<1>3. /\ n \in Nat /\ n > 0 /\ commands[1] = d /\ Len(commands') = n - 1
      /\ \A i \in 1..Len(commands') : commands'[i] = commands[i + 1]
  BY <1>2, Queues DEF TypeInv
<1> HIDE DEF n
<1>4. \A i \in 1..Len(commands') : i + 1 \in 1..n /\ i + 1 # 1 BY <1>3
<1>5. 1 \in 1..n BY <1>3
<1>6. \A i \in 1..Len(commands') : commands[i + 1] # d
  BY <1>3, <1>4, <1>5 DEF WaitInv, Queued, n
<1>7. \A e \in Disconnects \ {d} : disc'[e] = disc[e] BY <1>2 DEF TypeInv, HandlersOK
<1>8. connect.pc # "up" BY <1>2 DEF WaitInv, Waiting
<1>9. Waiting'
  <2>1. ASSUME NEW i \in 1..Len(commands'), commands'[i] = "connect"
        PROVE  connect'.pc = "bringup" /\ i = Len(commands')
    <3>1. commands[i + 1] = "connect" /\ i + 1 \in 1..n BY <1>3, <1>4, <2>1
    <3>2. connect.pc = "bringup" /\ i + 1 = n BY <3>1 DEF WaitInv, Waiting, n
    <3> QED BY <1>2, <1>3, <3>2
  <2> QED BY <1>2, <1>8, <2>1 DEF WaitInv, Waiting
<1>10. Queued'
  <2>1. ASSUME NEW i \in 1..Len(commands'), NEW e \in Disconnects, commands'[i] = e
        PROVE  disc'[e].pc = "teardown"
    <3>1. commands[i + 1] = e /\ i + 1 \in 1..n /\ e # d BY <1>3, <1>4, <1>6, <2>1
    <3>2. disc[e].pc = "teardown" BY <3>1 DEF WaitInv, Queued, n
    <3> QED BY <1>7, <3>1, <3>2
  <2>2. ASSUME NEW i \in 1..Len(commands'), NEW j \in 1..Len(commands'),
               commands'[i] = commands'[j]
        PROVE  i = j
    <3>1. commands[i + 1] = commands[j + 1] BY <1>3, <2>2
    <3>2. i + 1 = j + 1 BY <1>4, <3>1 DEF WaitInv, Queued, n
    <3> QED BY <1>3, <3>2
  <2> QED BY <2>1, <2>2 DEF Queued
<1>11. disc[d].pc = "teardown" BY <1>3, <1>5 DEF WaitInv, Queued, n
<1> QED BY <1>8, <1>9, <1>10, <1>11 DEF WaitInv

LEMMA RestartWaits == ASSUME TypeInv, Restart PROVE WaitInv'
<1>1. connect' = IdleConnect /\ commands' = << >> BY RestartFacts
<1>2. Len(commands') = 0 /\ connect'.pc = "idle" BY <1>1, Constants
<1>3. Waiting' BY <1>2 DEF Waiting
<1>4. Queued' BY <1>2 DEF Queued
<1> QED BY <1>3, <1>4 DEF WaitInv

LEMMA DisconnectStepWaits ==
  ASSUME TypeInv, WaitInv, NEW d \in Disconnects, DisconnectStep(d) PROVE WaitInv'
<1>1. ASSUME disc[d].pc \in {"incomplete", "down", "deleting"}, clearUi,
             \A e \in Disconnects \ {d} : disc'[e] = disc[e],
             UNCHANGED <<connect, commands, tunnel>>
      PROVE  WaitInv'
  <2>1. ui'.peer = None BY <1>1, UiCleared DEF TypeInv
  <2> QED BY <1>1, <2>1, DiscMoves
<1>2. disc' = [disc EXCEPT ![d] = IdleDisc] =>
        \A e \in Disconnects \ {d} : disc'[e] = disc[e]
  BY DEF TypeInv, HandlersOK
<1>3. CASE BringDown(d) BY <1>3, BringDownWaits
<1>4. CASE LocalDown(d) BY <1>1, <1>4, LocalDownFacts DEF LocalDown
<1>5. CASE DisconnectIncomplete(d) BY <1>1, <1>2, <1>5 DEF DisconnectIncomplete
<1>6. CASE DeleteAnswered(d) BY <1>1, <1>2, <1>6 DEF DeleteAnswered
<1>7. CASE DeleteTimesOut(d) BY <1>1, <1>2, <1>7 DEF DeleteTimesOut
<1> QED BY <1>3, <1>4, <1>5, <1>6, <1>7 DEF DisconnectStep

(* The steps that start or end a connect, or let it go on.                 *)
LEMMA PostsMoves == ASSUME NEW token, Posts(token) PROVE connect'.pc \in {"idle", "posting"}
BY Constants DEF Posts

LEMMA handleConnectWaits == ASSUME TypeInv, WaitInv, handleConnect PROVE WaitInv'
<1>1. connect.pc = "idle" /\ ui.peer = None /\ UNCHANGED <<ui, commands, disc, tunnel>>
  BY DEF handleConnect, Connecting, connected
<1>2. connect'.pc # "up" BY handleConnectFacts, PostsMoves
<1> QED BY <1>1, <1>2, ConnectMoves

LEMMA RefreshWaits ==
  ASSUME TypeInv, WaitInv, RefreshAnswered \/ RefreshFailed PROVE WaitInv'
<1>1. connect.pc = "refreshing" /\ UNCHANGED <<ui, commands, disc, tunnel>>
  BY DEF RefreshAnswered, RefreshFailed
<1>2. connect'.pc # "up" BY RefreshAnsweredFacts, RefreshFailedFacts, PostsMoves
<1>3. ui.peer = None BY <1>1 DEF WaitInv, Waiting
<1> QED BY <1>1, <1>2, <1>3, ConnectMoves

LEMMA EndWaits ==
  ASSUME TypeInv, WaitInv,
         PeerRefused \/ PostLost \/ ConnectSucceeds \/ RollbackAnswered \/ RollbackLost
  PROVE  WaitInv'
<1>1. /\ connect' = IdleConnect /\ connect.pc # "bringup"
      /\ UNCHANGED <<commands, disc, tunnel>>
  BY DEF PeerRefused, PostLost, ConnectSucceeds, RollbackAnswered, RollbackLost, AfterSuccess
<1> QED BY <1>1, Constants, ConnectMoves

LEMMA ConnectFailsWaits == ASSUME TypeInv, WaitInv, ConnectFails PROVE WaitInv'
<1>1. /\ connect.pc = "failed" /\ UNCHANGED <<ui, commands, disc, tunnel>>
      /\ connect' = [connect EXCEPT !.pc = "rollback"] /\ connect \in ConnectRecords
  BY ConnectFailsFacts DEF ConnectFails, TypeInv, HandlersOK, ConnectOK
<1>2. connect'.pc = "rollback" BY <1>1, ConnectMoved
<1>3. ui.peer = None BY <1>1 DEF WaitInv, Waiting
<1> QED BY <1>1, <1>2, <1>3, ConnectMoves

(* Nothing but the screen and the session.                                 *)
ScreenStep ==
  \/ \E m \in {"signin", "signup"} : switchMode(m)
  \/ switchMethod \/ Continue
  \/ handleAuth \/ AuthAnswered \/ AuthRefused \/ TokenExpires

LEMMA ScreenSteps ==
  ASSUME TypeInv, ScreenStep
  PROVE  ui'.peer = ui.peer /\ UNCHANGED <<connect, disc, commands, tunnel, rows, late>>
<1>1. FormChanged => ui'.peer = ui.peer
                     /\ UNCHANGED <<connect, disc, commands, tunnel, rows, late>>
  BY DEF FormChanged
<1>2. Continue => ui'.peer = ui.peer /\ UNCHANGED <<connect, disc, commands, tunnel, rows, late>>
  BY DEF Continue, TypeInv, ScreenOK, UiRecords
<1>3. AuthAnswered => ui'.peer = ui.peer
                      /\ UNCHANGED <<connect, disc, commands, tunnel, rows, late>>
  BY AuthAnsweredFacts
<1>4. handleAuth \/ AuthRefused \/ TokenExpires
        => ui' = ui /\ UNCHANGED <<connect, disc, commands, tunnel, rows, late>>
  BY DEF handleAuth, AuthRefused, TokenExpires
<1> QED BY <1>1, <1>2, <1>3, <1>4, ModeSwitches, MethodSwitches DEF ScreenStep

LEMMA WaitInit == Init => WaitInv
<1> SUFFICES ASSUME Init PROVE WaitInv OBVIOUS
<1>1. Len(commands) = 0 /\ connect.pc = "idle" BY Constants DEF Init
<1> QED BY <1>1 DEF WaitInv, Waiting, Queued

LEMMA SignOutWaits == ASSUME TypeInv, WaitInv, handleSignOut PROVE WaitInv'
<1>1. ui'.peer = ui.peer /\ UNCHANGED <<connect, attempts, tunnel>> BY SignOutFacts
<1>2. CASE UNCHANGED <<disc, commands>> BY <1>1, <1>2, WaitsOn
<1>3. CASE \E d \in Disconnects : StartDisconnect(d, stored.access) /\ connected
  BY <1>1, <1>3, DisconnectQueued
<1> QED BY <1>2, <1>3, SignOutFacts

LEMMA WaitStays == TypeInv /\ WaitInv /\ [Next]_vars => WaitInv'
<1> SUFFICES ASSUME TypeInv, WaitInv, [Next]_vars PROVE WaitInv' OBVIOUS
<1>1. CASE UNCHANGED vars BY <1>1, WaitsOn DEF vars
<1>2. CASE ScreenStep BY <1>2, ScreenSteps, WaitsOn
<1>3. ASSUME NEW a \in Accounts, LateDelete(a) PROVE WaitInv'
  BY <1>3, WaitsOn DEF LateDelete
<1>4. ASSUME NEW d \in Disconnects, handleDisconnect(d) PROVE WaitInv'
  BY <1>4, DisconnectQueued DEF handleDisconnect
<1> QED BY <1>1, <1>2, <1>3, <1>4, DisconnectStepWaits, handleConnectWaits, RefreshWaits,
           CommandQueued, EndWaits, ConnectFailsWaits, BringUpWaits, SignOutWaits, RestartWaits
        DEF Next, ScreenStep

LEMMA AlwaysTypeInv == Spec => [](TypeInv /\ WaitInv)
<1>1. Init => TypeInv /\ WaitInv BY TypeInit, WaitInit
<1>2. TypeInv /\ WaitInv /\ [Next]_vars => (TypeInv /\ WaitInv)'
  BY TypeStays, WaitStays DEF WaitInv
<1> QED BY <1>1, <1>2, PTL DEF Spec

(* TypeCorrect: handlers, queue, tunnel and rows keep their types; a key   *)
(* is never made after MaxConnects attempts.                               *)
THEOREM TypeCorrect == Spec => []TypeOK
BY AlwaysTypeInv, TypeInvIsTypeOK, PTL

-----------------------------------------------------------------------------
(* What has happened stays on record.                                      *)

LEMMA MishapsGrow == [Next]_vars => mishaps \subseteq mishaps'
<1> SUFFICES ASSUME [Next]_vars PROVE mishaps \subseteq mishaps' OBVIOUS
<1>1. \A kind : Fault(kind) => mishaps \subseteq mishaps' BY DEF Fault
<1>2. ScreenStep => mishaps \subseteq mishaps'
  <2>1. \A m : switchMode(m) => mishaps \subseteq mishaps' BY DEF switchMode, NoteSwitchedForm
  <2>2. switchMethod => mishaps \subseteq mishaps' BY DEF switchMethod, NoteSwitchedForm
  <2>3. Continue \/ handleAuth \/ AuthRefused => mishaps \subseteq mishaps'
    BY DEF Continue, handleAuth, AuthRefused
  <2>4. AuthAnswered => mishaps \subseteq mishaps' BY DEF AuthAnswered, NoteSwitchedAccount
  <2>5. TokenExpires => mishaps \subseteq mishaps' BY <1>1, Zenon DEF TokenExpires
  <2> QED BY <2>1, <2>2, <2>3, <2>4, <2>5 DEF ScreenStep
<1>3. handleConnect => mishaps \subseteq mishaps' BY DEF handleConnect
<1>4. RefreshFailed \/ PostLost => mishaps \subseteq mishaps'
  BY <1>1, Zenon DEF RefreshFailed, PostLost
<1>5. RefreshAnswered \/ PeerCreated \/ PeerRefused \/ ConnectSucceeds \/ ConnectFails
        => mishaps \subseteq mishaps'
  BY DEF RefreshAnswered, PeerCreated, PeerRefused, ConnectSucceeds, ConnectFails
<1>6. RollbackAnswered \/ RollbackLost => mishaps \subseteq mishaps'
  BY DEF RollbackAnswered, RollbackLost
<1>7. BringUp => mishaps \subseteq mishaps'
  <2>1. BringUp => UNCHANGED mishaps \/ Fault("bringup") BY Zenon DEF BringUp
  <2> QED BY <1>1, <2>1
<1>8. ASSUME NEW d \in Disconnects, handleDisconnect(d) \/ DisconnectStep(d)
      PROVE  mishaps \subseteq mishaps'
  <2>1. BringDown(d) => UNCHANGED mishaps \/ Fault("teardown") BY Zenon DEF BringDown
  <2>2. DeleteTimesOut(d) => mishaps \subseteq mishaps' BY DEF DeleteTimesOut
  <2>3. handleDisconnect(d) \/ DisconnectIncomplete(d) \/ LocalDown(d) \/ DeleteAnswered(d)
          => UNCHANGED mishaps
    BY Zenon DEF handleDisconnect, DisconnectIncomplete, LocalDown, DeleteAnswered
  <2> QED BY <1>1, <1>8, <2>1, <2>2, <2>3 DEF DisconnectStep
<1>9. (\E a \in Accounts : LateDelete(a)) \/ handleSignOut => UNCHANGED mishaps
  BY Zenon DEF LateDelete, handleSignOut
<1>10. Restart => mishaps \subseteq mishaps' BY <1>1, Zenon DEF Restart
<1>11. UNCHANGED vars => UNCHANGED mishaps BY Zenon DEF vars
<1> QED BY <1>2, <1>3, <1>4, <1>5, <1>6, <1>7, <1>8, <1>9, <1>10, <1>11 DEF Next, ScreenStep

LEMMA SparedBefore ==
  ASSUME NEW causes, mishaps \subseteq mishaps', Spared(causes)' PROVE Spared(causes)
BY DEF Spared

-----------------------------------------------------------------------------
(* The session.  The token that is being refreshed is of the user that is  *)
(* signed in, if one still is.                                             *)

SessionInv ==
  Spared({"switched_account"}) =>
    /\ stored.access.acc = stored.user /\ stored.refresh = stored.user
    /\ connect.pc = "refreshing" => stored.user \in {None, connect.rt}

(* Steps that neither write the session nor start a refresh.               *)
LEMMA SessionKept ==
  ASSUME SessionInv, mishaps \subseteq mishaps', UNCHANGED stored,
         connect'.pc = "refreshing" => UNCHANGED connect
  PROVE  SessionInv'
BY SparedBefore DEF SessionInv

LEMMA SessionStays == TypeInv /\ WaitInv /\ SessionInv /\ [Next]_vars => SessionInv'
<1> SUFFICES ASSUME TypeInv, WaitInv, SessionInv, [Next]_vars PROVE SessionInv' OBVIOUS
<1>0. mishaps \subseteq mishaps' BY MishapsGrow
<1>1. CASE UNCHANGED vars BY <1>0, <1>1, SessionKept DEF vars
<1>2. CASE ScreenStep /\ UNCHANGED stored BY <1>0, <1>2, ScreenSteps, SessionKept
<1>3. CASE AuthAnswered
  <2>1. PICK a \in Accounts :
          /\ stored' = [user |-> a, access |-> [acc |-> a, fresh |-> TRUE], refresh |-> a]
          /\ NoteSwitchedAccount(a) /\ UNCHANGED connect
    BY <1>3, AuthAnsweredFacts
  <2>2. Spared({"switched_account"})' => connect.rt \in {a, None}
    BY <2>1 DEF NoteSwitchedAccount, Spared
  <2>3. connect.pc = "refreshing" => connect.rt # None
    BY DEF TypeInv, HandlersOK, ConnectOK
  <2> QED BY <2>1, <2>2, <2>3 DEF SessionInv
<1>4. CASE TokenExpires
  <2> DEFINE t == [stored.access EXCEPT !.fresh = FALSE]
  <2>1. stored' = [stored EXCEPT !.access = t] /\ UNCHANGED connect
        /\ stored \in Sessions /\ stored.access \in Token
    BY <1>4 DEF TokenExpires, TypeInv, ScreenOK, Sessions
  <2>3. t.acc = stored.access.acc BY <2>1 DEF Token
  <2> HIDE DEF t
  <2>4. stored'.user = stored.user /\ stored'.refresh = stored.refresh /\ stored'.access = t
    BY <2>1 DEF Sessions
  <2>2. stored'.user = stored.user /\ stored'.refresh = stored.refresh
        /\ stored'.access.acc = stored.access.acc
    BY <2>3, <2>4
  <2> QED BY <1>0, <2>1, <2>2, SparedBefore DEF SessionInv
<1>5. CASE handleConnect
  <2>1. UNCHANGED stored BY <1>5 DEF handleConnect
  <2>2. connect'.pc = "refreshing" => connect'.rt = stored.refresh
    BY <1>5, handleConnectFacts, PostsMoves
  <2> QED BY <1>0, <2>1, <2>2, SparedBefore DEF SessionInv
<1>6. CASE RefreshAnswered
  <2>1. /\ connect.pc = "refreshing" /\ connect'.pc # "refreshing"
        /\ stored'.user = stored.user /\ (stored.user = None => stored' = stored)
        /\ stored.user # None => /\ stored'.access.acc = connect.rt
                                /\ stored'.refresh = connect.rt
    <3>1. connect.pc = "refreshing" BY <1>6 DEF RefreshAnswered
    <3>2. connect'.pc # "refreshing" BY <1>6, RefreshAnsweredFacts, PostsMoves
    <3> QED BY <1>6, <3>1, <3>2, RefreshAnsweredFacts
  <2> QED BY <1>0, <2>1, SparedBefore DEF SessionInv
<1>7. CASE RefreshFailed \/ PeerRefused \/ PostLost \/ ConnectSucceeds \/ RollbackAnswered
           \/ RollbackLost
  <2>1. UNCHANGED stored /\ connect'.pc # "refreshing"
    BY <1>7, RefreshFailedFacts, PostsMoves, Constants
       DEF RefreshFailed, PeerRefused, PostLost, ConnectSucceeds, RollbackAnswered,
           RollbackLost, AfterSuccess
  <2> QED BY <1>0, <2>1, SessionKept
<1>8. CASE PeerCreated \/ ConnectFails
  <2>1. connect.pc \in {"posting", "failed"} /\ UNCHANGED stored
    BY <1>8 DEF PeerCreated, ConnectFails
  <2>2. connect'.pc # "refreshing"
    <3>1. CASE PeerCreated BY <3>1, PeerCreatedFacts
    <3>2. CASE ConnectFails
      <4>1. connect' = [connect EXCEPT !.pc = "rollback"] /\ connect \in ConnectRecords
        BY <3>2, ConnectFailsFacts DEF TypeInv, HandlersOK, ConnectOK
      <4> QED BY <4>1 DEF ConnectRecords
    <3> QED BY <1>8, <3>1, <3>2
  <2> QED BY <1>0, <2>1, <2>2, SessionKept
<1>9. CASE BringUp
  <2>1. PICK pc \in {"up", "failed"} : BringUpFacts(pc) BY <1>9, BringUpIs
  <2>2. connect'.pc = pc /\ UNCHANGED stored
    BY <2>1, ConnectMoved DEF BringUpFacts, TypeInv, HandlersOK, ConnectOK
  <2> QED BY <1>0, <2>2, SessionKept
<1>10. ASSUME NEW d \in Disconnects, handleDisconnect(d) \/ DisconnectStep(d)
       PROVE  SessionInv'
  <2>1. UNCHANGED <<stored, connect>>
    BY <1>10, Zenon DEF handleDisconnect, DisconnectStep, BringDown, DisconnectIncomplete,
       LocalDown, DeleteAnswered, DeleteTimesOut
  <2> QED BY <1>0, <2>1, SessionKept
<1>11. ASSUME NEW a \in Accounts, LateDelete(a) PROVE SessionInv'
  BY <1>0, <1>11, SessionKept DEF LateDelete
<1>12. CASE handleSignOut
  <2>1. stored' = NoSession BY <1>12, SignOutFacts
  <2> QED BY <2>1, Constants DEF SessionInv
<1>13. CASE Restart
  <2>1. UNCHANGED stored /\ connect'.pc = "idle" BY <1>13, RestartFacts, Constants
  <2> QED BY <1>0, <2>1, SessionKept
<1>14. ScreenStep => UNCHANGED stored \/ AuthAnswered \/ TokenExpires
  BY Zenon DEF ScreenStep, switchMode, switchMethod, Continue, handleAuth, AuthRefused
<1> QED BY <1>1, <1>2, <1>3, <1>4, <1>5, <1>6, <1>7, <1>8, <1>9, <1>10, <1>11, <1>12, <1>13,
           <1>14 DEF Next, ScreenStep

LEMMA SessionInit == Init => SessionInv
BY Constants DEF Init, SessionInv

(* StoredAlwaysOneAccount: the session in localStorage is of one account,  *)
(* whatever sign-outs and failures a refresh meets, unless another account *)
(* was signed in during a connect and its refresh: then the refresh's      *)
(* answer is stored beside the other account.                              *)
THEOREM StoredAlwaysOneAccount == Spec => []StoredSessionIsOneAccount
<1>1. SessionInv => StoredSessionIsOneAccount
  BY DEF SessionInv, StoredSessionIsOneAccount
<1>2. TypeInv /\ WaitInv /\ SessionInv /\ [Next]_vars => SessionInv' BY SessionStays
<1> QED BY <1>1, <1>2, SessionInit, AlwaysTypeInv, PTL DEF Spec

-----------------------------------------------------------------------------
(* The ID of a new account.                                                *)

IdInv ==
  /\ auth # None => ui.newId = None
  /\ Spared({"switched_form"}) =>
       /\ ui.newId # None => ui.user = None \/ ui.form = "anonymous"
       /\ auth = "anonymous" => ui.form = "anonymous"

SameForm == ui'.user = ui.user /\ ui'.newId = ui.newId /\ ui'.form = ui.form /\ UNCHANGED auth

LEMMA PeerOnly ==
  ASSUME TypeInv, NEW a \in Accounts \cup {None}, ui' = [ui EXCEPT !.peer = a], UNCHANGED auth
  PROVE  SameForm
BY PeerWritten DEF TypeInv, ScreenOK, SameForm

(* Connects, disconnects and requests leave the form alone.                *)
LEMMA FormKept ==
  ASSUME TypeInv, [Next]_vars PROVE SameForm \/ ScreenStep \/ handleSignOut \/ Restart
<1>1. CASE UNCHANGED <<ui, auth>> BY <1>1 DEF SameForm
<1>2. CASE ConnectSucceeds
  <2>1. connect.created \in Accounts \cup {None}
    BY DEF TypeInv, HandlersOK, ConnectOK, ConnectRecords
  <2> QED BY <1>2, <2>1, PeerOnly DEF ConnectSucceeds
<1>3. CASE clearUi /\ UNCHANGED auth BY <1>3, PeerOnly DEF clearUi
<1>4. handleConnect \/ RefreshAnswered \/ RefreshFailed \/ PeerCreated \/ PeerRefused
      \/ PostLost \/ BringUp \/ ConnectFails \/ RollbackAnswered \/ RollbackLost
        => UNCHANGED <<ui, auth>>
  BY Zenon DEF handleConnect, RefreshAnswered, RefreshFailed, PeerCreated, PeerRefused,
     PostLost, BringUp, ConnectFails, RollbackAnswered, RollbackLost
<1>5. ASSUME NEW d \in Disconnects, handleDisconnect(d) \/ DisconnectStep(d)
      PROVE  UNCHANGED <<ui, auth>> \/ (clearUi /\ UNCHANGED auth)
  BY <1>5, Zenon DEF handleDisconnect, DisconnectStep, BringDown, DisconnectIncomplete,
     LocalDown, DeleteAnswered, DeleteTimesOut
<1>6. (\E a \in Accounts : LateDelete(a)) => UNCHANGED <<ui, auth>> BY Zenon DEF LateDelete
<1>7. UNCHANGED vars => UNCHANGED <<ui, auth>> BY Zenon DEF vars
<1> QED BY <1>1, <1>2, <1>3, <1>4, <1>5, <1>6, <1>7 DEF Next, ScreenStep

LEMMA IdStays == TypeInv /\ IdInv /\ [Next]_vars => IdInv'
<1> SUFFICES ASSUME TypeInv, IdInv, [Next]_vars PROVE IdInv' OBVIOUS
<1>0. mishaps \subseteq mishaps' BY MishapsGrow
<1>1. CASE SameForm BY <1>0, <1>1, SparedBefore DEF SameForm, IdInv
<1>2. CASE FormChanged
  <2>1. ui'.newId = None /\ auth' = auth BY <1>2 DEF FormChanged
  <2>2. auth # None => ~Spared({"switched_form"})'
    BY <1>2 DEF FormChanged, NoteSwitchedForm, Spared
  <2> QED BY <2>1, <2>2, Constants DEF IdInv, Forms
<1>3. CASE Continue
  <2>1. ui' = [user |-> ui.user, peer |-> ui.peer, newId |-> None, form |-> ui.form]
    BY <1>3 DEF Continue, TypeInv, ScreenOK, UiRecords
  <2>2. UNCHANGED <<auth, mishaps>> BY <1>3 DEF Continue
  <2> QED BY <2>1, <2>2, <1>0, SparedBefore DEF IdInv
<1>4. CASE handleAuth
  <2>1. ui.newId = None /\ auth' = ui.form /\ UNCHANGED <<ui, mishaps>> BY <1>4 DEF handleAuth
  <2> QED BY <2>1 DEF IdInv
<1>5. CASE AuthAnswered
  <2>1. PICK a \in Accounts :
          /\ ui' = [user |-> a, peer |-> ui.peer,
                    newId |-> IF auth = "anonymous" THEN a ELSE ui.newId, form |-> ui.form]
          /\ auth # None /\ auth' = None
    BY <1>5, AuthAnsweredFacts
  <2>2. auth' # "anonymous" BY <2>1, Constants DEF Forms
  <2>3. ui'.newId # None => auth = "anonymous" BY <2>1 DEF IdInv
  <2> QED BY <2>1, <2>2, <2>3, <1>0, SparedBefore DEF IdInv
<1>6. CASE AuthRefused
  <2>1. auth' = None /\ auth' # "anonymous" /\ UNCHANGED <<ui, mishaps>>
    BY <1>6, Constants DEF AuthRefused, Forms
  <2> QED BY <2>1, <1>0, SparedBefore DEF IdInv
<1>7. CASE TokenExpires BY <1>1, <1>7 DEF TokenExpires, SameForm
<1>8. CASE handleSignOut
  <2>1. /\ ui' = [user |-> None, peer |-> ui.peer, newId |-> None, form |-> ui.form]
        /\ UNCHANGED <<auth, mishaps>>
    BY <1>8, SignOutFacts
  <2> QED BY <2>1, <1>0, SparedBefore DEF IdInv
<1>9. CASE Restart
  <2>1. ui'.newId = None /\ auth' = None /\ auth' # "anonymous"
    BY <1>9, Constants DEF Restart, Forms
  <2> QED BY <2>1 DEF IdInv
<1> QED BY <1>1, <1>2, <1>3, <1>4, <1>5, <1>6, <1>7, <1>8, <1>9, FormKept, ModeSwitches,
           MethodSwitches DEF ScreenStep

(* NewIdAlwaysShown: an ID that the app holds is on the screen, if the     *)
(* form was not switched during the request.                               *)
THEOREM NewIdAlwaysShown == Spec => []NewIdIsShown
<1>1. Init => IdInv BY Constants DEF Init, IdInv, Forms
<1>2. IdInv => NewIdIsShown BY DEF IdInv, NewIdIsShown, ShowsNewId, AuthView
<1> QED BY <1>1, <1>2, IdStays, AlwaysTypeInv, PTL DEF Spec

-----------------------------------------------------------------------------
(* The screen and the tunnel.                                              *)

(* A peer is shown while a tunnel is up, or a disconnect has just taken it *)
(* down and is about to clear the screen.                                  *)
ShownIsUp == ui.peer # None => tunnel # 0 \/ \E d \in Disconnects : disc[d].pc = "down"

(* A user who waits: no disconnect runs during a connect, and no tunnel is *)
(* up once a disconnect has taken it down.                                 *)
InTurn ==
  Spared({"hurried"}) =>
    /\ connect.pc # "idle" => \A d \in Disconnects : disc[d].pc = "idle"
    /\ \A d \in Disconnects : disc[d].pc \in {"down", "deleting"} => tunnel = 0

(* Only a failed teardown ends incomplete.                                 *)
Incomplete == \A d \in Disconnects : disc[d].pc = "incomplete" => "teardown" \in mishaps

(* A tunnel that is up is shown, or its connect is about to show it.       *)
UpIsShown ==
  Spared({"restart", "teardown", "hurried"}) =>
    (tunnel # 0 => ui.peer # None \/ connect.pc = "up")

TunnelInv == ShownIsUp /\ InTurn /\ Incomplete /\ UpIsShown

(* Steps of the screen, the session and the requests.                      *)
LEMMA TunnelKept ==
  ASSUME TunnelInv, mishaps \subseteq mishaps', ui'.peer = ui.peer, UNCHANGED <<disc, tunnel>>,
         connect.pc = "idle" => connect'.pc = "idle", connect.pc # "up"
  PROVE  TunnelInv'
BY SparedBefore DEF TunnelInv, ShownIsUp, InTurn, Incomplete, UpIsShown

(* A call of handleDisconnect ends, or sends its DELETE; it has cleared    *)
(* the screen.                                                             *)
Clears(d) ==
  /\ ui'.peer = None /\ UNCHANGED <<connect, commands, tunnel>>
  /\ disc[d].pc \in {"incomplete", "down", "deleting"}
  /\ disc'[d].pc \in {"idle", "deleting"}
  /\ disc'[d].pc = "deleting" => disc[d].pc = "down"
  /\ \A e \in Disconnects \ {d} : disc'[e] = disc[e]

LEMMA DisconnectSteps ==
  ASSUME TypeInv, NEW d \in Disconnects, DisconnectStep(d)
  PROVE  Clears(d) \/ \E pc \in {"down", "incomplete"} : BringDownFacts(d, pc)
<1>1. CASE BringDown(d) BY <1>1, BringDownIs
<1>2. CASE LocalDown(d)
  <2>1. ui'.peer = None /\ UNCHANGED <<connect, commands, tunnel>>
    BY <1>2, UiCleared DEF LocalDown, TypeInv
  <2> QED BY <1>2, <2>1, LocalDownFacts, Constants DEF Clears
<1>3. CASE clearUi /\ disc' = [disc EXCEPT ![d] = IdleDisc]
           /\ UNCHANGED <<connect, commands, tunnel>>
           /\ disc[d].pc \in {"incomplete", "down", "deleting"}
  <2>1. ui'.peer = None BY <1>3, UiCleared DEF TypeInv
  <2>2. disc'[d] = IdleDisc /\ \A e \in Disconnects \ {d} : disc'[e] = disc[e]
    BY <1>3 DEF TypeInv, HandlersOK
  <2> QED BY <1>3, <2>1, <2>2, Constants DEF Clears
<1>4. CASE DisconnectIncomplete(d) BY <1>3, <1>4 DEF DisconnectIncomplete
<1>5. CASE DeleteAnswered(d) BY <1>3, <1>5 DEF DeleteAnswered
<1>6. CASE DeleteTimesOut(d) BY <1>3, <1>6 DEF DeleteTimesOut
<1> QED BY <1>1, <1>2, <1>4, <1>5, <1>6 DEF DisconnectStep

LEMMA ClearsTunnel ==
  ASSUME TunnelInv, mishaps \subseteq mishaps', NEW d \in Disconnects, Clears(d)
  PROVE  TunnelInv'
<1>1. ShownIsUp' BY DEF Clears, ShownIsUp
<1>2. InTurn'
  <2> SUFFICES ASSUME Spared({"hurried"})'
               PROVE  /\ connect'.pc # "idle" => \A e \in Disconnects : disc'[e].pc = "idle"
                      /\ \A e \in Disconnects : disc'[e].pc \in {"down", "deleting"}
                                                  => tunnel' = 0
    BY DEF InTurn
  <2>1. Spared({"hurried"}) BY SparedBefore
  <2>2. connect.pc = "idle" BY <2>1 DEF TunnelInv, InTurn, Clears
  <2>3. ASSUME NEW e \in Disconnects, disc'[e].pc \in {"down", "deleting"} PROVE tunnel' = 0
    BY <2>1, <2>3 DEF TunnelInv, InTurn, Clears
  <2> QED BY <2>2, <2>3 DEF Clears
<1>3. Incomplete' BY DEF Clears, TunnelInv, Incomplete
<1>4. UpIsShown'
  <2> SUFFICES ASSUME Spared({"restart", "teardown", "hurried"})' PROVE tunnel' = 0
    BY DEF UpIsShown
  <2>1. Spared({"restart", "teardown", "hurried"}) BY SparedBefore
  <2>2. Spared({"hurried"}) /\ "teardown" \notin mishaps BY <2>1 DEF Spared
  <2> QED BY <2>2 DEF TunnelInv, Incomplete, InTurn, Clears
<1> QED BY <1>1, <1>2, <1>3, <1>4 DEF TunnelInv

LEMMA BringDownMoves ==
  ASSUME TypeInv, WaitInv, NEW d \in Disconnects, NEW pc \in {"down", "incomplete"},
         BringDownFacts(d, pc)
  PROVE  /\ disc[d].pc = "teardown" /\ disc'[d].pc = pc
         /\ \A e \in Disconnects \ {d} : disc'[e] = disc[e]
<1>1. commands # << >> /\ Head(commands) = d
      /\ disc' = [disc EXCEPT ![d] = [disc[d] EXCEPT !.pc = pc]]
  BY DEF BringDownFacts
<1>2. 1 \in 1..Len(commands) /\ commands[1] = d BY <1>1, Queues DEF TypeInv
<1>3. disc[d].pc = "teardown" BY <1>2 DEF WaitInv, Queued
<1>4. [disc[d] EXCEPT !.pc = pc].pc = pc BY <1>3, DiscMoved
<1>5. /\ disc'[d] = [disc[d] EXCEPT !.pc = pc]
      /\ \A e \in Disconnects \ {d} : disc'[e] = disc[e]
  BY <1>1 DEF TypeInv, HandlersOK
<1> QED BY <1>3, <1>4, <1>5

LEMMA BringDownTunnel ==
  ASSUME TypeInv, WaitInv, TunnelInv, mishaps \subseteq mishaps', NEW d \in Disconnects,
         NEW pc \in {"down", "incomplete"}, BringDownFacts(d, pc)
  PROVE  TunnelInv'
<1>2. disc[d].pc = "teardown" BY BringDownMoves
<1>3. disc'[d].pc = pc /\ \A e \in Disconnects \ {d} : disc'[e] = disc[e]
  BY BringDownMoves
<1>4. tunnel' \in {tunnel, 0} /\ UNCHANGED <<ui, connect>> /\ (pc = "down" => tunnel' = 0)
      /\ (pc = "incomplete" => tunnel' = tunnel /\ "teardown" \in mishaps')
  <2>1. Fault("teardown") => "teardown" \in mishaps' BY DEF Fault
  <2> QED BY <2>1 DEF BringDownFacts
<1>5. ShownIsUp'
  <2>1. CASE pc = "down" BY <2>1, <1>3 DEF ShownIsUp
  <2>2. CASE pc = "incomplete" BY <2>2, <1>2, <1>3, <1>4 DEF TunnelInv, ShownIsUp
  <2> QED BY <2>1, <2>2
<1>6. InTurn'
  <2> SUFFICES ASSUME Spared({"hurried"})'
               PROVE  /\ connect'.pc # "idle" => \A e \in Disconnects : disc'[e].pc = "idle"
                      /\ \A e \in Disconnects : disc'[e].pc \in {"down", "deleting"}
                                                  => tunnel' = 0
    BY DEF InTurn
  <2>1. Spared({"hurried"}) BY SparedBefore
  <2>2. connect.pc = "idle" BY <2>1, <1>2 DEF TunnelInv, InTurn
  <2>3. ASSUME NEW e \in Disconnects, disc'[e].pc \in {"down", "deleting"} PROVE tunnel' = 0
    BY <2>1, <2>3, <1>3, <1>4 DEF TunnelInv, InTurn
  <2> QED BY <2>2, <2>3, <1>4
<1>7. Incomplete' BY <1>3, <1>4 DEF TunnelInv, Incomplete
<1>8. UpIsShown' BY <1>4, SparedBefore DEF TunnelInv, UpIsShown
<1> QED BY <1>5, <1>6, <1>7, <1>8 DEF TunnelInv

(* A call starts while the app is connected, hence not connecting.         *)
LEMMA StartTunnel ==
  ASSUME TypeInv, WaitInv, TunnelInv, mishaps \subseteq mishaps', NEW d \in Disconnects,
         StartDisconnect(d, stored.access), connected, ui'.peer = ui.peer,
         UNCHANGED <<connect, attempts, tunnel>>
  PROVE  TunnelInv'
<1>1. disc[d].pc = "idle" /\ disc'[d].pc = "teardown"
      /\ \A e \in Disconnects \ {d} : disc'[e] = disc[e]
  BY StartFacts
<1>2. connect.pc = "idle" BY DEF WaitInv, Waiting, connected
<1>3. ShownIsUp' BY <1>1 DEF TunnelInv, ShownIsUp
<1>4. InTurn' BY <1>1, <1>2, SparedBefore DEF TunnelInv, InTurn
<1>5. Incomplete' BY <1>1 DEF TunnelInv, Incomplete
<1>6. UpIsShown' BY SparedBefore DEF TunnelInv, UpIsShown
<1> QED BY <1>3, <1>4, <1>5, <1>6 DEF TunnelInv

LEMMA BringUpTunnel ==
  ASSUME TypeInv, WaitInv, TunnelInv, mishaps \subseteq mishaps', BringUp PROVE TunnelInv'
<1>1. PICK pc \in {"up", "failed"} : BringUpFacts(pc) BY BringUpIs
<1>2. connect.pc = "bringup" /\ connect'.pc = pc
  BY <1>1, BringUpWaited, ConnectMoved DEF BringUpFacts, TypeInv, HandlersOK, ConnectOK, WaitInv
<1>3. ui.peer = None BY <1>2 DEF WaitInv, Waiting
<1>4. UNCHANGED <<ui, disc>> BY <1>1 DEF BringUpFacts
<1>5. ShownIsUp' /\ Incomplete' BY <1>3, <1>4 DEF TunnelInv, ShownIsUp, Incomplete
<1>6. InTurn' BY <1>2, <1>4, SparedBefore DEF TunnelInv, InTurn
<1>7. UpIsShown'
  <2>1. CASE pc = "up" BY <1>2, <2>1 DEF UpIsShown
  <2>2. CASE pc = "failed"
    <3>1. tunnel' \in {tunnel, 0} BY <1>1, <2>2 DEF BringUpFacts
    <3> QED BY <1>2, <1>3, <3>1, SparedBefore DEF TunnelInv, UpIsShown
  <2> QED BY <2>1, <2>2
<1> QED BY <1>5, <1>6, <1>7 DEF TunnelInv

LEMMA SucceedsTunnel ==
  ASSUME TypeInv, WaitInv, TunnelInv, mishaps \subseteq mishaps', ConnectSucceeds PROVE TunnelInv'
<1>1. /\ connect.pc = "up" /\ connect.created # None /\ connect.key # 0
      /\ connect.created \in Accounts \cup {None}
  BY DEF ConnectSucceeds, TypeInv, HandlersOK, ConnectOK, ConnectRecords
<1>2. ui'.peer = connect.created BY <1>1, PeerWritten DEF ConnectSucceeds, TypeInv, ScreenOK
<1>3. tunnel # 0 /\ connect'.pc = "idle" /\ UNCHANGED <<disc, tunnel>>
  BY <1>1, Constants DEF WaitInv, Waiting, ConnectSucceeds, AfterSuccess
<1>4. ShownIsUp' /\ Incomplete' BY <1>3 DEF TunnelInv, ShownIsUp, Incomplete
<1>5. InTurn' BY <1>3, SparedBefore DEF TunnelInv, InTurn
<1>6. UpIsShown' BY <1>1, <1>2 DEF UpIsShown
<1> QED BY <1>4, <1>5, <1>6 DEF TunnelInv

(* Connecting while a disconnect runs is what "hurried" records.           *)
LEMMA handleConnectTunnel ==
  ASSUME TypeInv, TunnelInv, mishaps \subseteq mishaps', handleConnect PROVE TunnelInv'
<1>1. /\ connect.pc = "idle" /\ UNCHANGED <<ui, disc, tunnel>>
      /\ mishaps' = IF \E d \in Disconnects : disc[d].pc # "idle"
                    THEN mishaps \cup {"hurried"} ELSE mishaps
  BY DEF handleConnect, Connecting
<1>2. Spared({"hurried"})' => \A d \in Disconnects : disc[d].pc = "idle" BY <1>1 DEF Spared
<1>3. ShownIsUp' /\ Incomplete' BY <1>1 DEF TunnelInv, ShownIsUp, Incomplete
<1>4. InTurn' BY <1>1, <1>2, SparedBefore DEF TunnelInv, InTurn
<1>5. UpIsShown' BY <1>1, SparedBefore DEF TunnelInv, UpIsShown
<1> QED BY <1>3, <1>4, <1>5 DEF TunnelInv

LEMMA TunnelStays == TypeInv /\ WaitInv /\ TunnelInv /\ [Next]_vars => TunnelInv'
<1> SUFFICES ASSUME TypeInv, WaitInv, TunnelInv, [Next]_vars PROVE TunnelInv' OBVIOUS
<1>0. mishaps \subseteq mishaps' BY MishapsGrow
<1>1. CASE UNCHANGED vars
  BY <1>1 DEF vars, TunnelInv, ShownIsUp, InTurn, Incomplete, UpIsShown, Spared
<1>2. CASE ui'.peer = ui.peer /\ UNCHANGED <<connect, disc, tunnel>>
  BY <1>0, <1>2, SparedBefore DEF TunnelInv, ShownIsUp, InTurn, Incomplete, UpIsShown
<1>3. ASSUME NEW a \in Accounts, LateDelete(a) PROVE TunnelInv'
  BY <1>2, <1>3 DEF LateDelete
<1>4. CASE RefreshAnswered \/ RefreshFailed \/ PeerCreated \/ PeerRefused \/ PostLost
           \/ ConnectFails \/ RollbackAnswered \/ RollbackLost
  BY <1>0, <1>4, TunnelKept, Zenon
     DEF RefreshAnswered, RefreshFailed, PeerCreated, PeerRefused, PostLost, ConnectFails,
         RollbackAnswered, RollbackLost
<1>5. ASSUME NEW d \in Disconnects, handleDisconnect(d) PROVE TunnelInv'
  BY <1>0, <1>5, StartTunnel DEF handleDisconnect
<1>6. ASSUME NEW d \in Disconnects, DisconnectStep(d) PROVE TunnelInv'
  BY <1>0, <1>6, DisconnectSteps, ClearsTunnel, BringDownTunnel
<1>7. CASE handleSignOut
  <2>1. ui'.peer = ui.peer /\ UNCHANGED <<connect, attempts, tunnel>> BY <1>7, SignOutFacts
  <2> QED BY <1>0, <1>2, <1>7, <2>1, SignOutFacts, StartTunnel
<1>8. CASE Restart
  <2>1. connect' = IdleConnect /\ ui'.peer = None /\ disc' = [d \in Disconnects |-> IdleDisc]
        /\ "restart" \in mishaps'
    BY <1>8 DEF Restart, Fault
  <2>2. \A d \in Disconnects : disc'[d].pc = "idle" BY <2>1, Constants
  <2>3. connect'.pc = "idle" /\ ~Spared({"restart", "teardown", "hurried"})'
    BY <2>1, Constants DEF Spared
  <2> QED BY <2>1, <2>2, <2>3 DEF TunnelInv, ShownIsUp, InTurn, Incomplete, UpIsShown
<1> QED BY <1>0, <1>1, <1>2, <1>3, <1>4, <1>5, <1>6, <1>7, <1>8, ScreenSteps, BringUpTunnel,
           SucceedsTunnel, handleConnectTunnel
        DEF Next, ScreenStep

LEMMA AlwaysTunnelInv == Spec => [](TypeInv /\ WaitInv /\ TunnelInv)
<1>1. Init => TunnelInv
  <2> SUFFICES ASSUME Init PROVE TunnelInv OBVIOUS
  <2>1. ui.peer = None /\ tunnel = 0 /\ connect.pc = "idle" BY Constants DEF Init
  <2>2. \A d \in Disconnects : disc[d].pc = "idle" BY Constants DEF Init
  <2> QED BY <2>1, <2>2 DEF TunnelInv, ShownIsUp, InTurn, Incomplete, UpIsShown
<1> QED BY <1>1, TunnelStays, AlwaysTypeInv, PTL DEF Spec

(* ConnectedAlwaysTunnel: at rest the app says connected exactly while a   *)
(* tunnel is up, with the exceptions ConnectedMeansTunnel names.           *)
THEOREM ConnectedAlwaysTunnel == Spec => []ConnectedMeansTunnel
<1>1. TunnelInv => ConnectedMeansTunnel
  BY DEF TunnelInv, ShownIsUp, UpIsShown, ConnectedMeansTunnel, Quiet, connected
<1> QED BY <1>1, AlwaysTunnelInv, PTL

(* NeverThroughTunnel: a DELETE is sent only after the tunnel was taken    *)
(* down, and no tunnel is up by then.                                      *)
THEOREM NeverThroughTunnel == Spec => NoRequestThroughTunnel
<1>1. ASSUME TypeInv, WaitInv, TunnelInv, [Next]_vars, NEW d \in Disconnects,
             disc[d].pc # "deleting", disc'[d].pc = "deleting", Spared({"hurried"})
      PROVE  tunnel = 0
  <2>1. disc[d].pc = "down" => tunnel = 0 BY <1>1 DEF TunnelInv, InTurn
  <2>2. CASE UNCHANGED disc BY <1>1, <2>2
  <2>3. CASE \E e \in Disconnects : StartDisconnect(e, stored.access) /\ connected
                                    /\ UNCHANGED <<connect, attempts>>
    <3>1. disc'[d].pc \in {"teardown", disc[d].pc} BY <1>1, <2>3, StartFacts
    <3> QED BY <1>1, <3>1
  <2>4. ASSUME NEW e \in Disconnects, DisconnectStep(e) PROVE tunnel = 0
    <3>1. CASE Clears(e) BY <1>1, <2>1, <3>1 DEF Clears
    <3>2. ASSUME NEW pc \in {"down", "incomplete"}, BringDownFacts(e, pc) PROVE FALSE
      BY <1>1, <3>2, BringDownMoves
    <3> QED BY <1>1, <2>4, <3>1, <3>2, DisconnectSteps
  <2>5. CASE Restart
    <3>1. disc'[d].pc = "idle" BY <2>5, Constants DEF Restart
    <3> QED BY <1>1, <3>1
  <2>6. CASE handleSignOut BY <1>1, <2>2, <2>3, <2>6, SignOutFacts
  <2>7. ASSUME NEW e \in Disconnects, handleDisconnect(e) PROVE tunnel = 0
    BY <2>3, <2>7 DEF handleDisconnect
  <2>8. ScreenStep \/ UNCHANGED vars => UNCHANGED disc BY <1>1, ScreenSteps DEF vars
  <2>9. handleConnect \/ RefreshAnswered \/ RefreshFailed \/ PeerCreated \/ PeerRefused
        \/ PostLost \/ BringUp \/ ConnectSucceeds \/ ConnectFails \/ RollbackAnswered
        \/ RollbackLost \/ (\E a \in Accounts : LateDelete(a)) => UNCHANGED disc
    BY Zenon DEF handleConnect, RefreshAnswered, RefreshFailed, PeerCreated, PeerRefused,
       PostLost, BringUp, ConnectSucceeds, ConnectFails, RollbackAnswered, RollbackLost,
       LateDelete
  <2> QED BY <1>1, <2>2, <2>4, <2>5, <2>6, <2>7, <2>8, <2>9 DEF Next, ScreenStep
<1>2. TypeInv /\ WaitInv /\ TunnelInv /\ [Next]_vars =>
        [\A d \in Disconnects :
           /\ disc[d].pc # "deleting" /\ disc'[d].pc = "deleting"
           /\ Spared({"hurried"})
           => tunnel = 0]_vars
  BY <1>1
<1> QED BY <1>2, AlwaysTunnelInv, PTL DEF Spec, NoRequestThroughTunnel

-----------------------------------------------------------------------------
(* The tunnel and wg-manager's row.  Nothing deletes a row but a handler,  *)
(* and no two handlers run at once.                                        *)

ServedInv ==
  Spared({"network", "hurried", "restart"}) =>
    /\ late = {}
    /\ connect.pc \in {"bringup", "up"} => rows[connect.created] = connect.key
    /\ ui.peer # None => rows[ui.peer] = tunnel \/ \E d \in Disconnects : disc[d].pc # "idle"

LEMMA ServedKept ==
  ASSUME ServedInv, mishaps \subseteq mishaps', ui'.peer = ui.peer,
         UNCHANGED <<disc, tunnel, rows, late>>,
         \/ UNCHANGED connect
         \/ connect'.pc \notin {"bringup", "up"}
  PROVE  ServedInv'
BY SparedBefore DEF ServedInv

LEMMA LostServed ==
  ASSUME "network" \in mishaps' \/ "restart" \in mishaps' PROVE ServedInv'
BY DEF ServedInv, Spared

LEMMA StartServed ==
  ASSUME TypeInv, ServedInv, mishaps \subseteq mishaps', NEW d \in Disconnects,
         StartDisconnect(d, stored.access), connected, ui'.peer = ui.peer,
         UNCHANGED <<connect, attempts, tunnel, rows, late>>
  PROVE  ServedInv'
<1>1. disc'[d].pc # "idle" BY StartFacts
<1> QED BY <1>1, SparedBefore DEF ServedInv

LEMMA PeerCreatedServed ==
  ASSUME TypeInv, WaitInv, ServedInv, mishaps \subseteq mishaps', PeerCreated PROVE ServedInv'
<1>1. /\ connect.pc = "posting" /\ rows' = [rows EXCEPT ![connect.token.acc] = connect.key]
      /\ UNCHANGED <<ui, disc, tunnel, late>>
  BY DEF PeerCreated
<1>2. ui.peer = None BY <1>1 DEF WaitInv, Waiting
<1>3. connect'.created = connect.token.acc /\ connect'.key = connect.key
      /\ connect.token.acc \in Accounts
  BY PeerCreatedFacts
<1>4. rows'[connect'.created] = connect'.key BY <1>1, <1>3 DEF TypeInv, OutsideOK
<1> QED BY <1>1, <1>2, <1>4, SparedBefore DEF ServedInv

LEMMA BringUpServed ==
  ASSUME TypeInv, WaitInv, ServedInv, mishaps \subseteq mishaps', BringUp PROVE ServedInv'
<1>1. PICK pc \in {"up", "failed"} : BringUpFacts(pc) BY BringUpIs
<1>2. connect.pc = "bringup" BY <1>1, BringUpWaited DEF BringUpFacts, WaitInv
<1>3. connect'.created = connect.created /\ connect'.key = connect.key
  BY <1>1, ConnectMoved DEF BringUpFacts, TypeInv, HandlersOK, ConnectOK
<1>4. ui.peer = None /\ UNCHANGED <<ui, rows, late>>
  BY <1>1, <1>2 DEF WaitInv, Waiting, BringUpFacts
<1> QED BY <1>2, <1>3, <1>4, SparedBefore DEF ServedInv

LEMMA SucceedsServed ==
  ASSUME TypeInv, WaitInv, ServedInv, mishaps \subseteq mishaps', ConnectSucceeds
  PROVE  ServedInv'
<1>1. connect.pc = "up" /\ connect.created \in Accounts \cup {None}
  BY DEF ConnectSucceeds, TypeInv, HandlersOK, ConnectOK, ConnectRecords
<1>2. ui'.peer = connect.created BY <1>1, PeerWritten DEF ConnectSucceeds, TypeInv, ScreenOK
<1>3. tunnel = connect.key /\ connect'.pc = "idle" /\ UNCHANGED <<disc, tunnel, rows, late>>
  BY <1>1, Constants DEF WaitInv, Waiting, ConnectSucceeds, AfterSuccess
<1> QED BY <1>1, <1>2, <1>3, SparedBefore DEF ServedInv

LEMMA DisconnectServed ==
  ASSUME TypeInv, WaitInv, TunnelInv, ServedInv, mishaps \subseteq mishaps',
         NEW d \in Disconnects, DisconnectStep(d)
  PROVE  ServedInv'
<1>1. CASE DeleteTimesOut(d) BY <1>1, LostServed DEF DeleteTimesOut
<1>2. CASE Clears(d) /\ ~DeleteTimesOut(d)
  <2>1. UNCHANGED late /\ (UNCHANGED rows \/ disc[d].pc = "deleting")
    <3>1. DisconnectIncomplete(d) \/ LocalDown(d) => UNCHANGED <<rows, late>>
      BY Zenon DEF DisconnectIncomplete, LocalDown
    <3>2. DeleteAnswered(d) => UNCHANGED late /\ disc[d].pc = "deleting"
      BY Zenon DEF DeleteAnswered
    <3>3. BringDown(d) => UNCHANGED <<rows, late>> BY Zenon DEF BringDown
    <3> QED BY <1>2, <3>1, <3>2, <3>3 DEF DisconnectStep
  <2>2. Spared({"network", "hurried", "restart"})' =>
          connect.pc = "idle" /\ UNCHANGED connect
    <3>1. Spared({"network", "hurried", "restart"})' => Spared({"hurried"})
      BY DEF Spared
    <3> QED BY <1>2, <3>1 DEF TunnelInv, InTurn, Clears
  <2>3. ui'.peer = None BY <1>2 DEF Clears
  <2> QED BY <2>1, <2>2, <2>3, SparedBefore DEF ServedInv
<1>3. ASSUME NEW pc \in {"down", "incomplete"}, BringDownFacts(d, pc) PROVE ServedInv'
  <2>1. disc'[d].pc # "idle" BY <1>3, BringDownMoves
  <2>2. UNCHANGED <<ui, connect, rows, late>> BY <1>3 DEF BringDownFacts
  <2> QED BY <2>1, <2>2, SparedBefore DEF ServedInv
<1> QED BY <1>1, <1>2, <1>3, DisconnectSteps

LEMMA ServedStays == TypeInv /\ WaitInv /\ TunnelInv /\ ServedInv /\ [Next]_vars => ServedInv'
<1> SUFFICES ASSUME TypeInv, WaitInv, TunnelInv, ServedInv, [Next]_vars PROVE ServedInv'
  OBVIOUS
<1>0. mishaps \subseteq mishaps' BY MishapsGrow
<1>1. CASE UNCHANGED vars BY <1>0, <1>1, ServedKept DEF vars
<1>2. CASE ScreenStep BY <1>0, <1>2, ScreenSteps, ServedKept
<1>3. CASE handleConnect \/ RefreshAnswered \/ PeerRefused \/ ConnectFails
  <2>1. UNCHANGED <<ui, disc, tunnel, rows, late>>
    BY <1>3, Zenon DEF handleConnect, RefreshAnswered, PeerRefused, ConnectFails
  <2>2. connect'.pc \notin {"bringup", "up"}
    <3>1. CASE handleConnect BY <3>1, handleConnectFacts, PostsMoves
    <3>2. CASE RefreshAnswered BY <3>2, RefreshAnsweredFacts, PostsMoves
    <3>3. CASE PeerRefused BY <3>3, Constants DEF PeerRefused
    <3>4. CASE ConnectFails
      <4>1. connect' = [connect EXCEPT !.pc = "rollback"] /\ connect \in ConnectRecords
        BY <3>4, ConnectFailsFacts DEF TypeInv, HandlersOK, ConnectOK
      <4> QED BY <4>1, ConnectMoved
    <3> QED BY <1>3, <3>1, <3>2, <3>3, <3>4
  <2> QED BY <1>0, <2>1, <2>2, ServedKept
<1>4. CASE RefreshFailed \/ PostLost \/ RollbackLost \/ Restart
  <2>1. \A kind : Fault(kind) => kind \in mishaps' BY DEF Fault
  <2>2. "network" \in mishaps' \/ "restart" \in mishaps'
    BY <1>4, <2>1, Zenon DEF RefreshFailed, PostLost, RollbackLost, Restart
  <2> QED BY <2>2, LostServed
<1>5. CASE RollbackAnswered
  <2>1. connect.pc = "rollback" /\ connect'.pc = "idle" /\ UNCHANGED <<ui, late>>
    BY <1>5, Constants DEF RollbackAnswered
  <2>2. ui.peer = None BY <2>1 DEF WaitInv, Waiting
  <2> QED BY <1>0, <2>1, <2>2, SparedBefore DEF ServedInv
<1>6. ASSUME NEW d \in Disconnects, handleDisconnect(d) PROVE ServedInv'
  BY <1>0, <1>6, StartServed DEF handleDisconnect
<1>7. CASE handleSignOut
  <2>1. ui'.peer = ui.peer /\ UNCHANGED <<connect, attempts, tunnel, rows, late>>
    BY <1>7, SignOutFacts
  <2> QED BY <1>0, <1>7, <2>1, SignOutFacts, StartServed, ServedKept
<1>8. ASSUME NEW a \in Accounts, LateDelete(a) PROVE ServedInv'
  <2>1. a \in late /\ UNCHANGED mishaps BY <1>8 DEF LateDelete
  <2> QED BY <2>1 DEF ServedInv, Spared
<1> QED BY <1>0, <1>1, <1>2, <1>3, <1>4, <1>5, <1>6, <1>7, <1>8, PeerCreatedServed,
           BringUpServed, SucceedsServed, DisconnectServed
        DEF Next, ScreenStep

(* ConnectedAlwaysServed: while the app says connected and nothing runs,   *)
(* wg-manager's row has the tunnel's key.                                  *)
THEOREM ConnectedAlwaysServed == Spec => []ConnectedMeansServed
<1>1. Init => ServedInv BY Constants DEF Init, ServedInv
<1>2. ServedInv => ConnectedMeansServed
  BY DEF ServedInv, ConnectedMeansServed, Quiet, connected
<1> QED BY <1>1, <1>2, ServedStays, AlwaysTunnelInv, PTL DEF Spec

-----------------------------------------------------------------------------
(* Every row has somebody who uses it or takes it away.                    *)

Disturbances == {"network", "expiry", "teardown", "restart", "hurried", "switched_account"}
Undisturbed == Spared(Disturbances)

Fresh(a) == [acc |-> a, fresh |-> TRUE]
Holding == {"bringup", "up", "failed", "rollback"}

(* The account of the session is that of the connect and of the peer on    *)
(* the screen; every call has a token that may delete its row.             *)
TokensAgree ==
  /\ stored.user # None =>
       /\ stored.access = Fresh(stored.user)
       /\ connect.rt \in {stored.user, None}
       /\ connect.token.acc \in {stored.user, None}
       /\ ui.peer \in {stored.user, None}
  /\ connect.token.acc # None => connect.token = Fresh(connect.token.acc)
  /\ connect.pc \in Holding => connect.created = connect.token.acc
  /\ \A d \in Disconnects : disc[d].pc # "idle" =>
       disc[d].token = Fresh(disc[d].peer) /\ ui.peer \in {disc[d].peer, None}

Leaving(a, d) == disc[d].peer = a /\ disc[d].pc \in {"teardown", "down", "deleting"}

Used(a) ==
  \/ ui.peer = a /\ rows[a] = tunnel
  \/ connect.pc \in Holding /\ connect.created = a /\ rows[a] = connect.key
  \/ \E d \in Disconnects : Leaving(a, d)

RowsUsed == \A a \in Accounts : rows[a] # 0 => Used(a)

RowInv ==
  /\ ui.user = stored.user
  /\ Undisturbed => TokensAgree /\ RowsUsed

(* What all invariants together say of an undisturbed state.               *)
Calm ==
  /\ TypeInv /\ WaitInv
  /\ TokensAgree /\ RowsUsed
  /\ connect.pc # "idle" => ui.peer = None /\ \A d \in Disconnects : disc[d].pc = "idle"
  /\ \A d \in Disconnects : disc[d].pc # "incomplete"
                            /\ (disc[d].pc \in {"down", "deleting"} => tunnel = 0)
  /\ stored.access.acc = stored.user /\ stored.refresh = stored.user
  /\ connect.pc = "refreshing" => stored.user \in {None, connect.rt}

LEMMA FreshIs == ASSUME NEW a PROVE Fresh(a).acc = a /\ Hits(a, Fresh(a))
<1>1. Fresh(a).acc = a BY DEF Fresh
<1>2. Fresh(a).fresh BY DEF Fresh
<1> QED BY <1>1, <1>2 DEF Hits

LEMMA CalmBefore ==
  ASSUME TypeInv, WaitInv, SessionInv, TunnelInv, RowInv, mishaps \subseteq mishaps',
         Undisturbed'
  PROVE  Calm /\ Undisturbed
<1>1. Undisturbed BY SparedBefore DEF Undisturbed, Disturbances, Spared
<1>2. Spared({"hurried"}) /\ Spared({"switched_account"}) /\ "teardown" \notin mishaps
  BY <1>1 DEF Undisturbed, Disturbances, Spared
<1>3. TokensAgree /\ RowsUsed BY <1>1 DEF RowInv
<1>4. connect.pc # "idle" => ui.peer = None /\ \A d \in Disconnects : disc[d].pc = "idle"
  BY <1>2 DEF TunnelInv, InTurn, WaitInv, Waiting
<1>5. \A d \in Disconnects : disc[d].pc # "incomplete"
                             /\ (disc[d].pc \in {"down", "deleting"} => tunnel = 0)
  BY <1>2 DEF TunnelInv, InTurn, Incomplete
<1>6. /\ stored.access.acc = stored.user /\ stored.refresh = stored.user
      /\ connect.pc = "refreshing" => stored.user \in {None, connect.rt}
  BY <1>2 DEF SessionInv
<1> QED BY <1>1, <1>3, <1>4, <1>5, <1>6 DEF Calm

(* While a connect runs there is no row but its own.                       *)
LEMMA OnlyItsRow ==
  ASSUME Calm, connect.pc # "idle", NEW a \in Accounts, rows[a] # 0
  PROVE  connect.pc \in Holding /\ connect.created = a /\ rows[a] = connect.key
<1>1. ui.peer # a BY Constants DEF Calm
<1>2. \A d \in Disconnects : ~Leaving(a, d) BY DEF Calm, Leaving
<1> QED BY <1>1, <1>2 DEF Calm, RowsUsed, Used

(* Steps that leave rows, tunnel and handlers alone.                       *)
LEMMA RowsUsedKept ==
  ASSUME RowsUsed, ui'.peer = ui.peer, UNCHANGED <<connect, disc, tunnel, rows>>
  PROVE  RowsUsed'
BY DEF RowsUsed, Used, Leaving

LEMMA ScreenRow ==
  ASSUME Calm, ScreenStep, Undisturbed' PROVE TokensAgree' /\ RowsUsed'
<1>0. ui'.peer = ui.peer /\ UNCHANGED <<connect, disc, tunnel, rows>> BY ScreenSteps DEF Calm
<1>1. RowsUsed' BY <1>0, RowsUsedKept DEF Calm
<1>2. CASE UNCHANGED stored BY <1>0, <1>1, <1>2 DEF Calm, TokensAgree
<1>3. CASE AuthAnswered
  <2>1. PICK a \in Accounts :
          /\ stored' = [user |-> a, access |-> [acc |-> a, fresh |-> TRUE], refresh |-> a]
          /\ NoteSwitchedAccount(a)
    BY <1>3, AuthAnsweredFacts DEF Calm
  <2>2. stored'.user = a /\ stored'.access = Fresh(a) BY <2>1 DEF Fresh
  <2>3. {connect.rt, connect.token.acc, ui.peer} \subseteq {a, None}
    BY <2>1 DEF Undisturbed, Disturbances, Spared, NoteSwitchedAccount
  <2> QED BY <1>0, <1>1, <2>2, <2>3 DEF Calm, TokensAgree
<1>4. CASE TokenExpires
  <2>1. "expiry" \in mishaps' BY <1>4 DEF TokenExpires, Fault
  <2> QED BY <2>1 DEF Undisturbed, Disturbances, Spared
<1>5. ScreenStep => UNCHANGED stored \/ AuthAnswered \/ TokenExpires
  BY Zenon DEF ScreenStep, switchMode, switchMethod, Continue, handleAuth, AuthRefused
<1> QED BY <1>2, <1>3, <1>4, <1>5

(* The screen and localStorage name the same user.                         *)
LEMMA UserStays ==
  ASSUME TypeInv, ui.user = stored.user, [Next]_vars PROVE ui'.user = stored'.user
<1>1. CASE FormChanged BY <1>1 DEF FormChanged
<1>2. CASE AuthAnswered BY <1>2, AuthAnsweredFacts
<1>3. CASE TokenExpires
  <2> DEFINE t == [stored.access EXCEPT !.fresh = FALSE]
  <2>1. stored' = [stored EXCEPT !.access = t] /\ stored \in Sessions /\ UNCHANGED ui
    BY <1>3 DEF TokenExpires, TypeInv, ScreenOK
  <2> HIDE DEF t
  <2> QED BY <2>1 DEF Sessions
<1>4. CASE Continue BY <1>4 DEF Continue, TypeInv, ScreenOK, UiRecords
<1>5. CASE handleAuth \/ AuthRefused BY <1>5 DEF handleAuth, AuthRefused
<1>6. CASE handleSignOut BY <1>6, SignOutFacts, Constants
<1>7. CASE Restart BY <1>7 DEF Restart
<1>8. CASE SameForm /\ UNCHANGED stored BY <1>8 DEF SameForm
<1>9. CASE RefreshAnswered BY <1>9, RefreshAnsweredFacts
<1>10. CASE UNCHANGED vars BY <1>10 DEF vars
<1>11. handleConnect \/ RefreshFailed \/ PeerCreated \/ PeerRefused \/ PostLost \/ BringUp
       \/ ConnectSucceeds \/ ConnectFails \/ RollbackAnswered \/ RollbackLost
       \/ (\E a \in Accounts : LateDelete(a)) => UNCHANGED stored
  BY Zenon DEF handleConnect, RefreshFailed, PeerCreated, PeerRefused, PostLost, BringUp,
     ConnectSucceeds, ConnectFails, RollbackAnswered, RollbackLost, LateDelete
<1>12. ASSUME NEW d \in Disconnects, handleDisconnect(d) \/ DisconnectStep(d)
       PROVE  UNCHANGED stored
  BY <1>12, Zenon DEF handleDisconnect, DisconnectStep, BringDown, DisconnectIncomplete,
     LocalDown, DeleteAnswered, DeleteTimesOut
<1> QED BY <1>1, <1>2, <1>3, <1>4, <1>5, <1>6, <1>7, <1>8, <1>9, <1>10, <1>11, <1>12, FormKept,
           ModeSwitches, MethodSwitches DEF Next, ScreenStep

(* handleConnect, step by step.                                            *)
LEMMA NotHolding ==
  ASSUME Calm, connect.pc \notin Holding, UNCHANGED <<ui, disc, tunnel, rows>>
  PROVE  RowsUsed'
<1> SUFFICES ASSUME NEW a \in Accounts, rows[a] # 0 PROVE Used(a)' BY DEF RowsUsed
<1>1. Used(a) BY DEF Calm, RowsUsed
<1> QED BY <1>1 DEF Used, Leaving

LEMMA handleConnectRow == ASSUME Calm, handleConnect PROVE TokensAgree' /\ RowsUsed'
<1>1. connect.pc = "idle" /\ ui.peer = None /\ UNCHANGED <<ui, stored, disc, tunnel, rows>>
  BY DEF handleConnect, Connecting, connected
<1>2. RowsUsed' BY <1>1, NotHolding DEF Holding
<1>3. \/ connect'.pc = "refreshing" /\ connect'.rt = stored.user /\ connect'.token = NoToken
      \/ connect' = IdleConnect
  <2>1. CASE stored.refresh = None /\ Posts(stored.access) BY <2>1 DEF Calm, Posts
  <2>2. CASE stored.refresh # None
             /\ connect' = [IdleConnect EXCEPT !.pc = "refreshing", !.rt = stored.refresh]
             /\ connect'.pc = "refreshing" /\ connect'.rt = stored.refresh
    <3>1. connect'.token = IdleConnect.token BY <2>2, Constants DEF ConnectRecords
    <3> QED BY <2>2, <3>1, Constants DEF Calm
  <2> QED BY <2>1, <2>2, handleConnectFacts DEF Calm
<1>4. connect'.pc \notin Holding /\ connect'.token.acc = None /\ connect'.rt \in {stored.user, None}
  BY <1>3, Constants DEF Holding
<1>5. TokensAgree' BY <1>1, <1>4 DEF Calm, TokensAgree
<1> QED BY <1>2, <1>5

LEMMA RefreshAnsweredRow == ASSUME Calm, RefreshAnswered PROVE TokensAgree' /\ RowsUsed'
<1>1. connect.pc = "refreshing" /\ ui.peer = None
  BY DEF RefreshAnswered, Calm
<1>2. UNCHANGED <<ui, disc, tunnel, rows>> BY RefreshAnsweredFacts DEF Calm
<1>3. RowsUsed' BY <1>1, <1>2, NotHolding DEF Holding
<1>4. stored'.user = stored.user /\ stored.user \in {None, connect.rt} /\ Posts(stored'.access)
  BY <1>1, RefreshAnsweredFacts DEF Calm
<1>5. stored'.access.acc = stored'.user
      /\ (stored.user # None => stored'.access = Fresh(stored'.user))
  <2>1. CASE stored.user = None BY <2>1, RefreshAnsweredFacts DEF Calm
  <2>2. CASE stored.user # None
    <3>1. connect.rt \in Accounts \cup {None} /\ stored.user \in Accounts \cup {None}
      BY DEF Calm, TypeInv, HandlersOK, ConnectOK, ConnectRecords, ScreenOK, Sessions
    <3>3. stored' = [persistSession(connect.rt) EXCEPT !.user = stored.user]
      BY <2>2 DEF RefreshAnswered, Refreshed
    <3>4. stored' = [user |-> stored.user, access |-> [acc |-> connect.rt, fresh |-> TRUE],
                     refresh |-> connect.rt]
      BY <3>1, <3>3, Persisted
    <3>2. stored'.access = Fresh(connect.rt) BY <3>4 DEF Fresh
    <3>5. stored'.user = connect.rt BY <1>4, <2>2
    <3> QED BY <3>2, <3>5, FreshIs
  <2> QED BY <2>1, <2>2
<1>6. /\ connect'.pc \notin Holding /\ connect'.rt \in {stored'.user, None}
      /\ connect'.token.acc \in {stored'.user, None}
      /\ connect'.token.acc # None => connect'.token = Fresh(connect'.token.acc)
  <2>1. CASE stored.user = None
    <3>1. connect' = IdleConnect BY <1>4, <1>5, <2>1 DEF Posts
    <3> QED BY <3>1, Constants DEF Holding
  <2>2. CASE stored.user # None
    <3>1. connect'.pc = "posting" /\ connect'.rt = connect.rt /\ connect'.token = stored'.access
      BY <1>4, <1>5, <2>2 DEF Posts
    <3> QED BY <1>4, <1>5, <2>2, <3>1 DEF Holding, Fresh
  <2> QED BY <2>1, <2>2
<1>7. ui'.peer = None /\ \A d \in Disconnects : disc'[d].pc = "idle" BY <1>1, <1>2 DEF Calm
<1>8. TokensAgree' BY <1>4, <1>5, <1>6, <1>7 DEF TokensAgree
<1> QED BY <1>3, <1>8

LEMMA PeerCreatedRow == ASSUME Calm, PeerCreated PROVE TokensAgree' /\ RowsUsed'
<1>1. /\ connect.pc = "posting" /\ UNCHANGED <<ui, stored, disc, tunnel>>
      /\ rows' = [rows EXCEPT ![connect.token.acc] = connect.key]
  BY DEF PeerCreated
<1>2. connect' = [pc |-> "bringup", rt |-> connect.rt, token |-> connect.token,
                  key |-> connect.key, created |-> connect.token.acc]
  BY PeerCreatedFacts DEF Calm
<1>3. TokensAgree' BY <1>1, <1>2 DEF Calm, TokensAgree
<1>4. \A a \in Accounts : rows'[a] # 0 =>
        a = connect.token.acc /\ rows'[a] = connect.key
  BY <1>1, OnlyItsRow DEF Holding, Calm, TypeInv, OutsideOK
<1>5. RowsUsed' BY <1>2, <1>4 DEF RowsUsed, Used, Holding
<1> QED BY <1>3, <1>5

(* BringUp and ConnectFails: the connect goes on.                          *)
LEMMA HoldingRow ==
  ASSUME Calm, connect.pc \in Holding, NEW pc \in Holding,
         connect' = [connect EXCEPT !.pc = pc], UNCHANGED <<ui, stored, disc, rows>>
  PROVE  TokensAgree' /\ RowsUsed'
<1>1. connect' = [pc |-> pc, rt |-> connect.rt, token |-> connect.token,
                  key |-> connect.key, created |-> connect.created]
  BY ConnectMoved DEF Calm, TypeInv, HandlersOK, ConnectOK
<1>2. TokensAgree' BY <1>1 DEF Calm, TokensAgree
<1>3. connect.pc # "idle" BY DEF Holding
<1>4. RowsUsed' BY <1>1, <1>3, OnlyItsRow DEF RowsUsed, Used
<1> QED BY <1>2, <1>4

LEMMA SucceedsRow == ASSUME Calm, ConnectSucceeds PROVE TokensAgree' /\ RowsUsed'
<1>1. connect.pc = "up" /\ connect.created \in Accounts \cup {None}
  BY DEF ConnectSucceeds, Calm, TypeInv, HandlersOK, ConnectOK, ConnectRecords
<1>2. ui'.peer = connect.created
  BY <1>1, PeerWritten DEF ConnectSucceeds, Calm, TypeInv, ScreenOK
<1>3. connect' = IdleConnect /\ UNCHANGED <<stored, disc, tunnel, rows>>
  BY DEF ConnectSucceeds, AfterSuccess
<1>4. tunnel = connect.key BY <1>1 DEF Calm, WaitInv, Waiting
<1>5. \A d \in Disconnects : disc[d].pc = "idle" BY <1>1 DEF Calm
<1>6. connect.created = connect.token.acc BY <1>1 DEF Calm, TokensAgree, Holding
<1>7. connect'.pc \notin Holding /\ connect'.token.acc = None /\ connect'.rt = None
  BY <1>3, Constants DEF Holding
<1>8. TokensAgree' BY <1>2, <1>3, <1>5, <1>6, <1>7 DEF Calm, TokensAgree
<1>9. RowsUsed' BY <1>1, <1>2, <1>3, <1>4, OnlyItsRow DEF RowsUsed, Used
<1> QED BY <1>8, <1>9

(* PeerRefused and RollbackAnswered: the connect ends and leaves no row.   *)
LEMMA EndsRow ==
  ASSUME Calm, connect.pc # "idle", connect' = IdleConnect, UNCHANGED <<ui, stored, disc>>,
         \A a \in Accounts : rows'[a] = 0
  PROVE  TokensAgree' /\ RowsUsed'
<1>1. connect'.pc \notin Holding /\ connect'.token.acc = None /\ connect'.rt = None
  BY Constants DEF Holding
<1> QED BY <1>1 DEF Calm, TokensAgree, RowsUsed

LEMMA RollbackRow == ASSUME Calm, RollbackAnswered PROVE TokensAgree' /\ RowsUsed'
<1>1. /\ connect.pc = "rollback" /\ connect' = IdleConnect /\ UNCHANGED <<ui, stored, disc>>
      /\ rows' = Deleted(connect.created, connect.token)
  BY DEF RollbackAnswered
<1>2. Hits(connect.created, connect.token)
  BY <1>1 DEF Calm, TypeInv, HandlersOK, ConnectOK, TokensAgree, Holding, Fresh, Hits
<1>3. ASSUME NEW a \in Accounts PROVE rows'[a] = 0
  <2>1. rows'[a] = IF a = connect.created /\ Hits(connect.created, connect.token)
                   THEN 0 ELSE rows[a]
    BY <1>1, DeletedType DEF Calm, TypeInv
  <2> QED BY <1>1, <1>2, <2>1, OnlyItsRow
<1> QED BY <1>1, <1>3, EndsRow

LEMMA RefusedRow == ASSUME Calm, PeerRefused PROVE TokensAgree' /\ RowsUsed'
<1>1. connect.pc = "posting" /\ connect' = IdleConnect /\ UNCHANGED <<ui, stored, disc, rows>>
  BY DEF PeerRefused
<1>2. \A a \in Accounts : rows'[a] = 0 BY <1>1, OnlyItsRow DEF Holding
<1> QED BY <1>1, <1>2, EndsRow

-----------------------------------------------------------------------------
(* handleDisconnect, step by step.                                         *)
LEMMA StartRow ==
  ASSUME Calm, NEW d \in Disconnects, StartDisconnect(d, stored.access), connected,
         ui.user = stored.user, ui.user # None, ui'.peer = ui.peer,
         stored' \in {stored, NoSession}, UNCHANGED <<connect, attempts, tunnel, rows>>
  PROVE  TokensAgree' /\ RowsUsed'
<1>1. /\ disc[d].pc = "idle"
      /\ \A e \in Disconnects : disc'[e] =
           IF e = d THEN [pc |-> "teardown", peer |-> ui.peer, token |-> stored.access]
           ELSE disc[e]
  BY StartFacts DEF Calm
<1>2. stored.access = Fresh(ui.peer) BY DEF Calm, TokensAgree, connected
<1>3. \A e \in Disconnects : disc'[e].pc # "idle" =>
        disc'[e].token = Fresh(disc'[e].peer) /\ ui'.peer \in {disc'[e].peer, None}
  BY <1>1, <1>2 DEF Calm, TokensAgree
<1>4. TokensAgree' BY <1>3, Constants DEF Calm, TokensAgree
<1>5. RowsUsed'
  <2> SUFFICES ASSUME NEW a \in Accounts, rows[a] # 0 PROVE Used(a)' BY DEF RowsUsed
  <2>1. Used(a) BY DEF Calm, RowsUsed
  <2>2. ASSUME NEW e \in Disconnects, Leaving(a, e) PROVE Leaving(a, e)'
    BY <1>1, <2>2 DEF Leaving
  <2> QED BY <2>1, <2>2 DEF Used
<1> QED BY <1>4, <1>5

LEMMA BringDownRow ==
  ASSUME Calm, NEW d \in Disconnects, BringDownFacts(d, "down")
  PROVE  TokensAgree' /\ RowsUsed'
<1>1. disc[d].pc = "teardown" BY BringDownMoves DEF Calm
<1>2. /\ disc'[d].pc = "down" /\ disc'[d].peer = disc[d].peer /\ disc'[d].token = disc[d].token
      /\ \A e \in Disconnects \ {d} : disc'[e] = disc[e]
  <2>1. disc'[d] = [disc[d] EXCEPT !.pc = "down"]
    BY DEF BringDownFacts, Calm, TypeInv, HandlersOK
  <2> QED BY <1>1, <2>1, DiscMoved, BringDownMoves DEF Calm
<1>3. UNCHANGED <<ui, stored, connect, rows>> BY DEF BringDownFacts
<1>4. TokensAgree'
  <2>1. \A e \in Disconnects : disc'[e].pc # "idle" =>
          disc'[e].token = Fresh(disc'[e].peer) /\ ui'.peer \in {disc'[e].peer, None}
    BY <1>1, <1>2, <1>3 DEF Calm, TokensAgree
  <2> QED BY <2>1, <1>3 DEF Calm, TokensAgree
<1>5. RowsUsed'
  <2> SUFFICES ASSUME NEW a \in Accounts, rows[a] # 0 PROVE Used(a)' BY <1>3 DEF RowsUsed
  <2>1. Used(a) BY DEF Calm, RowsUsed
  <2>2. CASE ui.peer = a
    <3>1. disc[d].peer = a BY <1>1, <2>2, Constants DEF Calm, TokensAgree
    <3>2. Leaving(a, d)' BY <1>2, <3>1 DEF Leaving
    <3> QED BY <3>2 DEF Used
  <2>3. ASSUME NEW e \in Disconnects, Leaving(a, e) PROVE Leaving(a, e)'
    BY <1>1, <1>2, <2>3 DEF Leaving
  <2> QED BY <1>3, <2>1, <2>2, <2>3 DEF Used
<1> QED BY <1>4, <1>5

(* The screen is cleared.  The tunnel is down, so that only other calls    *)
(* can still be wanted for a row.                                          *)
LEMMA ClearsRow ==
  ASSUME Calm, NEW d \in Disconnects, Clears(d), UNCHANGED stored,
         disc'[d].pc = "deleting" =>
           disc'[d].peer = disc[d].peer /\ disc'[d].token = disc[d].token,
         \A a \in Accounts : rows'[a] # 0 =>
           rows'[a] = rows[a] /\ (disc[d].peer = a => disc'[d].pc = "deleting")
  PROVE  TokensAgree' /\ RowsUsed'
<1>1. connect.pc = "idle" /\ tunnel = 0 BY DEF Calm, Clears
<1>2. \A e \in Disconnects : disc'[e].pc # "idle" =>
        disc'[e].token = Fresh(disc'[e].peer) /\ ui'.peer \in {disc'[e].peer, None}
  BY DEF Calm, TokensAgree, Clears
<1>3. TokensAgree' BY <1>2 DEF Calm, TokensAgree, Clears
<1>4. RowsUsed'
  <2> SUFFICES ASSUME NEW a \in Accounts, rows'[a] # 0 PROVE Used(a)' BY DEF RowsUsed
  <2>1. Used(a) /\ rows[a] # 0 BY DEF Calm, RowsUsed
  <2>2. PICK e \in Disconnects : Leaving(a, e) BY <1>1, <2>1 DEF Used, Holding
  <2>3. Leaving(a, e)' BY <2>2 DEF Leaving, Clears
  <2> QED BY <2>3 DEF Used
<1> QED BY <1>3, <1>4

LEMMA DisconnectRow ==
  ASSUME Calm, NEW d \in Disconnects, DisconnectStep(d), Undisturbed'
  PROVE  TokensAgree' /\ RowsUsed'
<1>0. ScreenOK /\ TypeInv BY DEF Calm, TypeInv
<1>1. CASE BringDown(d)
  <2>1. PICK pc \in {"down", "incomplete"} : BringDownFacts(d, pc) BY <1>1, BringDownIs
  <2>2. CASE pc = "down" BY <2>1, <2>2, BringDownRow
  <2>3. CASE pc = "incomplete"
    <3>1. Fault("teardown") BY <2>1, <2>3 DEF BringDownFacts
    <3>2. "teardown" \in mishaps' BY <3>1 DEF Fault
    <3> QED BY <3>2 DEF Undisturbed, Disturbances, Spared
  <2> QED BY <2>1, <2>2, <2>3
<1>2. CASE LocalDown(d)
  <2>1. disc[d].pc = "down" /\ UNCHANGED <<stored, rows>> BY <1>2 DEF LocalDown
  <2>2. Clears(d)
    <3>1. clearUi /\ UNCHANGED <<connect, commands, tunnel>> BY <1>2 DEF LocalDown
    <3>2. ui'.peer = None BY <1>0, <3>1, UiCleared
    <3> QED BY <1>0, <1>2, <3>1, <3>2, LocalDownFacts, Constants DEF Clears
  <2>3. disc[d].peer # None /\ disc[d].token.acc = disc[d].peer
    <3>1. disc[d].peer # None BY <1>0, <2>1 DEF TypeInv, HandlersOK, DiscOK
    <3>2. disc[d].token = Fresh(disc[d].peer) BY <2>1 DEF Calm, TokensAgree
    <3> QED BY <3>1, <3>2, FreshIs
  <2>4. disc'[d].pc = "deleting" /\ disc'[d].peer = disc[d].peer /\ disc'[d].token = disc[d].token
    BY <1>2, <2>3, LocalDownFacts DEF Calm
  <2> QED BY <2>1, <2>2, <2>4, ClearsRow
<1>3. CASE DisconnectIncomplete(d) BY <1>3 DEF DisconnectIncomplete, Calm
<1>4. CASE DeleteAnswered(d)
  <2>1. /\ disc[d].pc = "deleting" /\ UNCHANGED <<stored, connect, commands, tunnel>>
        /\ rows' = Deleted(disc[d].peer, disc[d].token)
        /\ clearUi /\ disc' = [disc EXCEPT ![d] = IdleDisc]
    BY <1>4 DEF DeleteAnswered
  <2>2. ui'.peer = None BY <1>0, <2>1, UiCleared
  <2>3. disc'[d] = IdleDisc /\ \A e \in Disconnects \ {d} : disc'[e] = disc[e]
    BY <2>1 DEF Calm, TypeInv, HandlersOK
  <2>4. Clears(d) BY <2>1, <2>2, <2>3, Constants DEF Clears
  <2>5. Hits(disc[d].peer, disc[d].token)
    <3>1. disc[d].token = Fresh(disc[d].peer) BY <2>1 DEF Calm, TokensAgree
    <3> QED BY <3>1, FreshIs
  <2>6. \A a \in Accounts : rows'[a] # 0 => rows'[a] = rows[a] /\ disc[d].peer # a
    BY <2>1, <2>5, DeletedType DEF Calm, TypeInv
  <2> QED BY <2>1, <2>3, <2>4, <2>6, Constants, ClearsRow
<1>5. CASE DeleteTimesOut(d)
  BY <1>5 DEF DeleteTimesOut, Undisturbed, Disturbances, Spared
<1> QED BY <1>1, <1>2, <1>3, <1>4, <1>5 DEF DisconnectStep

LEMMA SignOutRow ==
  ASSUME Calm, handleSignOut, ui.user = stored.user PROVE TokensAgree' /\ RowsUsed'
<1>1. /\ stored' = NoSession /\ ui'.peer = ui.peer
      /\ UNCHANGED <<connect, attempts, tunnel, rows>>
  BY SignOutFacts DEF Calm
<1>2. ui.user # None BY DEF handleSignOut, Dashboard, AuthView
<1>3. CASE UNCHANGED <<disc, commands>>
  <2>1. RowsUsed' BY <1>1, <1>3, RowsUsedKept DEF Calm
  <2>2. TokensAgree' BY <1>1, <1>3, Constants DEF Calm, TokensAgree
  <2> QED BY <2>1, <2>2
<1>4. CASE \E d \in Disconnects : connected /\ StartDisconnect(d, stored.access)
  BY <1>1, <1>2, <1>4, StartRow
<1>5. UNCHANGED <<disc, commands>>
      \/ \E d \in Disconnects : connected /\ StartDisconnect(d, stored.access)
  BY SignOutFacts DEF Calm
<1> QED BY <1>3, <1>4, <1>5

LEMMA RowStays ==
  TypeInv /\ WaitInv /\ SessionInv /\ TunnelInv /\ RowInv /\ [Next]_vars => RowInv'
<1> SUFFICES ASSUME TypeInv, WaitInv, SessionInv, TunnelInv, RowInv, [Next]_vars
             PROVE  RowInv'
  OBVIOUS
<1>1. mishaps \subseteq mishaps' /\ ui.user = stored.user BY MishapsGrow DEF RowInv
<1>2. ui'.user = stored'.user BY <1>1, UserStays
<1> SUFFICES ASSUME Undisturbed' PROVE TokensAgree' /\ RowsUsed' BY <1>2 DEF RowInv
<1>3. Calm BY <1>1, CalmBefore
<1>4. CASE UNCHANGED vars
  BY <1>3, <1>4 DEF vars, Calm, TokensAgree, RowsUsed, Used, Leaving
<1>5. CASE RefreshFailed \/ PostLost \/ RollbackLost \/ Restart
  <2>1. \A kind : Fault(kind) => kind \in mishaps' BY DEF Fault
  <2>2. "network" \in mishaps' \/ "restart" \in mishaps'
    BY <1>5, <2>1, Zenon DEF RefreshFailed, PostLost, RollbackLost, Restart
  <2> QED BY <2>2 DEF Undisturbed, Disturbances, Spared
<1>6. CASE BringUp
  <2>1. PICK pc \in {"up", "failed"} : BringUpFacts(pc) BY <1>6, BringUpIs
  <2>2. connect.pc = "bringup" BY <2>1, BringUpWaited DEF BringUpFacts, WaitInv
  <2> QED BY <1>3, <2>1, <2>2, HoldingRow DEF BringUpFacts, Holding
<1>7. CASE ConnectFails
  <2>1. connect.pc = "failed" /\ connect' = [connect EXCEPT !.pc = "rollback"]
        /\ UNCHANGED <<ui, stored, disc, rows>>
    BY <1>7, ConnectFailsFacts DEF ConnectFails
  <2> QED BY <1>3, <2>1, HoldingRow DEF Holding
<1>8. ASSUME NEW d \in Disconnects, handleDisconnect(d) PROVE TokensAgree' /\ RowsUsed'
  <2>1. ui.user # None BY <1>8 DEF handleDisconnect, Dashboard, AuthView
  <2>2. /\ StartDisconnect(d, stored.access) /\ connected
        /\ UNCHANGED <<ui, stored, connect, attempts, tunnel, rows>>
    BY <1>8 DEF handleDisconnect
  <2> QED BY <1>1, <1>3, <2>1, <2>2, StartRow
<1>9. ASSUME NEW b \in Accounts, LateDelete(b) PROVE TokensAgree' /\ RowsUsed'
  <2>1. UNCHANGED <<ui, stored, connect, disc, tunnel>>
        /\ rows' \in {rows, [rows EXCEPT ![b] = 0]}
    BY <1>9 DEF LateDelete
  <2>2. \A a \in Accounts : rows'[a] # 0 => rows'[a] = rows[a]
    BY <2>1 DEF TypeInv, OutsideOK
  <2>3. TokensAgree' BY <1>3, <2>1 DEF Calm, TokensAgree
  <2>4. RowsUsed'
    <3> SUFFICES ASSUME NEW a \in Accounts, rows'[a] # 0 PROVE Used(a)' BY DEF RowsUsed
    <3>1. Used(a) /\ rows'[a] = rows[a] BY <1>3, <2>2 DEF Calm, RowsUsed
    <3> QED BY <2>1, <3>1 DEF Used, Leaving
  <2> QED BY <2>3, <2>4
<1> QED BY <1>1, <1>3, <1>4, <1>5, <1>6, <1>7, <1>8, <1>9, ScreenRow, handleConnectRow,
           RefreshAnsweredRow, PeerCreatedRow, RefusedRow, SucceedsRow, RollbackRow,
           DisconnectRow, SignOutRow
        DEF Next, ScreenStep

(* AlwaysNoStaleRow: nothing but the failures named leaves a row behind    *)
(* that no tunnel uses.                                                    *)
THEOREM AlwaysNoStaleRow == Spec => []NoStaleRow
<1>1. Init => RowInv /\ SessionInv
  <2> SUFFICES ASSUME Init PROVE RowInv BY SessionInit
  <2>1. /\ ui.user = None /\ stored = NoSession /\ connect = IdleConnect
        /\ \A d \in Disconnects : disc[d].pc = "idle"
        /\ \A a \in Accounts : rows[a] = 0
    BY Constants DEF Init
  <2> QED BY <2>1, Constants DEF RowInv, TokensAgree, RowsUsed, Holding
<1>2. RowInv => NoStaleRow
  <2> SUFFICES ASSUME RowInv, Quiet, Undisturbed, NEW a \in Accounts, rows[a] # 0
               PROVE  rows[a] = tunnel
    BY DEF NoStaleRow, Undisturbed, Disturbances
  <2>1. Used(a) BY DEF RowInv, RowsUsed
  <2> QED BY <2>1 DEF Used, Leaving, Quiet, Holding
<1>3. TypeInv /\ WaitInv /\ SessionInv /\ [Next]_vars => SessionInv' BY SessionStays
<1> QED BY <1>1, <1>2, <1>3, RowStays, AlwaysTunnelInv, PTL DEF Spec
=============================================================================
