------------------------- MODULE AuthDialog_proofs -------------------------
(***************************************************************************)
(* Proofs about AuthDialog for any number of accounts.  FormFits and the   *)
(* two properties about the session and the new ID have an inductive       *)
(* strengthening each, which the actions keep one by one.                  *)
(***************************************************************************)
EXTENDS AuthDialog, TLAPS

Unnoted == {"impatient", "closed", "signed_out", "password_gone"}

LEMMA VisibleTypes ==
  ASSUME NEW m \in Modes, visible \subseteq Elements, page.forgot \in BOOLEAN
  PROVE  Shown1(m) \subseteq Elements /\ Shown2(m) \subseteq Elements
BY DEF Shown1, Shown2, EmailElements, Links, LinksFor, Elements, Modes

(* Every action that switches the mode leaves a mode and its elements.     *)
LEMMA SetModeType ==
  ASSUME TypeOK, NEW m \in Modes, setMode(m)
  PROVE  mode' \in Modes /\ visible' \subseteq Elements
BY VisibleTypes DEF setMode, TypeOK

LEMMA TabModeType ==
  ASSUME NEW tab \in {"signin", "signup"}
  PROVE  TabMode(tab) \in Modes
BY DEF TabMode, Modes, Anon

(* A registration under way is within the bound, and counted once; so is a *)
(* lost answer.                                                            *)
Bounded ==
  /\ request = "anon-signup" => created.count < MaxAccounts
  /\ created.lost <= created.count

Created == [count : 0..MaxAccounts, lost : 0..MaxAccounts, anonCreated : BOOLEAN]

LEMMA HintModeType == TypeOK => HintMode \in Modes \ {"forgot"}
BY DEF HintMode, Modes, TypeOK

LEMMA PasswordNoted == \A m : TakesPassword(m) \subseteq Unnoted
BY DEF TakesPassword, Unnoted

(* What a registration does to the counters, answered or not.              *)
LEMMA Counted ==
  ASSUME created \in Created, created.count < MaxAccounts,
         created.lost <= created.count
  PROVE  /\ [created EXCEPT !.count = @ + 1] \in Created
         /\ [created EXCEPT !.count = @ + 1, !.anonCreated = TRUE] \in Created
         /\ [created EXCEPT !.count = @ + 1, !.lost = @ + 1] \in Created
<1>1. created.count \in 0..MaxAccounts /\ created.lost \in 0..MaxAccounts
      /\ created.anonCreated \in BOOLEAN
  BY DEF Created
<1>2. created.count + 1 \in 0..MaxAccounts /\ created.lost + 1 \in 0..MaxAccounts
  BY <1>1, DialogAssumption
<1> QED BY <1>1, <1>2 DEF Created

LEMMA InitTypes == Init => TypeOK /\ Bounded
<1> SUFFICES ASSUME Init PROVE TypeOK /\ Bounded
  OBVIOUS
<1>1. page \in [version : {1, 2}, forgot : BOOLEAN]
  <2>1. \A b \in BOOLEAN, v \in {1, 2} :
          [version |-> v, forgot |-> b] \in [version : {1, 2}, forgot : BOOLEAN]
    OBVIOUS
  <2>2. TRUE \in BOOLEAN /\ FALSE \in BOOLEAN
    OBVIOUS
  <2> QED BY <2>1, <2>2, Zenon DEF Init
<1>2. mode \in Modes /\ visible \subseteq Elements
  BY DEF Init, Modes, LinksFor, Elements
<1>3. open \in BOOLEAN /\ session \in BOOLEAN /\ navUser \in BOOLEAN
  <2>1. session \in BOOLEAN BY DEF Init
  <2>2. navUser \in BOOLEAN BY <2>1, Zenon DEF Init
  <2>3. open = FALSE \/ open = ~session BY Zenon DEF Init
  <2> QED BY <2>1, <2>2, <2>3
<1>4. created \in Created
  BY DialogAssumption DEF Init, Created
<1>5. Bounded
  BY DEF Init, Bounded
<1>6. /\ pending \in BOOLEAN /\ timer \in BOOLEAN /\ seen \in BOOLEAN
      /\ request \in {"none", "anon-signup", "anon-signin", "email", "reset"}
      /\ where \in {"page", "account"}
      /\ mishaps \subseteq {"impatient", "closed", "signed_out", "password_gone"}
  BY Zenon DEF Init
<1>7. TypeOK
  BY <1>1, <1>2, <1>3, <1>4, <1>6 DEF TypeOK, Created
<1> QED BY <1>5, <1>7

LEMMA NextTypes == TypeOK /\ Bounded /\ [Next]_vars => TypeOK'
<1> SUFFICES ASSUME TypeOK, Bounded, [Next]_vars PROVE TypeOK'
OBVIOUS
<1> USE DialogAssumption
<1>1. CASE ClickOpen
  <2>1. mode' \in Modes /\ visible' \subseteq Elements
    BY <1>1, SetModeType DEF ClickOpen, openModal, Modes
  <2> QED BY <1>1, <2>1 DEF ClickOpen, openModal, TypeOK
<1>2. CASE Close
  BY <1>2 DEF Close, PendingAfterClose, TypeOK
<1>3. ASSUME NEW m \in {"signin", "signup"}, ClickGate(m) PROVE TypeOK'
  <2>1. CASE HasToken
    BY <1>3, <2>1 DEF ClickGate, TypeOK
  <2>2. CASE ~HasToken
    <3>1. mode' \in Modes /\ visible' \subseteq Elements
      BY <1>3, <2>2, SetModeType DEF ClickGate, openModal, Modes
    <3> QED BY <1>3, <2>2, <3>1 DEF ClickGate, openModal, TypeOK
  <2> QED BY <2>1, <2>2
<1>4. ASSUME NEW m \in Modes, Switch(m),
             created' \in Created,
             mishaps' \subseteq Unnoted
      PROVE  TypeOK'
  BY <1>4, SetModeType DEF Switch, TypeOK, Unnoted, Created
<1>5. ASSUME NEW tab \in {"signin", "signup"}, ClickTab(tab) PROVE TypeOK'
  <2>1. created' \in Created
    BY <1>5 DEF ClickTab, TypeOK, Created
  <2>2. mishaps' \subseteq Unnoted
    BY <1>5, PasswordNoted DEF ClickTab, TypeOK, Unnoted
  <2> QED BY <1>4, <1>5, <2>1, <2>2, TabModeType DEF ClickTab
<1>6. CASE ClickAnonSignup \/ ForgotBack
  <2>1. created' = created /\ mishaps' = mishaps
    BY <1>6 DEF ClickAnonSignup, ForgotBack
  <2>2. \E m \in Modes : Switch(m)
    BY <1>6 DEF ClickAnonSignup, ForgotBack, Modes
  <2> QED BY <1>4, <2>1, <2>2 DEF TypeOK, Unnoted, Created
<1>7. CASE ClickHint \/ ClickAnonSignin
  <2>1. mishaps' \subseteq Unnoted
    BY <1>7, PasswordNoted DEF ClickHint, ClickAnonSignin, TypeOK, Unnoted
  <2>2. created' = created /\ \E m \in Modes : Switch(m)
    BY <1>7, HintModeType DEF ClickHint, ClickAnonSignin, Modes
  <2> QED BY <1>4, <2>1, <2>2 DEF TypeOK, Created
<1>8. CASE ClickReset
  <2>1. CASE page.version = 1
    BY <1>4, <1>8, <2>1 DEF ClickReset, TypeOK, Modes, Unnoted, Created
  <2>2. CASE page.version # 1
    BY <1>8, <2>2 DEF ClickReset, TypeOK
  <2> QED BY <2>1, <2>2
<1>9. CASE ForgotSubmit
  BY <1>9 DEF ForgotSubmit, TypeOK
<1>10. CASE SubmitGoesOn
  BY <1>10 DEF SubmitGoesOn, TypeOK
<1>11. CASE SubmitAnonSignup
  <2>1. mishaps' \subseteq Unnoted
    BY <1>11 DEF SubmitAnonSignup, TypeOK, Unnoted
  <2> QED BY <1>11, <2>1 DEF SubmitAnonSignup, TypeOK, Unnoted
<1>12. CASE SubmitSignin
  BY <1>12 DEF SubmitSignin, TypeOK
<1>13. CASE Registered \/ AnswerLost
  <2>1. created' \in Created
    <3>1. created \in Created /\ created.count < MaxAccounts /\ created.lost <= created.count
      BY <1>13 DEF Registered, AnswerLost, Bounded, TypeOK, Created
    <3>2. \/ created' = [created EXCEPT !.count = @ + 1]
          \/ created' = [created EXCEPT !.count = @ + 1, !.anonCreated = TRUE]
          \/ created' = [created EXCEPT !.count = @ + 1, !.lost = @ + 1]
      BY <1>13, Zenon DEF Registered, AnswerLost
    <3> QED BY <3>1, <3>2, Counted
  <2>2. CASE AnswerLost
    BY <2>1, <2>2 DEF AnswerLost, TypeOK, Created
  <2>3. CASE Registered /\ page.version = 1
    BY <2>1, <2>3 DEF Registered, TypeOK, Created
  <2>4. CASE Registered /\ page.version # 1
    <3>1. mode' \in Modes /\ visible' \subseteq Elements
      BY <2>4, SetModeType DEF Registered, Modes
    <3>2. seen' \in BOOLEAN
      BY <2>4, Zenon DEF Registered, MessageShown, TypeOK
    <3> QED BY <2>1, <2>4, <3>1, <3>2 DEF Registered, TypeOK, Created
  <2> QED BY <1>13, <2>2, <2>3, <2>4
<1>14. CASE SignedIn \/ ResetSent \/ Refused \/ TimerFires
  BY <1>14 DEF SignedIn, ResetSent, Refused, TimerFires, TypeOK
<1>15. CASE SignOut
  BY <1>15 DEF SignOut, TypeOK
<1>16. CASE UNCHANGED vars
  BY <1>16 DEF vars, TypeOK
<1> QED
  BY <1>1, <1>2, <1>3, <1>5, <1>6, <1>7, <1>8, <1>9, <1>10, <1>11, <1>12,
     <1>13, <1>14, <1>15, <1>16 DEF Next

LEMMA NextBounded == TypeOK /\ Bounded /\ [Next]_vars => Bounded'
<1> SUFFICES ASSUME TypeOK, Bounded, [Next]_vars PROVE Bounded'
  OBVIOUS
<1>0. created.count \in Nat /\ created.lost \in Nat BY DialogAssumption DEF TypeOK
<1>1. CASE SubmitAnonSignup
  BY <1>1 DEF SubmitAnonSignup, Bounded
<1>2. CASE \/ ClickHint \/ ClickAnonSignup \/ ClickAnonSignin
           \/ ClickReset \/ ForgotBack \/ ForgotSubmit
  BY <1>2 DEF ClickHint, ClickAnonSignup, ClickAnonSignin, ClickReset,
              ForgotBack, ForgotSubmit, Switch, Bounded
<1>3. ASSUME NEW tab \in {"signin", "signup"}, ClickTab(tab) PROVE Bounded'
  <2>1. created'.count = created.count /\ created'.lost = created.lost
    BY <1>3 DEF ClickTab, TypeOK
  <2> QED BY <1>3, <2>1 DEF ClickTab, Switch, Bounded
<1>4. CASE \/ ClickOpen \/ Close \/ SubmitGoesOn \/ TimerFires \/ SignOut
           \/ (\E m \in {"signin", "signup"} : ClickGate(m))
           \/ UNCHANGED vars
  BY <1>4 DEF ClickOpen, Close, SubmitGoesOn, TimerFires, SignOut, ClickGate,
              vars, Bounded
<1>5. CASE SubmitSignin \/ SignedIn \/ ResetSent \/ Refused
  BY <1>5 DEF SubmitSignin, SignedIn, ResetSent, Refused, Bounded
<1>6. CASE Registered \/ AnswerLost
  <2>1. request' = "none" BY <1>6 DEF Registered, AnswerLost
  <2>2. /\ created'.count = created.count + 1
        /\ created'.lost \in {created.lost, created.lost + 1}
    BY <1>6 DEF Registered, AnswerLost, TypeOK
  <2> QED BY <1>0, <2>1, <2>2 DEF Bounded
<1> QED BY <1>1, <1>2, <1>3, <1>4, <1>5, <1>6 DEF Next

(* The dialog's variables keep their types, and no more accounts are       *)
(* registered than the bound allows.                                       *)
THEOREM TypeCorrect == Spec => []TypeOK
<1>1. Spec => [](TypeOK /\ Bounded)
  BY InitTypes, NextTypes, NextBounded, PTL DEF Spec
<1> QED BY <1>1, PTL

-----------------------------------------------------------------------------
(* The form: what setMode leaves alone must be right already.              *)

Blank == {"form", "tabs", "anonSignup", "anonSignin"}

FormInv ==
  /\ mode # "forgot" => "form" \in visible
  /\ mode = "forgot" =>
       /\ page.version = 1 /\ visible \cap Blank = {}
       /\ page.forgot => "forgot" \in visible
  /\ mode \in {"signin", "signup"} => "fields" \in visible
  /\ page.version = 1 => "password" \in visible
  /\ mode = "anon-signin" => "fields" \in visible
  /\ mode = "anon-signup" => "fields" \notin visible
  /\ page.version = 2 /\ Spared({"password_gone"}) => "password" \in visible

(* The modes that an action may set, from where it stands.                 *)
Reachable(m) ==
  /\ m \in Modes
  /\ m = "forgot" => page.version = 1
  /\ Anon(m) => mode # "forgot"
  /\ m = "anon-signin" /\ page.version = 2 => "password_gone" \in mishaps'

LEMMA Modal ==
  ASSUME TypeOK, FormInv, [Next]_vars
  PROVE  /\ page' = page /\ mishaps \subseteq mishaps'
         /\ \/ UNCHANGED <<mode, visible>>
            \/ \E m : Reachable(m) /\ setMode(m)
<1>1. CASE ClickOpen \/ (\E m \in {"signin", "signup"} : ClickGate(m))
  BY <1>1 DEF ClickOpen, ClickGate, openModal, Reachable, Modes, Anon
<1>2. ASSUME NEW tab \in {"signin", "signup"}, ClickTab(tab)
      PROVE  /\ page' = page /\ mishaps \subseteq mishaps'
             /\ Reachable(TabMode(tab)) /\ setMode(TabMode(tab))
  <2>1. mode # "forgot"
    BY <1>2 DEF ClickTab, FormInv, Blank
  <2>2. TabMode(tab) \in Modes /\ TabMode(tab) # "forgot"
    BY TabModeType DEF TabMode, Anon
  <2>3. /\ mishaps \subseteq mishaps'
        /\ page.version = 2 /\ TabMode(tab) = "anon-signin"
             => "password_gone" \in mishaps'
    BY <1>2 DEF ClickTab, TakesPassword
  <2> QED BY <1>2, <2>1, <2>2, <2>3 DEF ClickTab, Switch, Reachable
<1>3. CASE ClickHint
  <2>1. HintMode \in Modes \ {"forgot"} BY HintModeType
  <2>2. Anon(HintMode) => page.version = 2 /\ mode # "forgot" BY DEF HintMode, Anon
  <2>3. page.version = 2 /\ HintMode = "anon-signin" => "password_gone" \in mishaps'
    BY <1>3 DEF ClickHint, TakesPassword
  <2> QED BY <1>3, <2>1, <2>2, <2>3 DEF ClickHint, Switch, Reachable
<1>4. CASE ClickAnonSignup \/ ClickAnonSignin
  <2>1. mode # "forgot"
    BY <1>4 DEF ClickAnonSignup, ClickAnonSignin, FormInv, Blank
  <2> QED BY <1>4, <2>1
          DEF ClickAnonSignup, ClickAnonSignin, TakesPassword, Switch, Reachable, Modes,
              Anon
<1>5. CASE ClickReset \/ ForgotBack
  BY <1>5 DEF ClickReset, ForgotBack, Switch, Reachable, Modes, Anon
<1>6. CASE Close \/ SubmitAnonSignup \/ SignOut
  BY <1>6 DEF Close, SubmitAnonSignup, SignOut
<1>7. CASE \/ ForgotSubmit \/ SubmitGoesOn \/ SubmitSignin \/ SignedIn
           \/ ResetSent \/ Refused \/ AnswerLost \/ TimerFires \/ UNCHANGED vars
  BY <1>7 DEF ForgotSubmit, SubmitGoesOn, SubmitSignin, SignedIn, ResetSent,
              Refused, AnswerLost, TimerFires, vars
<1>8. CASE Registered
  <2>1. CASE page.version = 1
    BY <1>8, <2>1 DEF Registered
  <2>2. CASE page.version # 1
    <3>1. mode # "forgot" BY <2>2 DEF FormInv
    <3> QED BY <1>8, <2>2, <3>1 DEF Registered, Reachable, Modes
  <2> QED BY <2>1, <2>2
<1> QED BY <1>1, <1>2, <1>3, <1>4, <1>5, <1>6, <1>7, <1>8 DEF Next

LEMMA SetModeFits ==
  ASSUME TypeOK, FormInv, NEW m, Reachable(m), setMode(m),
         page' = page, mishaps \subseteq mishaps'
  PROVE  FormInv'
<1>1. m \in {"signin", "signup", "anon-signup", "anon-signin", "forgot"}
  BY DEF Reachable, Modes
<1>2. page.version \in {1, 2} BY DEF TypeOK
<1>3. CASE page.version = 1
  <2> USE <1>3 DEF setMode, Shown1, FormInv, Blank, EmailElements, Links, LinksFor,
                   Reachable, Anon
  <2>1. CASE m = "anon-signup" BY <2>1
  <2>2. CASE m = "anon-signin" BY <2>2
  <2>3. CASE m = "forgot" BY <2>3
  <2>4. CASE m \in {"signin", "signup"} BY <2>4
  <2> QED BY <1>1, <2>1, <2>2, <2>3, <2>4
<1>4. CASE page.version = 2
  <2> USE <1>4 DEF setMode, Shown2, FormInv, EmailElements, Links, LinksFor,
                   Reachable, Anon, Spared
  <2>1. CASE m = "anon-signup" BY <2>1
  <2>2. CASE m = "anon-signin" BY <2>2
  <2>3. CASE m \in {"signin", "signup"} BY <2>3
  <2> QED BY <1>1, <2>1, <2>2, <2>3
<1> QED BY <1>2, <1>3, <1>4

(* Whatever modes the open dialog went through, it has the fields of the   *)
(* form that is submitted, apart from the two divergences that FormFits    *)
(* names.                                                                  *)
THEOREM FormAlwaysFits == Spec => []FormFits
<1>1. Init => FormInv
  BY DEF Init, FormInv, LinksFor, Spared
<1>2. TypeOK /\ FormInv /\ [Next]_vars => FormInv'
  <2> SUFFICES ASSUME TypeOK, FormInv, [Next]_vars PROVE FormInv'
    OBVIOUS
  <2>1. page' = page /\ mishaps \subseteq mishaps' BY Modal
  <2>2. CASE UNCHANGED <<mode, visible>>
    BY <2>1, <2>2 DEF FormInv, Spared, Blank
  <2>3. CASE \E m : Reachable(m) /\ setMode(m)
    BY <2>1, <2>3, SetModeFits
  <2> QED BY <2>2, <2>3, Modal
<1>3. TypeOK /\ FormInv => FormFits
  <2> SUFFICES ASSUME TypeOK, FormInv PROVE FormFits OBVIOUS
  <2>1. page.version \in {1, 2} /\ mode \in Modes BY DEF TypeOK
  <2> QED BY <2>1 DEF FormInv, FormFits, Spared, Modes, Blank
<1> QED BY <1>1, <1>2, <1>3, TypeCorrect, PTL DEF Spec

-----------------------------------------------------------------------------
(* Leaving: what leads to the dashboard stands for a session.              *)

LeaveInv ==
  /\ (timer \/ created.anonCreated \/ where = "account")
       /\ Spared({"signed_out"}) => session
  /\ where = "page" /\ pending => open

LEMMA LeaveStep == TypeOK /\ LeaveInv /\ [Next]_vars => LeaveInv'
<1> SUFFICES ASSUME TypeOK, LeaveInv, [Next]_vars PROVE LeaveInv'
  OBVIOUS
<1> USE DEF LeaveInv, Spared
<1>1. CASE ClickOpen
  BY <1>1 DEF ClickOpen, openModal
<1>2. CASE Close
  BY <1>2 DEF Close, PendingAfterClose
<1>3. ASSUME NEW m \in {"signin", "signup"}, ClickGate(m) PROVE LeaveInv'
  BY <1>3 DEF ClickGate, openModal, HasToken
<1>4. ASSUME NEW tab \in {"signin", "signup"}, ClickTab(tab) PROVE LeaveInv'
  BY <1>4 DEF ClickTab, Switch, TypeOK
<1>5. CASE \/ ClickHint \/ ClickAnonSignup \/ ClickAnonSignin
           \/ ClickReset \/ ForgotBack \/ ForgotSubmit
  BY <1>5 DEF ClickHint, ClickAnonSignup, ClickAnonSignin, ClickReset,
              ForgotBack, ForgotSubmit, Switch
<1>6. CASE SubmitGoesOn
  BY <1>6 DEF SubmitGoesOn, GoesOn
<1>7. CASE SubmitAnonSignup \/ SubmitSignin
  BY <1>7 DEF SubmitAnonSignup, SubmitSignin, Submittable
<1>8. CASE Registered
  BY <1>8 DEF Registered
<1>15. CASE AnswerLost
  <2>1. created'.anonCreated = created.anonCreated
        /\ UNCHANGED <<open, pending, timer, session, where, mishaps>>
    BY <1>15 DEF AnswerLost, TypeOK
  <2> QED BY <2>1
<1>9. CASE SignedIn
  BY <1>9 DEF SignedIn
<1>10. CASE ResetSent
  BY <1>10 DEF ResetSent
<1>14. CASE Refused
  <2>1. where' = where /\ open' = open /\ timer' = timer /\ session' = session
        /\ created' = created /\ mishaps' = mishaps
    BY <1>14 DEF Refused
  <2>2. pending' => pending
    BY <1>14 DEF Refused, TypeOK
  <2> QED BY <2>1, <2>2
<1>11. CASE TimerFires
  BY <1>11 DEF TimerFires
<1>12. CASE SignOut /\ where = "page"
  BY <1>12 DEF SignOut
<1>13. CASE UNCHANGED vars
  BY <1>13 DEF vars
<1> QED
  BY <1>1, <1>2, <1>3, <1>4, <1>5, <1>6, <1>7, <1>8, <1>9, <1>10, <1>11,
     <1>12, <1>13, <1>14, <1>15 DEF Next

(* The page is left for the dashboard with a session only, sign-outs       *)
(* before the announced redirect apart, and no cancelled redirect waits    *)
(* for a later sign-in.                                                    *)
THEOREM AlwaysLeavesSignedIn == Spec => []LeavesSignedIn
<1>1. Init => LeaveInv BY DEF Init, LeaveInv
<1>2. LeaveInv => LeavesSignedIn BY DEF LeaveInv, LeavesSignedIn
<1> QED BY <1>1, <1>2, LeaveStep, TypeCorrect, PTL DEF Spec

-----------------------------------------------------------------------------
(* Registration: an account whose answer arrived is followed by the timer  *)
(* of version 1, by anonCreated of version 2, or by leaving the page.      *)

Followed == IF page.version = 1 THEN timer ELSE created.anonCreated

OnceInv ==
  /\ Spared({"impatient"}) =>
       /\ created.count <= created.lost + 1
       /\ where = "page" => created.count = created.lost \/ Followed
       /\ where = "page" /\ request = "anon-signup" => created.count = created.lost
  /\ page.version = 1 => ~created.anonCreated

SeenInv ==
  Spared({"closed"}) =>
    /\ seen
    /\ where = "page" /\ request = "anon-signup" => open

LEMMA OnceStep == TypeOK /\ OnceInv /\ [Next]_vars => OnceInv'
<1> SUFFICES ASSUME TypeOK, OnceInv, [Next]_vars PROVE OnceInv'
  OBVIOUS
<1> USE DEF OnceInv, Spared, Followed
<1>1. CASE ClickOpen \/ (\E m \in {"signin", "signup"} : ClickGate(m))
  BY <1>1 DEF ClickOpen, ClickGate
<1>2. CASE Close
  BY <1>2 DEF Close
<1>3. ASSUME NEW tab \in {"signin", "signup"}, ClickTab(tab) PROVE OnceInv'
  <2>1. created'.count = created.count /\ created'.lost = created.lost
        /\ ~created'.anonCreated
    BY <1>3 DEF ClickTab, TypeOK
  <2> QED BY <1>3, <2>1 DEF ClickTab, Switch, TypeOK
<1>4. CASE \/ ClickHint \/ ClickAnonSignup \/ ClickAnonSignin
           \/ ClickReset \/ ForgotBack \/ ForgotSubmit
  BY <1>4 DEF ClickHint, ClickAnonSignup, ClickAnonSignin, ClickReset,
              ForgotBack, ForgotSubmit, Switch
<1>5. CASE SubmitAnonSignup /\ where = "page"
  BY <1>5 DEF SubmitAnonSignup, GoesOn
<1>6. CASE SubmitGoesOn \/ SubmitSignin
  BY <1>6 DEF SubmitGoesOn, SubmitSignin
<1>7. CASE Registered /\ where = "page"
  <2>1. created.count \in Nat /\ created.lost \in Nat BY DEF TypeOK
  <2>2. created'.count = created.count + 1 /\ created'.lost = created.lost
    BY <1>7, <2>1 DEF Registered, TypeOK
  <2>3. page' = page /\ mishaps' = mishaps /\ request' = "none"
        /\ (Spared({"impatient"}) => created.count = created.lost)
    BY <1>7 DEF Registered
  <2>4. CASE page.version = 1
    <3>1. timer' = TRUE /\ ~created'.anonCreated
      BY <1>7, <2>4 DEF Registered, TypeOK
    <3> QED BY <2>1, <2>2, <2>3, <2>4, <3>1
  <2>5. CASE page.version # 1
    <3>1. created'.anonCreated = TRUE
      BY <1>7, <2>5 DEF Registered, TypeOK
    <3> QED BY <2>1, <2>2, <2>3, <2>5, <3>1
  <2> QED BY <2>4, <2>5
<1>13. CASE AnswerLost /\ where = "page"
  <2>1. created.count \in Nat /\ created.lost \in Nat BY DEF TypeOK
  <2>2. /\ created'.count = created.count + 1 /\ created'.lost = created.lost + 1
        /\ created'.anonCreated = created.anonCreated
    BY <1>13 DEF AnswerLost, TypeOK
  <2>3. request' = "none" /\ UNCHANGED <<page, timer, where, mishaps>>
        /\ (Spared({"impatient"}) => created.count = created.lost)
    BY <1>13 DEF AnswerLost
  <2> QED BY <2>1, <2>2, <2>3
<1>8. CASE SignedIn
  BY <1>8 DEF SignedIn
<1>10. CASE ResetSent \/ Refused
  <2>1. request' = "none"
        /\ UNCHANGED <<page, timer, created, where, mishaps>>
    BY <1>10 DEF ResetSent, Refused
  <2> QED BY <2>1
<1>11. CASE TimerFires
  BY <1>11 DEF TimerFires
<1>12. CASE SignOut
  BY <1>12 DEF SignOut
<1>9. CASE UNCHANGED vars
  BY <1>9 DEF vars
<1> QED
  BY <1>1, <1>2, <1>3, <1>4, <1>5, <1>6, <1>7, <1>8, <1>9, <1>10,
     <1>11, <1>12, <1>13 DEF Next

LEMMA SeenStep == TypeOK /\ SeenInv /\ [Next]_vars => SeenInv'
<1> SUFFICES ASSUME TypeOK, SeenInv, [Next]_vars PROVE SeenInv'
  OBVIOUS
<1> USE DEF SeenInv, Spared
<1>1. CASE ClickOpen \/ (\E m \in {"signin", "signup"} : ClickGate(m))
  BY <1>1 DEF ClickOpen, ClickGate, openModal
<1>2. CASE Close
  BY <1>2 DEF Close
<1>3. ASSUME NEW tab \in {"signin", "signup"}, ClickTab(tab) PROVE SeenInv'
  BY <1>3 DEF ClickTab, Switch
<1>4. CASE \/ ClickHint \/ ClickAnonSignup \/ ClickAnonSignin
           \/ ClickReset \/ ForgotBack \/ ForgotSubmit
  BY <1>4 DEF ClickHint, ClickAnonSignup, ClickAnonSignin, ClickReset,
              ForgotBack, ForgotSubmit, Switch
<1>5. CASE SubmitAnonSignup
  BY <1>5 DEF SubmitAnonSignup, Submittable
<1>6. CASE SubmitGoesOn \/ SubmitSignin
  BY <1>6 DEF SubmitGoesOn, SubmitSignin
<1>7. CASE Registered /\ where = "page"
  BY <1>7 DEF Registered, MessageShown
<1>8. CASE SignedIn \/ ResetSent \/ Refused \/ AnswerLost \/ TimerFires \/ SignOut
  BY <1>8 DEF SignedIn, ResetSent, Refused, AnswerLost, TimerFires, SignOut
<1>9. CASE UNCHANGED vars
  BY <1>9 DEF vars
<1> QED
  BY <1>1, <1>2, <1>3, <1>4, <1>5, <1>6, <1>7, <1>8, <1>9 DEF Next

(* A page load registers one account at most beside those whose answer was *)
(* lost, and shows its ID, with the exceptions that OneSeenAccount names.  *)
THEOREM AlwaysOneSeenAccount == Spec => []OneSeenAccount
<1>1. Init => OnceInv /\ SeenInv
  BY DEF Init, OnceInv, SeenInv, Followed
<1>2. OnceInv /\ SeenInv => OneSeenAccount
  BY DEF OnceInv, SeenInv, OneSeenAccount
<1> QED BY <1>1, <1>2, OnceStep, SeenStep, TypeCorrect, PTL DEF Spec
=============================================================================
