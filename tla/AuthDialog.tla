----------------------------- MODULE AuthDialog -----------------------------
(* The sign-in dialog of the marketing pages: initAuthUI in website/js/    *)
(* auth.js (version 1) and website/js-v2/auth.js (version 2), on one page, *)
(* from its load until the browser leaves it for the dashboard.            *)
(*                                                                         *)
(* Only the form's submit and the reset look at busy: tabs, links, closing *)
(* and opening go on while a request is under way, and what its answer     *)
(* does meets whatever the dialog has become.                              *)
EXTENDS Naturals, FiniteSets

CONSTANTS
  MaxAccounts    \* anonymous accounts one page load may create

ASSUME DialogAssumption == MaxAccounts \in Nat

VARIABLES
  page,      \* version of the script; has the page the elements of forgot
  mode,
  visible,   \* elements on the screen while the dialog is open
  open,      \* the dialog is open
  pending,   \* pendingDashboardRedirect
  request,   \* the request under way ("none": not busy)
  timer,     \* version 1: the dashboard follows in 800 ms
  session,   \* a token is stored
  navUser,   \* the navigation bar shows a user
  created,   \* anonymous accounts created, and those of them whose answer
             \* was lost; anonCreated of version 2
  seen,      \* every ID that was answered was shown or downloaded
  where,     \* "page", or "account" after leaving
  mishaps    \* history

vars == <<page, mode, visible, open, pending, request, timer, session,
          navUser, created, seen, where, mishaps>>

Modes == {"signin", "signup", "anon-signup", "anon-signin", "forgot"}
Anon(m) == m \in {"anon-signup", "anon-signin"}
Elements == {"form", "fields", "password", "tabs", "reset",
             "anonSignup", "anonSignin", "forgot"}

TypeOK ==
  /\ page \in [version : {1, 2}, forgot : BOOLEAN]
  /\ mode \in Modes
  /\ visible \subseteq Elements
  /\ open \in BOOLEAN /\ pending \in BOOLEAN /\ timer \in BOOLEAN
  /\ request \in {"none", "anon-signup", "anon-signin", "email", "reset"}
  /\ session \in BOOLEAN /\ navUser \in BOOLEAN /\ seen \in BOOLEAN
  /\ created \in [count : 0..MaxAccounts, lost : 0..MaxAccounts,
                  anonCreated : BOOLEAN]
  /\ where \in {"page", "account"}
  /\ mishaps \subseteq {"impatient", "closed", "signed_out", "password_gone"}

-----------------------------------------------------------------------------
(* setMode: which elements it shows and hides; it also clears the message. *)
(* The style sheet gives the password's label and the switch hint a        *)
(* display of their own, which beats the hidden attribute: the hint is     *)
(* there in every mode, and only version 2, by style.display, takes the    *)
(* password away, to bring it back by hidden, which does not help.         *)

EmailWithoutFields == {"form", "tabs"}
EmailElements == {"form", "tabs", "fields"}

Links == {"reset", "anonSignup", "anonSignin"}
LinksFor(m) ==
  IF m = "signin" THEN {"reset", "anonSignin"} ELSE {"anonSignup"}

Shown1(m) ==
  CASE m = "anon-signup" -> visible \ ({"fields"} \cup Links)
    [] m = "anon-signin" -> (visible \ Links) \cup {"fields"}
    [] m = "forgot" ->
         (visible \ {"form", "tabs", "anonSignup", "anonSignin"})
           \cup (IF page.forgot THEN {"forgot"} ELSE {})
    [] OTHER -> (visible \ ({"forgot"} \cup Links))
                  \cup EmailElements \cup LinksFor(m)

Shown2(m) ==
  CASE m = "anon-signup" -> visible \ ({"fields"} \cup Links)
    [] m = "anon-signin" ->
         (visible \ ({"password"} \cup Links)) \cup {"fields"}
    [] OTHER -> (visible \ Links) \cup EmailElements \cup LinksFor(m)

setMode(m) ==
  /\ mode' = m
  /\ visible' = IF page.version = 1 THEN Shown1(m) ELSE Shown2(m)

(* The version, and whether ?signin=1 or ?signup=1 opens the dialog: with  *)
(* a user it is closed again, and the last call is setMode('signin').      *)
Init ==
  /\ page \in {[version |-> 1, forgot |-> TRUE],
               [version |-> 1, forgot |-> FALSE],
               [version |-> 2, forgot |-> FALSE]}
  /\ mode = "signin"
  /\ visible = {"form", "tabs", "fields", "password"} \cup LinksFor("signin")
  /\ session \in BOOLEAN
  /\ navUser = session
  /\ open \in {FALSE, ~session}
  /\ pending = FALSE
  /\ request = "none"
  /\ timer = FALSE
  /\ created = [count |-> 0, lost |-> 0, anonCreated |-> FALSE]
  /\ seen = TRUE
  /\ where = "page"
  /\ mishaps = {}

-----------------------------------------------------------------------------
(* Opening and closing.                                                    *)

openModal(m) == setMode(m) /\ open' = TRUE

ClickOpen ==
  /\ ~open /\ ~navUser
  /\ pending' = TRUE
  /\ openModal("signin")
  /\ UNCHANGED <<page, request, timer, session, navUser, created, seen, where,
                 mishaps>>

HasToken == session

(* handleGateClick and the dashboard links.                                *)
ClickGate(m) ==
  /\ ~open
  /\ IF HasToken
     THEN /\ where' = "account"
          /\ UNCHANGED <<mode, visible, open, pending>>
     ELSE /\ pending' = TRUE
          /\ openModal(m)
          /\ UNCHANGED where
  /\ UNCHANGED <<page, request, timer, session, navUser, created, seen,
                 mishaps>>

PendingKept == pending
PendingAfterClose == FALSE

(* The cross, the backdrop, Escape.                                        *)
Close ==
  /\ open
  /\ open' = FALSE
  /\ pending' = PendingAfterClose
  /\ mishaps' = IF request = "anon-signup" THEN mishaps \cup {"closed"}
                ELSE mishaps
  /\ UNCHANGED <<page, mode, visible, request, timer, session, navUser,
                 created, seen, where>>

-----------------------------------------------------------------------------
(* Changing the mode.                                                      *)

Switch(m) ==
  /\ setMode(m)
  /\ UNCHANGED <<page, open, pending, request, timer, session, navUser, seen,
                 where>>

TabModeRaw(tab) == IF Anon(mode) THEN "anon" ELSE tab
TabMode(tab) ==
  IF Anon(mode) THEN (IF tab = "signup" THEN "anon-signup" ELSE "anon-signin")
  ELSE tab

TakesPassword(m) ==
  IF page.version = 2 /\ m = "anon-signin" THEN {"password_gone"} ELSE {}

ClickTab(tab) ==
  /\ open /\ "tabs" \in visible
  /\ Switch(TabMode(tab))
  /\ created' = [created EXCEPT !.anonCreated = FALSE]
  /\ mishaps' = mishaps \cup TakesPassword(TabMode(tab))
                  \cup (IF created.anonCreated THEN {"impatient"} ELSE {})

HintMode ==
  CASE page.version = 2 /\ mode = "anon-signin" -> "anon-signup"
    [] page.version = 2 /\ mode = "anon-signup" -> "anon-signin"
    [] mode = "signin" -> "signup"
    [] OTHER -> "signin"

ClickHint ==
  /\ open
  /\ Switch(HintMode)
  /\ mishaps' = mishaps \cup TakesPassword(HintMode)
  /\ UNCHANGED created

ClickAnonSignup ==
  /\ open /\ "anonSignup" \in visible
  /\ Switch("anon-signup")
  /\ UNCHANGED <<created, mishaps>>

ClickAnonSignin ==
  /\ open /\ "anonSignin" \in visible
  /\ Switch("anon-signin")
  /\ mishaps' = mishaps \cup TakesPassword("anon-signin")
  /\ UNCHANGED created

Busy == request # "none"

(* "Forgot password?" opens a view in version 1, sends in version 2.       *)
ClickReset ==
  /\ open /\ {"form", "reset"} \subseteq visible /\ ~Busy
  /\ IF page.version = 1
     THEN Switch("forgot")
     ELSE /\ request' = "reset"
          /\ UNCHANGED <<page, mode, visible, open, pending, timer, session,
                         navUser, seen, where>>
  /\ UNCHANGED <<created, mishaps>>

ForgotBack ==
  /\ open /\ "forgot" \in visible
  /\ Switch("signin")
  /\ UNCHANGED <<created, mishaps>>

ForgotSubmit ==
  /\ open /\ "forgot" \in visible /\ ~Busy
  /\ request' = "reset"
  /\ UNCHANGED <<page, mode, visible, open, pending, timer, session, navUser,
                 created, seen, where, mishaps>>

-----------------------------------------------------------------------------
(* The form.                                                               *)

GoesOn == mode = "anon-signup" /\ created.anonCreated

Submittable == open /\ "form" \in visible /\ ~Busy

(* Version 2 after the registration: the button leads to the dashboard.    *)
SubmitGoesOn ==
  /\ Submittable /\ GoesOn
  /\ open' = FALSE
  /\ where' = "account"
  /\ UNCHANGED <<page, mode, visible, pending, request, timer, session,
                 navUser, created, seen, mishaps>>

SubmitAnonSignup ==
  /\ Submittable /\ mode = "anon-signup" /\ ~GoesOn
  /\ created.count < MaxAccounts
  /\ request' = "anon-signup"
  /\ mishaps' = IF timer THEN mishaps \cup {"impatient"} ELSE mishaps
  /\ UNCHANGED <<page, mode, visible, open, pending, timer, session, navUser,
                 created, seen, where>>

(* Sign-in by ID, sign-in and sign-up by email.                            *)
SubmitSignin ==
  /\ Submittable
  /\ \/ mode = "anon-signin" /\ "fields" \in visible
        /\ request' = "anon-signin"
     \/ mode \in {"signin", "signup"} /\ {"fields", "password"} \subseteq visible
        /\ request' = "email"
  /\ pending' = TRUE
  /\ UNCHANGED <<page, mode, visible, open, timer, session, navUser, created,
                 seen, where, mishaps>>

-----------------------------------------------------------------------------
(* Answers.                                                                *)

MessageCleared == FALSE
MessageShown == open

(* Version 1 downloads the ID and leaves 800 ms later, version 2 shows it. *)
Registered ==
  /\ request = "anon-signup"
  /\ request' = "none"
  /\ session' = TRUE /\ navUser' = TRUE
  /\ IF page.version = 1
     THEN /\ timer' = TRUE
          /\ created' = [created EXCEPT !.count = @ + 1]
          /\ UNCHANGED <<mode, visible, seen>>
     ELSE /\ setMode("anon-signup")
          /\ created' = [created EXCEPT !.count = @ + 1, !.anonCreated = TRUE]
          /\ seen' = (seen /\ MessageShown)
          /\ UNCHANGED timer
  /\ UNCHANGED <<page, open, pending, where, mishaps>>

(* renderUser closes the dialog and leaves if a redirect is pending.       *)
SignedIn ==
  /\ request \in {"anon-signin", "email"}
  /\ request' = "none"
  /\ session' = TRUE /\ navUser' = TRUE
  /\ open' = FALSE
  /\ pending' = FALSE
  /\ where' = IF pending THEN "account" ELSE where
  /\ UNCHANGED <<page, mode, visible, timer, created, seen, mishaps>>

ResetSent ==
  /\ request = "reset"
  /\ request' = "none"
  /\ UNCHANGED <<page, mode, visible, open, pending, timer, session, navUser,
                 created, seen, where, mishaps>>

Refused ==
  /\ Busy
  /\ request' = "none"
  /\ pending' = IF request \in {"anon-signin", "email"} THEN FALSE ELSE pending
  /\ UNCHANGED <<page, mode, visible, open, timer, session, navUser, created,
                 seen, where, mishaps>>

(* auth-svc made the account and the answer is lost: the page reports an   *)
(* error and the form can be sent again.  A lost answer to a sign-in or to *)
(* an email registration leaves nothing the user would not know.           *)
AnswerLost ==
  /\ request = "anon-signup"
  /\ request' = "none"
  /\ created' = [created EXCEPT !.count = @ + 1, !.lost = @ + 1]
  /\ UNCHANGED <<page, mode, visible, open, pending, timer, session, navUser,
                 seen, where, mishaps>>

TimerFires ==
  /\ timer
  /\ timer' = FALSE
  /\ open' = FALSE
  /\ where' = "account"
  /\ UNCHANGED <<page, mode, visible, pending, request, session, navUser,
                 created, seen, mishaps>>

SignOut ==
  /\ ~open /\ navUser
  /\ session' = FALSE /\ navUser' = FALSE
  /\ pending' = FALSE
  /\ mishaps' = IF timer \/ created.anonCreated
                THEN mishaps \cup {"signed_out"} ELSE mishaps
  /\ UNCHANGED <<page, mode, visible, open, request, timer, created, seen,
                 where>>

-----------------------------------------------------------------------------

Next ==
  /\ where = "page"
  /\ \/ ClickOpen \/ Close
     \/ \E m \in {"signin", "signup"} : ClickGate(m) \/ ClickTab(m)
     \/ ClickHint \/ ClickAnonSignup \/ ClickAnonSignin
     \/ ClickReset \/ ForgotBack \/ ForgotSubmit
     \/ SubmitGoesOn \/ SubmitAnonSignup \/ SubmitSignin
     \/ Registered \/ SignedIn \/ ResetSent \/ Refused \/ AnswerLost
     \/ TimerFires \/ SignOut

Spec == Init /\ [][Next]_vars

-----------------------------------------------------------------------------
(* Properties.                                                             *)

Spared(causes) == mishaps \cap causes = {}

(* The open dialog has the fields that its form's submit reads, whatever   *)
(* modes it went through, except in version 2 once the password was taken  *)
(* away, and in mode forgot on pages without that view.                    *)
FormFits ==
  open =>
    CASE mode \in {"signin", "signup"} ->
           {"form", "fields"} \cup
           (IF Spared({"password_gone"}) THEN {"password"} ELSE {})
             \subseteq visible
      [] mode = "anon-signin" -> {"form", "fields"} \subseteq visible
      [] mode = "anon-signup" -> "form" \in visible /\ "fields" \notin visible
      [] mode = "forgot" ->
           "form" \notin visible /\ (page.forgot => "forgot" \in visible)

(* One page load registers one anonymous account beside those whose answer *)
(* was lost (nobody knows their ID), unless the user submits again in the  *)
(* 800 ms before version 1 leaves, or goes back to the form by a tab in    *)
(* version 2; and the ID of the account was on the screen or downloaded    *)
(* ("Copy it now - no way to recover it", js-v2/auth.js:511), unless the   *)
(* dialog was closed while the request was under way.                      *)
OneSeenAccount ==
  /\ Spared({"impatient"}) => created.count <= created.lost + 1
  /\ Spared({"closed"}) => seen

(* The page is left for the dashboard only with a session, unless the user *)
(* signs out in the 800 ms, or in version 2 after a registration, whose    *)
(* form still leads to the dashboard.  A redirect is pending only as long  *)
(* as the dialog is open: a cancelled one sends no later sign-in away.     *)
LeavesSignedIn ==
  /\ where = "account" /\ Spared({"signed_out"}) => session
  /\ where = "page" /\ pending => open
=============================================================================
