----------------------------- MODULE WebSessions -----------------------------
(* The session of the website (website/js/auth.js, the same code in        *)
(* website/js-v2/auth.js): localStorage shared by pages that are open in   *)
(* several tabs, the calls they make (website/js/billing.js, website/      *)
(* account/js/account-app.js), and auth-svc's rotation of refresh tokens.  *)
(*                                                                         *)
(* A page's code up to its next await is one step.  No page listens to     *)
(* storage events, and each caches the user it found when it was loaded.   *)
EXTENDS Naturals, Sequences, FiniteSets, TLC

CONSTANTS
  Accounts,
  Pages,         \* open tabs
  Calls,         \* calls that may be under way at the same time
  MaxTokens,     \* refresh tokens issued
  Faults,        \* kinds of failures that happen in this instance
  MishapLimit,   \* how many kinds of mishaps happen in a behaviour
  None

FaultKinds == {"network", "delete_error"}

ASSUME WebAssumption ==
  /\ MaxTokens \in Nat /\ MishapLimit \in Nat
  /\ Faults \subseteq FaultKinds
  /\ None \notin Accounts

VARIABLES
  stored,   \* localStorage: user, access token's account, is it about to run
            \* out, refresh token (0 if there is none)
  pages,    \* a page's view, the user and the plan it shows
  calls,    \* calls: pc, page, kind, refresh token or access token in use
  issued,   \* auth-svc: refresh tokens in the order of their issue, each with
            \* its account and the sign-in it descends from
  live,     \* those that are in the refresh_tokens table
  mishaps   \* history: failures, and what was done in an unusual order

vars == <<stored, pages, calls, issued, live, mishaps>>

TokenIds == 1..MaxTokens
Views == {"closed", "home", "account", "blank"}
Kinds == {"status", "cancel", "checkout"}
Mishaps == FaultKinds \cup {"overlap", "left", "switched"}

NoSession == [user |-> None, access |-> None, soon |-> FALSE, refresh |-> 0]
Page(view, user) == [view |-> view, shown |-> user, plan |-> None]
IdleCall == [pc |-> "idle", page |-> None, kind |-> "status", refresh |-> 0,
             access |-> None]

TypeOK ==
  /\ stored \in [user : Accounts \cup {None}, access : Accounts \cup {None},
                 soon : BOOLEAN, refresh : 0..MaxTokens]
  /\ pages \in [Pages -> [view : Views, shown : Accounts \cup {None},
                          plan : Accounts \cup {None}]]
  /\ calls \in [Calls -> [pc : {"idle", "refreshing", "rotating", "refreshed",
                                "refused", "calling"},
                          page : Pages \cup {None}, kind : Kinds,
                          refresh : 0..MaxTokens,
                          access : Accounts \cup {None}]]
  /\ issued \in Seq([account : Accounts, line : TokenIds])
  /\ live \subseteq 1..Len(issued)
  /\ mishaps \subseteq Mishaps

Init ==
  /\ stored = NoSession
  /\ pages = [p \in Pages |-> Page("closed", None)]
  /\ calls = [c \in Calls |-> IdleCall]
  /\ issued = << >>
  /\ live = {}
  /\ mishaps = {}

If(condition, kind) == IF condition THEN {kind} ELSE {}
Note(kinds) ==
  /\ mishaps' = mishaps \cup kinds
  /\ Cardinality(mishaps') <= MishapLimit

Fault(kind) == kind \in Faults /\ Note({kind})

-----------------------------------------------------------------------------
(* getIdToken up to its await: what the call does next, given the session. *)

CanRefresh(session) == session.soon /\ session.refresh # 0

TokenStep(page, kind, session) ==
  IF session.access = None THEN IdleCall
  ELSE IF CanRefresh(session)
  THEN [IdleCall EXCEPT !.pc = "refreshing", !.page = page, !.kind = kind,
                        !.refresh = session.refresh]
  ELSE [IdleCall EXCEPT !.pc = "calling", !.page = page, !.kind = kind,
                        !.access = session.access]

(* Another call is in the middle of a refresh with the same token.         *)
Overlapping(c) ==
  \E d \in Calls \ {c} : /\ calls[d].pc \notin {"idle", "calling"}
                         /\ calls[d].refresh = stored.refresh

NoteOverlap(c) ==
  Note(If(stored.soon /\ Overlapping(c), "overlap"))

-----------------------------------------------------------------------------
(* Pages.                                                                  *)

CallsSurvive(p) == {}
CallsOf(p) == {c \in Calls : calls[c].page = p}
Unanswered(c) == calls[c].pc \in {"refreshing", "rotating"}

(* The page is left and its calls die with it; auth-svc may still handle   *)
(* the refresh that was sent, whose new token nobody then has.             *)
Left(p, noted, new) ==
  /\ \E sent \in SUBSET {calls[c].refresh :
                           c \in {d \in CallsOf(p) : Unanswered(d)}} :
       live' = (live \ sent) \cup new
  /\ Note(noted \cup If(\E c \in CallsOf(p) :
                          calls[c].pc \in {"refreshing", "rotating",
                                           "refreshed"}, "left"))

(* A page that finds a user shows it and asks for the billing status.  The *)
(* account page that finds none waits for a callback that never comes.     *)
Opened(p, view, session) ==
  IF session.user # None
  THEN /\ pages' = [pages EXCEPT ![p] = Page(view, session.user)]
       /\ \E c \in Calls :
            /\ calls[c].pc = "idle" \/ c \in CallsOf(p)
            /\ calls' = [d \in Calls |->
                 IF d = c THEN TokenStep(p, "status", session)
                 ELSE IF d \in CallsOf(p) THEN IdleCall
                 ELSE calls[d]]
  ELSE /\ pages' = [pages EXCEPT ![p] =
            Page(IF view = "account" THEN "blank" ELSE view, None)]
       /\ calls' = [c \in Calls |->
            IF c \in CallsOf(p) THEN IdleCall ELSE calls[c]]

OpenPage(p, view) ==
  /\ view \in {"home", "account"}
  /\ Opened(p, view, stored)
  /\ Left(p, If(/\ stored.soon
                /\ \E c \in Calls \ CallsOf(p) : /\ Unanswered(c)
                                                /\ calls[c].refresh
                                                     = stored.refresh,
                "overlap"), {})
  /\ UNCHANGED <<stored, issued>>

(* The dialog of a marketing page has its answer: setSession, and on to    *)
(* the dashboard.                                                          *)
setSession(user, access, refresh) ==
  [user |-> user, access |-> access, soon |-> FALSE, refresh |-> refresh]

OthersUse(p, a) ==
  \/ \E q \in Pages \ {p} : pages[q].shown \notin {None, a}
  \/ \E c \in Calls : /\ calls[c].refresh # 0
                      /\ issued[calls[c].refresh].account # a

SignIn(p, a) ==
  /\ pages[p].view = "home" /\ pages[p].shown = None
  /\ Len(issued) < MaxTokens
  /\ LET new == Len(issued) + 1 IN
       /\ issued' = Append(issued, [account |-> a, line |-> new])
       /\ stored' = setSession(a, a, new)
       /\ Opened(p, "account", stored')
       /\ Left(p, If(OthersUse(p, a), "switched"), {new})

(* From the account page the user lands on the home page.                  *)
SignOut(p) ==
  /\ pages[p].shown # None
  /\ stored' = NoSession
  /\ IF pages[p].view = "account"
     THEN Opened(p, "home", NoSession) /\ Left(p, {}, {})
     ELSE /\ pages' = [pages EXCEPT ![p] = Page("home", None)]
          /\ UNCHANGED <<calls, live, mishaps>>
  /\ UNCHANGED issued

(* Cancel on the account page, checkout on either.                         *)
Act(p, c, kind) ==
  /\ \/ pages[p].view = "account" /\ kind \in {"cancel", "checkout"}
     \/ pages[p].view = "home" /\ kind = "checkout"
  /\ calls[c].pc = "idle"
  /\ stored.access # None
  /\ calls' = [calls EXCEPT ![c] = TokenStep(p, kind, stored)]
  /\ NoteOverlap(c)
  /\ UNCHANGED <<stored, pages, issued, live>>

(* Time passes: less than a minute is left of the access token.            *)
TokenAges ==
  /\ stored.access # None /\ ~stored.soon
  /\ Len(issued) < MaxTokens
  /\ stored' = [stored EXCEPT !.soon = TRUE]
  /\ UNCHANGED <<pages, calls, issued, live, mishaps>>

-----------------------------------------------------------------------------
(* auth-svc: RefreshToken reads the token, then deletes it with the result *)
(* ignored, then stores the next one.                                      *)

To(c, pc) == calls' = [calls EXCEPT ![c].pc = pc]

ReadToken(c) ==
  /\ calls[c].pc = "refreshing"
  /\ To(c, IF calls[c].refresh \in live THEN "rotating" ELSE "refused")
  /\ UNCHANGED <<stored, pages, issued, live, mishaps>>

Deleted(token) == live \ {token}

RotateToken(c) ==
  /\ calls[c].pc = "rotating"
  /\ Len(issued) < MaxTokens
  /\ LET old == calls[c].refresh
         new == Len(issued) + 1 IN
       /\ issued' = Append(issued, issued[old])
       /\ \/ live' = Deleted(old) \cup {new} /\ UNCHANGED mishaps
          \/ Fault("delete_error") /\ live' = live \cup {new}
       /\ calls' = [calls EXCEPT ![c].pc = "refreshed", ![c].refresh = new]
  /\ UNCHANGED <<stored, pages>>

(* auth-svc fails after the delete, or the request or its answer is lost.  *)
RefreshFails(c) ==
  /\ calls[c].pc \in {"refreshing", "rotating", "refreshed"}
  /\ Fault("network")
  /\ live' \in {live, Deleted(calls[c].refresh)}
  /\ To(c, "refused")
  /\ UNCHANGED <<stored, pages, issued>>

-----------------------------------------------------------------------------
(* refreshTokenSilently after its await.                                   *)

RefreshKept(a, refresh) == setSession(stored.user, a, stored.refresh)
RefreshRaw(a, refresh) == setSession(stored.user, "undefined", refresh)
RefreshAnyway(a, refresh) == setSession(stored.user, a, refresh)

(* The tokens are kept only if somebody is still signed in.                *)
Refreshed(a, refresh) ==
  IF stored.user = None THEN stored ELSE setSession(stored.user, a, refresh)

RefreshAnswered(c) ==
  /\ calls[c].pc = "refreshed"
  /\ LET p == calls[c].page
         token == calls[c].refresh IN
       /\ stored' = Refreshed(issued[token].account, token)
       /\ calls' = [calls EXCEPT ![c] =
            TokenStep(p, calls[c].kind, [stored' EXCEPT !.soon = FALSE])]
  /\ UNCHANGED <<pages, issued, live, mishaps>>

(* clearSession, then the listeners: the account page goes to the home     *)
(* page, other pages have no listener.                                     *)
RefreshRefused(c) ==
  /\ calls[c].pc = "refused"
  /\ stored' = NoSession
  /\ LET p == calls[c].page IN
       IF pages[p].view = "account"
       THEN Opened(p, "home", NoSession) /\ Left(p, {}, {})
       ELSE /\ calls' = [calls EXCEPT ![c] = IdleCall]
            /\ UNCHANGED <<pages, live, mishaps>>
  /\ UNCHANGED issued

-----------------------------------------------------------------------------
(* billing-svc answers for the account of the access token.  After a       *)
(* cancellation the page asks for the status again.                        *)

BillingAnswered(c) ==
  /\ calls[c].pc = "calling"
  /\ LET call == calls[c] IN
       CASE call.kind = "status" ->
              /\ pages' = [pages EXCEPT ![call.page].plan = call.access]
              /\ calls' = [calls EXCEPT ![c] = IdleCall]
              /\ UNCHANGED mishaps
         [] call.kind = "cancel" ->
              /\ calls' = [calls EXCEPT ![c] =
                             TokenStep(call.page, "status", stored)]
              /\ NoteOverlap(c)
              /\ UNCHANGED pages
         [] OTHER ->
              /\ calls' = [calls EXCEPT ![c] = IdleCall]
              /\ UNCHANGED <<pages, mishaps>>
  /\ UNCHANGED <<stored, issued, live>>

BillingFails(c) ==
  /\ calls[c].pc = "calling"
  /\ pages' = IF calls[c].kind = "status"
              THEN [pages EXCEPT ![calls[c].page].plan = None] ELSE pages
  /\ calls' = [calls EXCEPT ![c] = IdleCall]
  /\ UNCHANGED <<stored, issued, live, mishaps>>

-----------------------------------------------------------------------------

CallStep(c) ==
  \/ ReadToken(c) \/ RotateToken(c) \/ RefreshFails(c)
  \/ RefreshAnswered(c) \/ RefreshRefused(c)
  \/ BillingAnswered(c) \/ BillingFails(c)

Next ==
  \/ \E p \in Pages, view \in {"home", "account"} : OpenPage(p, view)
  \/ \E p \in Pages, a \in Accounts : SignIn(p, a)
  \/ \E p \in Pages : SignOut(p)
  \/ \E p \in Pages, c \in Calls, kind \in Kinds : Act(p, c, kind)
  \/ TokenAges
  \/ \E c \in Calls : CallStep(c)

Spec == Init /\ [][Next]_vars

-----------------------------------------------------------------------------
(* Properties.                                                             *)

Spared(causes) == mishaps \cap causes = {}

(* What localStorage holds is one session of one account, signed out or    *)
(* not, unless another account was signed in while a page had the former   *)
(* one.                                                                    *)
SessionIsOneAccount ==
  Spared({"switched"}) =>
    /\ stored.access = stored.user
    /\ stored.user = None <=> stored.refresh = 0
    /\ stored.refresh # 0 => issued[stored.refresh].account = stored.user

(* The stored refresh token is one auth-svc still takes, or its successor  *)
(* is on the way to the page: nobody is signed out by a refresh, except by *)
(* a failure, by two calls that refresh with the same token, or by leaving *)
(* a page in the middle of a refresh.  And a sign-in has one such token,   *)
(* however often it was refreshed, unless a token was used twice at once   *)
(* or not deleted.                                                         *)
OneLiveToken ==
  /\ stored.refresh # 0 /\ Spared({"network", "overlap", "left"}) =>
       \/ stored.refresh \in live
       \/ \E c \in Calls : /\ calls[c].pc = "refreshed"
                           /\ issued[calls[c].refresh].line
                                = issued[stored.refresh].line
  /\ Spared({"overlap", "delete_error", "left"}) =>
       \A m, n \in live : issued[m].line = issued[n].line => m = n

(* What an account page shows and asks for is its own account's: the plan  *)
(* it displays and the account it cancels or pays for, unless another tab  *)
(* signed in another account.                                              *)
PageActsForItsUser ==
  Spared({"switched"}) =>
    /\ \A p \in Pages :
         pages[p].view = "account" => pages[p].plan \in {None, pages[p].shown}
    /\ \A c \in Calls :
         calls[c].pc = "calling" /\ pages[calls[c].page].view = "account"
         => calls[c].access = pages[calls[c].page].shown
=============================================================================
