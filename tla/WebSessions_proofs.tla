------------------------- MODULE WebSessions_proofs -------------------------
(***************************************************************************)
(* Proofs about WebSessions for any accounts, tabs, calls and failures:    *)
(* localStorage holds the session of one account, and an account page acts *)
(* for the account it shows, unless another tab switched accounts; and a   *)
(* sign-in has one refresh token that auth-svc takes, which is the stored  *)
(* one or on its way, short of the mishaps that OneLiveToken names.        *)
(***************************************************************************)
EXTENDS WebSessions, TLAPS

-----------------------------------------------------------------------------
(* Types.                                                                  *)

Sessions == [user : Accounts \cup {None}, access : Accounts \cup {None},
             soon : BOOLEAN, refresh : 0..MaxTokens]
PageRecords == [view : Views, shown : Accounts \cup {None},
                plan : Accounts \cup {None}]
CallRecords == [pc : {"idle", "refreshing", "rotating", "refreshed",
                      "refused", "calling"},
                page : Pages \cup {None}, kind : Kinds,
                refresh : 0..MaxTokens, access : Accounts \cup {None}]
Tokens == [account : Accounts, line : TokenIds]

(* A refresh token somebody has was issued, and a call under way belongs   *)
(* to a page.                                                              *)
SessionOK == stored \in Sessions /\ stored.refresh <= Len(issued)

CallOK(call, n) ==
  /\ call \in CallRecords /\ call.refresh <= n
  /\ call.pc # "idle" => call.page \in Pages
  /\ call.pc \in {"refreshing", "rotating", "refreshed"} => call.refresh # 0
  /\ call.pc = "calling" => call.access \in Accounts

TypeInv ==
  /\ SessionOK
  /\ pages \in [Pages -> PageRecords]
  /\ DOMAIN calls = Calls /\ calls = [c \in Calls |-> calls[c]]
  /\ \A c \in Calls : CallOK(calls[c], Len(issued))
  /\ issued \in Seq(Tokens) /\ Len(issued) <= MaxTokens
  /\ live \subseteq 1..Len(issued)
  /\ mishaps \subseteq Mishaps

LEMMA TypeInvIsTypeOK == TypeInv => TypeOK
BY DEF TypeInv, TypeOK, SessionOK, Sessions, PageRecords, CallOK, CallRecords, Tokens

(* A call that has nothing to do, and what getIdToken makes of a session.  *)
LEMMA IdleOK == ASSUME NEW n \in Nat PROVE CallOK(IdleCall, n)
BY WebAssumption DEF CallOK, CallRecords, IdleCall, Kinds

LEMMA StepOK ==
  ASSUME NEW page \in Pages, NEW kind \in Kinds, NEW session \in Sessions,
         NEW n \in Nat, session.refresh <= n
  PROVE  CallOK(TokenStep(page, kind, session), n)
<1>1. CASE session.access = None BY <1>1, IdleOK DEF TokenStep
<1>2. CASE session.access # None /\ CanRefresh(session)
  <2>1. TokenStep(page, kind, session) =
          [pc |-> "refreshing", page |-> page, kind |-> kind,
           refresh |-> session.refresh, access |-> None]
    BY <1>2 DEF TokenStep, IdleCall
  <2> QED BY <1>2, <2>1 DEF CallOK, CallRecords, Sessions, CanRefresh
<1>3. CASE session.access # None /\ ~CanRefresh(session)
  <2>1. TokenStep(page, kind, session) =
          [pc |-> "calling", page |-> page, kind |-> kind,
           refresh |-> 0, access |-> session.access]
    BY <1>3 DEF TokenStep, IdleCall
  <2> QED BY <1>3, <2>1, WebAssumption DEF CallOK, CallRecords, Sessions
<1> QED BY <1>1, <1>2, <1>3

LEMMA LongerOK ==
  ASSUME NEW m \in Nat, NEW n \in Nat, m <= n, NEW call, CallOK(call, m)
  PROVE  CallOK(call, n)
BY WebAssumption DEF CallOK, CallRecords

LEMMA Lengths == ASSUME TypeInv PROVE Len(issued) \in Nat /\ issued \in Seq(Tokens)
BY DEF TypeInv

(* A page that is loaded: no call of another page is touched.              *)
LEMMA OpenedType ==
  ASSUME TypeInv, NEW p \in Pages, NEW view \in {"home", "account"},
         NEW n \in Nat, Len(issued) <= n,
         NEW session \in Sessions, session.refresh <= n, Opened(p, view, session)
  PROVE  /\ pages' \in [Pages -> PageRecords]
         /\ DOMAIN calls' = Calls /\ calls' = [c \in Calls |-> calls'[c]]
         /\ \A c \in Calls : CallOK(calls'[c], n)
         /\ \A c \in Calls : \/ calls'[c] = IdleCall
                             \/ calls'[c] = TokenStep(p, "status", session)
                                /\ session.user # None
                             \/ c \notin CallsOf(p) /\ calls'[c] = calls[c]
         /\ \A q \in Pages \ {p} : pages'[q] = pages[q]
         /\ pages'[p].shown = session.user /\ pages'[p].plan = None
         /\ pages'[p].view = "account" => session.user # None
<1>1. /\ CallOK(IdleCall, n) /\ CallOK(TokenStep(p, "status", session), n)
      /\ \A c \in Calls : CallOK(calls[c], n)
  BY IdleOK, StepOK, LongerOK, Lengths DEF TypeInv, Kinds
<1>2. CASE session.user # None
  <2>1. /\ pages' = [pages EXCEPT ![p] = Page(view, session.user)]
        /\ \E c \in Calls :
             calls' = [d \in Calls |->
                         IF d = c THEN TokenStep(p, "status", session)
                         ELSE IF d \in CallsOf(p) THEN IdleCall
                         ELSE calls[d]]
    BY <1>2, Zenon DEF Opened
  <2>2. Page(view, session.user) = [view |-> view, shown |-> session.user, plan |-> None]
        /\ Page(view, session.user) \in PageRecords
    BY DEF Page, PageRecords, Views, Sessions
  <2>3. /\ pages' \in [Pages -> PageRecords]
        /\ \A q \in Pages \ {p} : pages'[q] = pages[q]
        /\ pages'[p] = Page(view, session.user)
    BY <2>1, <2>2 DEF TypeInv
  <2> QED BY <1>1, <1>2, <2>1, <2>2, <2>3
<1>3. CASE session.user = None
  <2>1. /\ pages' = [pages EXCEPT ![p] = Page(IF view = "account" THEN "blank" ELSE view, None)]
        /\ calls' = [c \in Calls |-> IF c \in CallsOf(p) THEN IdleCall ELSE calls[c]]
    BY <1>3, Zenon DEF Opened
  <2>2. PICK v \in {"home", "blank"} : pages' = [pages EXCEPT ![p] = Page(v, None)]
    BY <2>1
  <2>3. Page(v, None) = [view |-> v, shown |-> None, plan |-> None]
        /\ Page(v, None) \in PageRecords
    BY DEF Page, PageRecords, Views
  <2>4. /\ pages' \in [Pages -> PageRecords]
        /\ \A q \in Pages \ {p} : pages'[q] = pages[q]
        /\ pages'[p] = Page(v, None)
    BY <2>2, <2>3 DEF TypeInv
  <2> QED BY <1>1, <1>3, <2>1, <2>3, <2>4
<1> QED BY <1>2, <1>3

LEMMA LeftType ==
  ASSUME TypeInv, NEW p \in Pages, NEW noted \in SUBSET {"overlap", "switched"}, NEW new,
         Left(p, noted, new)
  PROVE  /\ live' \subseteq live \cup new /\ mishaps' \subseteq Mishaps
         /\ mishaps \cup noted \subseteq mishaps'
BY DEF Left, Note, If, TypeInv, Mishaps

(* Nothing but the calls, the pages' plans and the mishaps change.         *)
LEMMA CallsType ==
  ASSUME TypeInv, NEW c \in Calls, NEW call, CallOK(call, Len(issued)),
         calls' = [calls EXCEPT ![c] = call]
  PROVE  /\ DOMAIN calls' = Calls /\ calls' = [d \in Calls |-> calls'[d]]
         /\ \A d \in Calls : CallOK(calls'[d], Len(issued))
BY DEF TypeInv

LEMMA TypeInit == Init => TypeInv
<1> SUFFICES ASSUME Init PROVE TypeInv OBVIOUS
<1>1. SessionOK BY WebAssumption DEF Init, NoSession, SessionOK, Sessions
<1>2. pages \in [Pages -> PageRecords] BY DEF Init, Page, PageRecords, Views
<1>3. Len(issued) = 0 /\ issued \in Seq(Tokens) BY DEF Init
<1>4. CallOK(IdleCall, Len(issued)) BY <1>3, IdleOK
<1> QED BY <1>1, <1>2, <1>3, <1>4, WebAssumption DEF Init, TypeInv

LEMMA NoSessionOK == NoSession \in Sessions /\ NoSession.refresh = 0
BY WebAssumption DEF NoSession, Sessions

(* Steps that change calls, mishaps and which tokens are live, but neither *)
(* the session nor the tokens.                                             *)
LEMMA TypeOfCalls ==
  ASSUME TypeInv, NEW c \in Calls, NEW call, CallOK(call, Len(issued)),
         calls' = [calls EXCEPT ![c] = call],
         UNCHANGED <<stored, issued>>, pages' \in [Pages -> PageRecords],
         live' \subseteq live, mishaps' \subseteq Mishaps
  PROVE  TypeInv'
<1>1. /\ DOMAIN calls' = Calls /\ calls' = [d \in Calls |-> calls'[d]]
      /\ \A d \in Calls : CallOK(calls'[d], Len(issued'))
  BY CallsType
<1>2. SessionOK' BY DEF TypeInv, SessionOK
<1> QED BY <1>1, <1>2 DEF TypeInv

LEMMA MovedOK ==
  ASSUME TypeInv, NEW c \in Calls,
         NEW pc \in {"rotating", "refused"}, calls[c].pc \in {"refreshing", "rotating", "refreshed"}
  PROVE  CallOK([calls[c] EXCEPT !.pc = pc], Len(issued))
BY DEF TypeInv, CallOK, CallRecords

LEMMA SetSessionOK ==
  ASSUME NEW user \in Accounts \cup {None}, NEW access \in Accounts \cup {None},
         NEW refresh \in 0..MaxTokens
  PROVE  /\ setSession(user, access, refresh) \in Sessions
         /\ setSession(user, access, refresh).refresh = refresh
BY DEF setSession, Sessions

LEMMA NotedType == ASSUME TypeInv, NEW kinds \in SUBSET Mishaps, Note(kinds)
                   PROVE  mishaps' \subseteq Mishaps
BY DEF Note, TypeInv

LEMMA OpenPageType ==
  ASSUME TypeInv, NEW p \in Pages, NEW view \in {"home", "account"}, OpenPage(p, view)
  PROVE  TypeInv'
<1>1. /\ Opened(p, view, stored) /\ stored \in Sessions /\ stored.refresh <= Len(issued)
      /\ UNCHANGED <<stored, issued>>
  BY DEF OpenPage, TypeInv, SessionOK
<1>2. PICK noted \in SUBSET {"overlap", "switched"} : Left(p, noted, {})
  BY DEF OpenPage, If
<1>3. live' \subseteq live \cup {} /\ mishaps' \subseteq Mishaps BY <1>2, LeftType
<1>4. /\ pages' \in [Pages -> PageRecords]
      /\ DOMAIN calls' = Calls /\ calls' = [c \in Calls |-> calls'[c]]
      /\ \A c \in Calls : CallOK(calls'[c], Len(issued))
  BY <1>1, OpenedType, Lengths
<1> QED BY <1>1, <1>3, <1>4 DEF TypeInv, SessionOK

(* The session a sign-in stores, and the token that comes with it.         *)
LEMMA SignInFacts ==
  ASSUME TypeInv, NEW p \in Pages, NEW a \in Accounts, SignIn(p, a)
  PROVE  LET n == Len(issued) + 1 IN
         /\ n \in 1..MaxTokens /\ issued' \in Seq(Tokens) /\ Len(issued') = n
         /\ issued'[n].account = a
         /\ \A i \in 1..Len(issued) : issued'[i] = issued[i]
         /\ stored' = [user |-> a, access |-> a, soon |-> FALSE, refresh |-> n]
         /\ stored' \in Sessions /\ stored'.refresh = n
         /\ Opened(p, "account", stored')
         /\ Left(p, If(OthersUse(p, a), "switched"), {n})
<1>1. Len(issued) + 1 \in 1..MaxTokens /\ issued \in Seq(Tokens)
  BY WebAssumption DEF SignIn, TypeInv
<1>2. [account |-> a, line |-> Len(issued) + 1] \in Tokens
  BY <1>1 DEF Tokens, TokenIds
<1>3. issued' = Append(issued, [account |-> a, line |-> Len(issued) + 1])
  BY DEF SignIn
<1>4. /\ issued' \in Seq(Tokens) /\ Len(issued') = Len(issued) + 1
      /\ issued'[Len(issued) + 1] = [account |-> a, line |-> Len(issued) + 1]
      /\ \A i \in 1..Len(issued) : issued'[i] = issued[i]
  BY <1>1, <1>2, <1>3
<1>5. stored' = setSession(a, a, Len(issued) + 1)
      /\ Opened(p, "account", stored')
      /\ Left(p, If(OthersUse(p, a), "switched"), {Len(issued) + 1})
  BY Zenon DEF SignIn
<1>6. stored' = [user |-> a, access |-> a, soon |-> FALSE, refresh |-> Len(issued) + 1]
  BY <1>5 DEF setSession
<1>7. stored' \in Sessions /\ stored'.refresh = Len(issued) + 1
  BY <1>1, <1>6 DEF Sessions
<1>8. issued'[Len(issued) + 1].account = a BY <1>4
<1> QED BY <1>1, <1>4, <1>5, <1>6, <1>7, <1>8

LEMMA SignInType ==
  ASSUME TypeInv, NEW p \in Pages, NEW a \in Accounts, SignIn(p, a) PROVE TypeInv'
<1> DEFINE n == Len(issued) + 1
<1>1. /\ n \in 1..MaxTokens /\ issued' \in Seq(Tokens) /\ Len(issued') = n
      /\ stored' \in Sessions /\ stored'.refresh = n
      /\ Opened(p, "account", stored')
      /\ Left(p, If(OthersUse(p, a), "switched"), {n})
  BY SignInFacts
<1>2. If(OthersUse(p, a), "switched") \in SUBSET {"overlap", "switched"} BY DEF If
<1>3. live' \subseteq live \cup {n} /\ mishaps' \subseteq Mishaps BY <1>1, <1>2, LeftType
<1>4. Len(issued) \in Nat /\ n \in Nat /\ Len(issued) <= n /\ live \subseteq 1..Len(issued)
  BY Lengths DEF TypeInv
<1>5. live' \subseteq 1..n BY <1>3, <1>4
<1>6. stored'.refresh <= n BY <1>1, <1>4
<1> HIDE DEF n
<1>7. /\ pages' \in [Pages -> PageRecords]
      /\ DOMAIN calls' = Calls /\ calls' = [c \in Calls |-> calls'[c]]
      /\ \A c \in Calls : CallOK(calls'[c], n)
  BY <1>1, <1>4, <1>6, OpenedType
<1>8. n <= MaxTokens BY <1>1, WebAssumption
<1>9. SessionOK' BY <1>1, <1>6 DEF SessionOK
<1> QED BY <1>1, <1>3, <1>5, <1>7, <1>8, <1>9 DEF TypeInv

(* A page signs out, by itself or because its refresh was refused.         *)
LEMMA ToHomeType ==
  ASSUME TypeInv, NEW p \in Pages, stored' = NoSession, UNCHANGED issued,
         Opened(p, "home", NoSession), Left(p, {}, {})
  PROVE  TypeInv'
<1>1. /\ NoSession \in Sessions /\ NoSession.refresh <= Len(issued) /\ Len(issued) \in Nat
  BY NoSessionOK, Lengths
<1>2. live' \subseteq live \cup {} /\ mishaps' \subseteq Mishaps BY LeftType
<1>3. /\ pages' \in [Pages -> PageRecords]
      /\ DOMAIN calls' = Calls /\ calls' = [c \in Calls |-> calls'[c]]
      /\ \A c \in Calls : CallOK(calls'[c], Len(issued))
  BY <1>1, OpenedType
<1>4. SessionOK' BY <1>1 DEF SessionOK
<1> QED BY <1>2, <1>3, <1>4 DEF TypeInv

LEMMA SignOutType ==
  ASSUME TypeInv, NEW p \in Pages, SignOut(p) PROVE TypeInv'
<1>1. stored' = NoSession /\ UNCHANGED issued BY DEF SignOut
<1>2. CASE pages[p].view = "account" BY <1>1, <1>2, ToHomeType DEF SignOut
<1>3. CASE pages[p].view # "account"
  <2>1. /\ pages' = [pages EXCEPT ![p] = Page("home", None)]
        /\ UNCHANGED <<calls, live, mishaps>>
    BY <1>3 DEF SignOut
  <2>2. Page("home", None) \in PageRecords BY DEF Page, PageRecords, Views
  <2>3. SessionOK' BY <1>1, NoSessionOK, Lengths DEF SessionOK
  <2> QED BY <1>1, <2>1, <2>2, <2>3 DEF TypeInv
<1> QED BY <1>2, <1>3

LEMMA ActType ==
  ASSUME TypeInv, NEW p \in Pages, NEW c \in Calls, NEW kind \in Kinds, Act(p, c, kind)
  PROVE  TypeInv'
<1>1. /\ calls' = [calls EXCEPT ![c] = TokenStep(p, kind, stored)]
      /\ NoteOverlap(c) /\ UNCHANGED <<stored, pages, issued, live>>
  BY DEF Act
<1>2. CallOK(TokenStep(p, kind, stored), Len(issued))
  BY StepOK, Lengths DEF TypeInv, SessionOK
<1>3. mishaps' \subseteq Mishaps
  BY <1>1, NotedType DEF NoteOverlap, If, Mishaps
<1>4. pages' \in [Pages -> PageRecords] BY <1>1 DEF TypeInv
<1> QED BY <1>1, <1>2, <1>3, <1>4, TypeOfCalls

LEMMA TokenAgesType == ASSUME TypeInv, TokenAges PROVE TypeInv'
BY DEF TokenAges, TypeInv, SessionOK, Sessions

LEMMA ReadTokenType == ASSUME TypeInv, NEW c \in Calls, ReadToken(c) PROVE TypeInv'
<1>1. PICK pc \in {"rotating", "refused"} :
        calls' = [calls EXCEPT ![c] = [calls[c] EXCEPT !.pc = pc]]
  BY DEF ReadToken, To
<1>2. calls[c].pc = "refreshing" /\ UNCHANGED <<stored, pages, issued, live, mishaps>>
  BY DEF ReadToken
<1>3. CallOK([calls[c] EXCEPT !.pc = pc], Len(issued)) BY <1>2, MovedOK
<1> QED BY <1>1, <1>2, <1>3, TypeOfCalls DEF TypeInv

(* A rotation: the new token is of the old one's account.                  *)
LEMMA RotateFacts ==
  ASSUME TypeInv, NEW c \in Calls, RotateToken(c)
  PROVE  LET n == Len(issued) + 1
             old == calls[c].refresh
             call == [pc |-> "refreshed", page |-> calls[c].page, kind |-> calls[c].kind,
                      refresh |-> n, access |-> calls[c].access]
         IN /\ old \in 1..Len(issued) /\ n \in 1..MaxTokens
            /\ issued' \in Seq(Tokens) /\ Len(issued') = n
            /\ issued'[n] = issued[old]
            /\ \A i \in 1..Len(issued) : issued'[i] = issued[i]
            /\ calls' = [calls EXCEPT ![c] = call]
            /\ live' \subseteq live \cup {n}
            /\ UNCHANGED <<stored, pages>>
<1>1. /\ calls[c].pc = "rotating" /\ Len(issued) < MaxTokens
      /\ CallOK(calls[c], Len(issued)) /\ issued \in Seq(Tokens) /\ Len(issued) \in Nat
  BY DEF RotateToken, TypeInv
<1>2. calls[c].refresh \in 1..Len(issued) /\ Len(issued) + 1 \in 1..MaxTokens
  BY <1>1, WebAssumption DEF CallOK, CallRecords
<1>3. issued[calls[c].refresh] \in Tokens BY <1>1, <1>2
<1>4. issued' = Append(issued, issued[calls[c].refresh]) BY DEF RotateToken
<1>5. /\ issued' \in Seq(Tokens) /\ Len(issued') = Len(issued) + 1
      /\ issued'[Len(issued) + 1] = issued[calls[c].refresh]
      /\ \A i \in 1..Len(issued) : issued'[i] = issued[i]
  BY <1>1, <1>3, <1>4
<1>6. calls' = [calls EXCEPT ![c] =
         [pc |-> "refreshed", page |-> calls[c].page, kind |-> calls[c].kind,
          refresh |-> Len(issued) + 1, access |-> calls[c].access]]
  <2>1. calls' = [calls EXCEPT ![c].pc = "refreshed", ![c].refresh = Len(issued) + 1]
    BY DEF RotateToken
  <2>2. [calls EXCEPT ![c].pc = "refreshed", ![c].refresh = Len(issued) + 1]
          = [calls EXCEPT ![c] =
               [[calls[c] EXCEPT !.pc = "refreshed"] EXCEPT !.refresh = Len(issued) + 1]]
    BY DEF TypeInv
  <2>3. [[calls[c] EXCEPT !.pc = "refreshed"] EXCEPT !.refresh = Len(issued) + 1]
          = [pc |-> "refreshed", page |-> calls[c].page, kind |-> calls[c].kind,
             refresh |-> Len(issued) + 1, access |-> calls[c].access]
    <3> DEFINE moved == [calls[c] EXCEPT !.pc = "refreshed"]
    <3>1. /\ moved \in CallRecords /\ moved.pc = "refreshed"
          /\ moved.page = calls[c].page /\ moved.kind = calls[c].kind
          /\ moved.access = calls[c].access
      BY <1>1 DEF CallOK, CallRecords
    <3> HIDE DEF moved
    <3>2. [moved EXCEPT !.refresh = Len(issued) + 1]
            = [pc |-> moved.pc, page |-> moved.page, kind |-> moved.kind,
               refresh |-> Len(issued) + 1, access |-> moved.access]
      BY <3>1 DEF CallRecords
    <3> QED BY <3>1, <3>2 DEF moved
  <2> QED BY <2>1, <2>2, <2>3
<1>7. live' \subseteq live \cup {Len(issued) + 1} BY DEF RotateToken, Deleted
<1> QED BY <1>2, <1>5, <1>6, <1>7 DEF RotateToken

LEMMA RotateTokenType == ASSUME TypeInv, NEW c \in Calls, RotateToken(c) PROVE TypeInv'
<1> DEFINE n == Len(issued) + 1
           call == [pc |-> "refreshed", page |-> calls[c].page, kind |-> calls[c].kind,
                    refresh |-> n, access |-> calls[c].access]
<1>1. /\ n \in 1..MaxTokens /\ issued' \in Seq(Tokens) /\ Len(issued') = n
      /\ calls' = [calls EXCEPT ![c] = call]
      /\ live' \subseteq live \cup {n} /\ UNCHANGED <<stored, pages>>
  BY RotateFacts
<1>2. /\ Len(issued) \in Nat /\ n \in Nat /\ Len(issued) <= n /\ n # 0 /\ n <= MaxTokens
      /\ n \in 0..MaxTokens /\ stored.refresh <= n /\ live' \subseteq 1..n
  BY <1>1, Lengths, WebAssumption DEF TypeInv, SessionOK, Sessions
<1>3. CallOK(calls[c], Len(issued)) /\ calls[c].pc = "rotating" BY DEF TypeInv, RotateToken
<1>4. /\ calls[c].page \in Pages /\ calls[c].kind \in Kinds
      /\ calls[c].access \in Accounts \cup {None}
  BY <1>3 DEF CallOK, CallRecords
<1>5. mishaps' \subseteq Mishaps
  BY NotedType DEF RotateToken, Fault, Mishaps, FaultKinds, TypeInv
<1> HIDE DEF n
<1>6. CallOK(call, n) BY <1>2, <1>4 DEF CallOK, CallRecords
<1>7. \A d \in Calls : CallOK(calls[d], n) BY <1>2, LongerOK DEF TypeInv
<1> HIDE DEF call
<1>8. /\ DOMAIN calls' = Calls /\ calls' = [d \in Calls |-> calls'[d]]
      /\ \A d \in Calls : CallOK(calls'[d], n)
  BY <1>1, <1>6, <1>7 DEF TypeInv
<1>9. SessionOK' BY <1>1, <1>2 DEF TypeInv, SessionOK
<1> QED BY <1>1, <1>2, <1>5, <1>8, <1>9 DEF TypeInv

LEMMA RefreshFailsType == ASSUME TypeInv, NEW c \in Calls, RefreshFails(c) PROVE TypeInv'
<1>1. /\ calls' = [calls EXCEPT ![c] = [calls[c] EXCEPT !.pc = "refused"]]
      /\ calls[c].pc \in {"refreshing", "rotating", "refreshed"}
      /\ UNCHANGED <<stored, pages, issued>>
      /\ live' \subseteq live
  BY DEF RefreshFails, To, Deleted
<1>2. mishaps' \subseteq Mishaps
  BY NotedType DEF RefreshFails, Fault, Mishaps, FaultKinds
<1>3. CallOK([calls[c] EXCEPT !.pc = "refused"], Len(issued)) BY <1>1, MovedOK
<1>4. pages' \in [Pages -> PageRecords] BY <1>1 DEF TypeInv
<1> QED BY <1>1, <1>2, <1>3, <1>4, TypeOfCalls

(* What a refresh leaves in localStorage, and what its call goes on with.  *)
LEMMA RefreshedFacts ==
  ASSUME TypeInv, NEW c \in Calls, RefreshAnswered(c)
  PROVE  /\ calls[c].refresh \in 1..Len(issued) /\ calls[c].page \in Pages
         /\ issued[calls[c].refresh].account \in Accounts
         /\ stored' \in Sessions /\ stored'.refresh <= Len(issued)
         /\ stored.user = None => stored' = stored
         /\ stored.user # None =>
              stored' = [user |-> stored.user, access |-> issued[calls[c].refresh].account,
                         soon |-> FALSE, refresh |-> calls[c].refresh]
         /\ calls' = [calls EXCEPT ![c] =
              TokenStep(calls[c].page, calls[c].kind, [stored' EXCEPT !.soon = FALSE])]
         /\ UNCHANGED <<pages, issued, live, mishaps>>
<1>1. /\ CallOK(calls[c], Len(issued)) /\ calls[c].pc = "refreshed"
      /\ issued \in Seq(Tokens) /\ Len(issued) \in Nat
      /\ stored \in Sessions /\ stored.refresh <= Len(issued)
  BY DEF RefreshAnswered, TypeInv, SessionOK
<1>2. calls[c].refresh \in 1..Len(issued) /\ calls[c].page \in Pages
      /\ calls[c].refresh \in 0..MaxTokens
  BY <1>1, WebAssumption DEF CallOK, CallRecords
<1>3. issued[calls[c].refresh].account \in Accounts
  <2>1. issued[calls[c].refresh] \in Tokens BY <1>1, <1>2
  <2> QED BY <2>1 DEF Tokens
<1>4. stored' = Refreshed(issued[calls[c].refresh].account, calls[c].refresh)
  BY DEF RefreshAnswered
<1>5. CASE stored.user = None
  <2>1. stored' = stored BY <1>4, <1>5 DEF Refreshed
  <2> QED BY <1>1, <1>2, <1>3, <1>5, <2>1 DEF RefreshAnswered
<1>6. CASE stored.user # None
  <2>1. stored' = [user |-> stored.user, access |-> issued[calls[c].refresh].account,
                   soon |-> FALSE, refresh |-> calls[c].refresh]
    BY <1>4, <1>6 DEF Refreshed, setSession
  <2>2. stored' \in Sessions /\ stored'.refresh <= Len(issued)
    BY <1>1, <1>2, <1>3, <2>1 DEF Sessions
  <2> QED BY <1>1, <1>2, <1>3, <1>6, <2>1, <2>2 DEF RefreshAnswered
<1> QED BY <1>5, <1>6

LEMMA RefreshAnsweredType ==
  ASSUME TypeInv, NEW c \in Calls, RefreshAnswered(c) PROVE TypeInv'
<1> DEFINE session == [stored' EXCEPT !.soon = FALSE]
           call == TokenStep(calls[c].page, calls[c].kind, session)
<1>1. /\ stored' \in Sessions /\ stored'.refresh <= Len(issued)
      /\ calls[c].page \in Pages
      /\ calls' = [calls EXCEPT ![c] = call]
      /\ UNCHANGED <<pages, issued, live, mishaps>>
  BY RefreshedFacts
<1>2. session \in Sessions /\ session.refresh <= Len(issued) BY <1>1 DEF Sessions
<1>3. calls[c].kind \in Kinds BY DEF TypeInv, CallOK, CallRecords
<1> HIDE DEF session
<1>4. CallOK(call, Len(issued)) BY <1>1, <1>2, <1>3, StepOK, Lengths
<1> HIDE DEF call
<1>5. /\ DOMAIN calls' = Calls /\ calls' = [d \in Calls |-> calls'[d]]
      /\ \A d \in Calls : CallOK(calls'[d], Len(issued))
  BY <1>1, <1>4, CallsType
<1>6. SessionOK' BY <1>1 DEF SessionOK
<1> QED BY <1>1, <1>5, <1>6 DEF TypeInv

LEMMA RefreshRefusedType ==
  ASSUME TypeInv, NEW c \in Calls, RefreshRefused(c) PROVE TypeInv'
<1>1. /\ stored' = NoSession /\ UNCHANGED issued /\ calls[c].page \in Pages
  BY DEF RefreshRefused, TypeInv, CallOK
<1>2. CASE pages[calls[c].page].view = "account"
  BY <1>1, <1>2, ToHomeType DEF RefreshRefused
<1>3. CASE pages[calls[c].page].view # "account"
  <2>1. /\ calls' = [calls EXCEPT ![c] = IdleCall] /\ UNCHANGED <<pages, live, mishaps>>
    BY <1>3 DEF RefreshRefused
  <2>2. /\ DOMAIN calls' = Calls /\ calls' = [d \in Calls |-> calls'[d]]
        /\ \A d \in Calls : CallOK(calls'[d], Len(issued))
    BY <2>1, IdleOK, Lengths, CallsType
  <2>3. SessionOK' BY <1>1, NoSessionOK, Lengths DEF SessionOK
  <2> QED BY <1>1, <2>1, <2>2, <2>3 DEF TypeInv
<1> QED BY <1>2, <1>3

LEMMA BillingAnsweredType ==
  ASSUME TypeInv, NEW c \in Calls, BillingAnswered(c) PROVE TypeInv'
<1>1. /\ calls[c].pc = "calling" /\ calls[c].page \in Pages /\ calls[c].access \in Accounts
      /\ UNCHANGED <<stored, issued, live>> /\ live' \subseteq live
      /\ CallOK(IdleCall, Len(issued))
  BY IdleOK, Lengths DEF BillingAnswered, TypeInv, CallOK
<1>2. CASE calls[c].kind = "status"
  <2>1. /\ pages' = [pages EXCEPT ![calls[c].page].plan = calls[c].access]
        /\ calls' = [calls EXCEPT ![c] = IdleCall] /\ UNCHANGED mishaps
    BY <1>2 DEF BillingAnswered
  <2>2. pages' \in [Pages -> PageRecords] BY <1>1, <2>1 DEF TypeInv, PageRecords
  <2>3. mishaps' \subseteq Mishaps BY <2>1 DEF TypeInv
  <2> QED BY <1>1, <2>1, <2>2, <2>3, TypeOfCalls
<1>3. CASE calls[c].kind = "cancel"
  <2>1. /\ calls' = [calls EXCEPT ![c] = TokenStep(calls[c].page, "status", stored)]
        /\ NoteOverlap(c) /\ UNCHANGED pages
    BY <1>3 DEF BillingAnswered
  <2>2. CallOK(TokenStep(calls[c].page, "status", stored), Len(issued))
    BY <1>1, StepOK, Lengths DEF TypeInv, SessionOK, Kinds
  <2>3. mishaps' \subseteq Mishaps BY <2>1, NotedType DEF NoteOverlap, If, Mishaps
  <2>4. pages' \in [Pages -> PageRecords] BY <2>1 DEF TypeInv
  <2> QED BY <1>1, <2>1, <2>2, <2>3, <2>4, TypeOfCalls
<1>4. CASE calls[c].kind = "checkout"
  <2>1. /\ calls' = [calls EXCEPT ![c] = IdleCall] /\ UNCHANGED <<pages, mishaps>>
    BY <1>4 DEF BillingAnswered
  <2>2. pages' \in [Pages -> PageRecords] /\ mishaps' \subseteq Mishaps
    BY <2>1 DEF TypeInv
  <2> QED BY <1>1, <2>1, <2>2, TypeOfCalls
<1>5. calls[c].kind \in {"status", "cancel", "checkout"}
  BY DEF TypeInv, CallOK, CallRecords, Kinds
<1> QED BY <1>2, <1>3, <1>4, <1>5

LEMMA BillingFailsType ==
  ASSUME TypeInv, NEW c \in Calls, BillingFails(c) PROVE TypeInv'
<1>1. /\ calls[c].pc = "calling" /\ calls[c].page \in Pages
      /\ UNCHANGED <<stored, issued, live, mishaps>>
      /\ calls' = [calls EXCEPT ![c] = IdleCall] /\ CallOK(IdleCall, Len(issued))
  BY IdleOK, Lengths DEF BillingFails, TypeInv, CallOK
<1>2. pages' \in [Pages -> PageRecords]
  <2>1. CASE calls[c].kind = "status"
    <3>1. pages' = [pages EXCEPT ![calls[c].page].plan = None]
      BY <2>1 DEF BillingFails
    <3> QED BY <1>1, <3>1 DEF TypeInv, PageRecords
  <2>2. CASE calls[c].kind # "status" BY <2>2 DEF BillingFails, TypeInv
  <2> QED BY <2>1, <2>2
<1> QED BY <1>1, <1>2, TypeOfCalls DEF TypeInv

LEMMA TypeStays == TypeInv /\ [Next]_vars => TypeInv'
<1> SUFFICES ASSUME TypeInv, [Next]_vars PROVE TypeInv' OBVIOUS
<1>1. CASE UNCHANGED vars BY <1>1 DEF vars, TypeInv, SessionOK
<1>2. ASSUME NEW c \in Calls, CallStep(c) PROVE TypeInv'
  BY <1>2, ReadTokenType, RotateTokenType, RefreshFailsType, RefreshAnsweredType,
     RefreshRefusedType, BillingAnsweredType, BillingFailsType DEF CallStep
<1> QED BY <1>1, <1>2, OpenPageType, SignInType, SignOutType, ActType, TokenAgesType
        DEF Next

LEMMA AlwaysTypeInv == Spec => []TypeInv
<1>1. Init => TypeInv BY TypeInit
<1>2. TypeInv /\ [Next]_vars => TypeInv' BY TypeStays
<1> QED BY <1>1, <1>2, PTL DEF Spec

(* TypeCorrect: every refresh token that localStorage or a call holds was  *)
(* issued by auth-svc.                                                     *)
THEOREM TypeCorrect == Spec => []TypeOK
BY AlwaysTypeInv, TypeInvIsTypeOK, PTL

-----------------------------------------------------------------------------
(* One account.  While no other account signs in, every token that a call  *)
(* carries is of the account that is signed in, and every call of an       *)
(* account page of the account the page shows.                             *)

Matches(call, a, tokens) ==
  /\ call.refresh # 0 => tokens[call.refresh].account = a
  /\ call.pc = "calling" => call.access = a

OneSession(session, tokens) ==
  /\ session.access = session.user
  /\ session.user = None <=> session.refresh = 0
  /\ session.refresh # 0 => tokens[session.refresh].account = session.user

CallsAgree ==
  \A c \in Calls : stored.user # None /\ calls[c].refresh # 0 =>
                     issued[calls[c].refresh].account = stored.user

PagesAgree ==
  \A p \in Pages : pages[p].view = "account" =>
    /\ pages[p].shown # None
    /\ stored.user \in {None, pages[p].shown}
    /\ pages[p].plan \in {None, pages[p].shown}
    /\ \A c \in Calls : calls[c].page = p => Matches(calls[c], pages[p].shown, issued)

Agree == OneSession(stored, issued) /\ CallsAgree /\ PagesAgree
AccountInv == Spared({"switched"}) => Agree

LEMMA IdleMatches ==
  /\ IdleCall.refresh = 0 /\ IdleCall.page = None /\ IdleCall.pc = "idle"
  /\ \A a, tokens : Matches(IdleCall, a, tokens)
BY DEF IdleCall, Matches

LEMMA StepMatches ==
  ASSUME NEW page, NEW kind, NEW session \in Sessions, NEW tokens,
         OneSession(session, tokens), NEW a, session.user \in {None, a}
  PROVE  Matches(TokenStep(page, kind, session), a, tokens)
<1>1. CASE session.access = None BY <1>1, IdleMatches DEF TokenStep
<1>2. CASE session.access # None
  <2>1. session.user = a BY <1>2 DEF OneSession
  <2>2. TokenStep(page, kind, session) \in
          {[pc |-> "refreshing", page |-> page, kind |-> kind,
            refresh |-> session.refresh, access |-> None],
           [pc |-> "calling", page |-> page, kind |-> kind,
            refresh |-> 0, access |-> session.access]}
    BY <1>2 DEF TokenStep, IdleCall
  <2> QED BY <1>2, <2>1, <2>2 DEF Matches, OneSession
<1> QED BY <1>1, <1>2

LEMMA StepPage ==
  ASSUME NEW page, NEW kind, NEW session
  PROVE  \/ TokenStep(page, kind, session) = IdleCall
         \/ TokenStep(page, kind, session).page = page
BY DEF TokenStep, IdleCall

LEMMA MishapsGrow == [Next]_vars => mishaps \subseteq mishaps'
<1> SUFFICES ASSUME [Next]_vars PROVE mishaps \subseteq mishaps' OBVIOUS
<1>1. \A kinds : Note(kinds) => mishaps \subseteq mishaps' BY DEF Note
<1>2. \A p, noted, new : Left(p, noted, new) => mishaps \subseteq mishaps'
  BY <1>1 DEF Left
<1>3. \A c : NoteOverlap(c) => mishaps \subseteq mishaps' BY <1>1 DEF NoteOverlap
<1>4. \A kind : Fault(kind) => mishaps \subseteq mishaps' BY <1>1 DEF Fault
<1>5. UNCHANGED mishaps => mishaps \subseteq mishaps' OBVIOUS
<1>6. \A p, view : OpenPage(p, view) => mishaps \subseteq mishaps'
  BY <1>2, Zenon DEF OpenPage
<1>7. \A p, a : SignIn(p, a) => mishaps \subseteq mishaps' BY <1>2, Zenon DEF SignIn
<1>8. \A p : SignOut(p) => mishaps \subseteq mishaps' BY <1>2, <1>5 DEF SignOut
<1>9. \A p, c, kind : Act(p, c, kind) => mishaps \subseteq mishaps'
  BY <1>3, Zenon DEF Act
<1>10. ASSUME NEW c, CallStep(c) PROVE mishaps \subseteq mishaps'
  <2>1. RotateToken(c) => mishaps \subseteq mishaps'
    BY <1>4, <1>5, Zenon DEF RotateToken
  <2>2. RefreshFails(c) => mishaps \subseteq mishaps' BY <1>4, Zenon DEF RefreshFails
  <2>3. RefreshRefused(c) => mishaps \subseteq mishaps'
    BY <1>2, <1>5 DEF RefreshRefused
  <2>4. BillingAnswered(c) => mishaps \subseteq mishaps'
    BY <1>3, <1>5 DEF BillingAnswered
  <2> QED BY <1>5, <1>10, <2>1, <2>2, <2>3, <2>4
          DEF CallStep, ReadToken, RefreshAnswered, BillingFails
<1> QED BY <1>5, <1>6, <1>7, <1>8, <1>9, <1>10 DEF Next, TokenAges, vars

LEMMA CallRefs ==
  ASSUME TypeInv, NEW c \in Calls, calls[c].refresh # 0
  PROVE  calls[c].refresh \in 1..Len(issued)
BY Lengths, WebAssumption DEF TypeInv, CallOK, CallRecords

(* A page that is loaded, with the session it finds.                       *)
LEMMA OpenedAgrees ==
  ASSUME TypeInv, Agree, NEW p \in Pages, NEW view \in {"home", "account"},
         NEW n \in Nat, Len(issued) <= n, \A i \in 1..Len(issued) : issued'[i] = issued[i],
         stored' \in Sessions, stored'.refresh <= n, OneSession(stored', issued'),
         Opened(p, view, stored'),
         \A c \in Calls : stored'.user # None /\ c \notin CallsOf(p) /\ calls[c].refresh # 0
                            => issued[calls[c].refresh].account = stored'.user,
         \A q \in Pages \ {p} : pages[q].view = "account" =>
                                  stored'.user \in {None, pages[q].shown}
  PROVE  Agree'
<1> DEFINE step == TokenStep(p, "status", stored')
<1>1. /\ \A c \in Calls : \/ calls'[c] = IdleCall
                          \/ calls'[c] = step
                          \/ c \notin CallsOf(p) /\ calls'[c] = calls[c]
      /\ \A q \in Pages \ {p} : pages'[q] = pages[q]
      /\ pages'[p].shown = stored'.user /\ pages'[p].plan = None
      /\ pages'[p].view = "account" => stored'.user # None
  BY OpenedType
<1>2. Matches(step, stored'.user, issued') BY StepMatches
<1>3. step = IdleCall \/ step.page = p BY StepPage
<1> HIDE DEF step
<1>4. \A c \in Calls : calls[c].refresh # 0 =>
        issued'[calls[c].refresh] = issued[calls[c].refresh]
  BY CallRefs
<1>5. ASSUME NEW c \in Calls, stored'.user # None, calls'[c].refresh # 0
      PROVE  issued'[calls'[c].refresh].account = stored'.user
  <2>1. CASE calls'[c] = IdleCall BY <1>5, <2>1, IdleMatches
  <2>2. CASE calls'[c] = step BY <1>2, <1>5, <2>2 DEF Matches
  <2>3. CASE c \notin CallsOf(p) /\ calls'[c] = calls[c] BY <1>4, <1>5, <2>3
  <2> QED BY <1>1, <2>1, <2>2, <2>3
<1>6. CallsAgree' BY <1>5 DEF CallsAgree
<1>7. ASSUME NEW q \in Pages, pages'[q].view = "account"
      PROVE  /\ pages'[q].shown # None
             /\ stored'.user \in {None, pages'[q].shown}
             /\ pages'[q].plan \in {None, pages'[q].shown}
             /\ \A c \in Calls : calls'[c].page = q =>
                                   Matches(calls'[c], pages'[q].shown, issued')
  <2>1. CASE q = p
    <3>1. ASSUME NEW c \in Calls, calls'[c].page = p
          PROVE  Matches(calls'[c], stored'.user, issued')
      <4>1. CASE c \notin CallsOf(p) /\ calls'[c] = calls[c]
        BY <3>1, <4>1 DEF CallsOf
      <4> QED BY <1>1, <1>2, <4>1, IdleMatches
    <3> QED BY <1>1, <1>7, <2>1, <3>1
  <2>2. CASE q # p
    <3>1. /\ pages'[q] = pages[q] /\ pages[q].view = "account"
          /\ pages[q].shown # None /\ pages[q].plan \in {None, pages[q].shown}
          /\ \A c \in Calls : calls[c].page = q => Matches(calls[c], pages[q].shown, issued)
      BY <1>1, <1>7, <2>2 DEF Agree, PagesAgree
    <3>2. ASSUME NEW c \in Calls, calls'[c].page = q
          PROVE  Matches(calls'[c], pages[q].shown, issued')
      <4>1. CASE calls'[c] = IdleCall BY <4>1, IdleMatches
      <4>2. CASE calls'[c] = step BY <1>3, <2>2, <3>2, <4>2, IdleMatches
      <4>3. CASE calls'[c] = calls[c]
        BY <1>4, <3>1, <3>2, <4>3 DEF Matches
      <4> QED BY <1>1, <4>1, <4>2, <4>3
    <3> QED BY <2>2, <3>1, <3>2
  <2> QED BY <2>1, <2>2
<1>8. PagesAgree' BY <1>7 DEF PagesAgree
<1>9. OneSession(stored, issued)' BY DEF OneSession
<1> QED BY <1>6, <1>8, <1>9 DEF Agree

LEMMA OpenPageAgrees ==
  ASSUME TypeInv, Agree, NEW p \in Pages, NEW view \in {"home", "account"}, OpenPage(p, view)
  PROVE  Agree'
<1>1. /\ stored' = stored /\ issued' = issued /\ Opened(p, view, stored')
      /\ stored' \in Sessions /\ stored'.refresh <= Len(issued) /\ Len(issued) \in Nat
  BY Lengths DEF OpenPage, TypeInv, SessionOK
<1>2. OneSession(stored', issued') BY <1>1 DEF Agree
<1>3. \A c \in Calls : stored'.user # None /\ calls[c].refresh # 0
                         => issued[calls[c].refresh].account = stored'.user
  BY <1>1 DEF Agree, CallsAgree
<1>4. \A q \in Pages : pages[q].view = "account" => stored'.user \in {None, pages[q].shown}
  BY <1>1 DEF Agree, PagesAgree
<1> QED BY <1>1, <1>2, <1>3, <1>4, OpenedAgrees

LEMMA SignInAgrees ==
  ASSUME TypeInv, Agree, NEW p \in Pages, NEW a \in Accounts, SignIn(p, a),
         Spared({"switched"})'
  PROVE  Agree'
<1> DEFINE n == Len(issued) + 1
<1>1. /\ n \in 1..MaxTokens /\ issued'[n].account = a
      /\ \A i \in 1..Len(issued) : issued'[i] = issued[i]
      /\ stored' = [user |-> a, access |-> a, soon |-> FALSE, refresh |-> n]
      /\ stored' \in Sessions /\ stored'.refresh = n
      /\ Opened(p, "account", stored')
      /\ Left(p, If(OthersUse(p, a), "switched"), {n})
  BY SignInFacts
<1>2. Len(issued) \in Nat /\ n \in Nat /\ Len(issued) <= n /\ n # 0 BY Lengths
<1>3. ~OthersUse(p, a) BY <1>1 DEF Left, Note, If, Spared
<1> HIDE DEF n
<1>4. OneSession(stored', issued') BY <1>1, <1>2, WebAssumption DEF OneSession
<1>5. stored'.user = a /\ stored'.refresh <= n BY <1>1, <1>2
<1>6. /\ \A q \in Pages \ {p} : pages[q].shown \in {None, a}
      /\ \A c \in Calls : calls[c].refresh # 0 => issued[calls[c].refresh].account = a
  BY <1>3, Zenon DEF OthersUse
<1>7. \A q \in Pages \ {p} : pages[q].view = "account" =>
                               stored'.user \in {None, pages[q].shown}
  BY <1>5, <1>6 DEF Agree, PagesAgree
<1> QED BY <1>1, <1>2, <1>4, <1>5, <1>6, <1>7, OpenedAgrees

LEMMA NoOneSession == \A tokens : OneSession(NoSession, tokens)
BY DEF OneSession, NoSession

LEMMA ToHomeAgrees ==
  ASSUME TypeInv, Agree, NEW p \in Pages, stored' = NoSession, UNCHANGED issued,
         Opened(p, "home", NoSession)
  PROVE  Agree'
<1>1. stored' \in Sessions /\ stored'.refresh = 0 BY NoSessionOK
<1>2. Len(issued) \in Nat /\ stored'.refresh <= Len(issued) BY <1>1, Lengths
<1>3. stored'.user = None BY DEF NoSession
<1>4. OneSession(stored', issued') BY NoOneSession
<1>5. Opened(p, "home", stored') BY Zenon
<1> QED BY <1>1, <1>2, <1>3, <1>4, <1>5, OpenedAgrees

(* Calls of one page go on or end; nothing else happens to them.           *)
LEMMA CallsKeep ==
  ASSUME TypeInv, Agree, NEW c \in Calls, NEW call, calls' = [calls EXCEPT ![c] = call],
         \A i \in 1..Len(issued) : issued'[i] = issued[i],
         OneSession(stored', issued'), stored'.user \in {None, stored.user},
         stored'.user # None /\ call.refresh # 0 =>
           issued'[call.refresh].account = stored'.user,
         \A p \in Pages : /\ pages'[p].view = pages[p].view /\ pages'[p].shown = pages[p].shown
                          /\ pages[p].view = "account" =>
                               pages'[p].plan \in {None, pages[p].shown},
         \A p \in Pages : pages[p].view = "account" /\ call.page = p =>
                            Matches(call, pages[p].shown, issued')
  PROVE  Agree'
<1>1. /\ \A d \in Calls : calls'[d] = IF d = c THEN call ELSE calls[d]
      /\ \A d \in Calls : calls[d].refresh # 0 =>
           issued'[calls[d].refresh] = issued[calls[d].refresh]
  BY CallRefs DEF TypeInv
<1>2. CallsAgree'
  <2>1. ASSUME NEW d \in Calls, stored'.user # None, calls'[d].refresh # 0
        PROVE  issued'[calls'[d].refresh].account = stored'.user
    <3>1. CASE d = c BY <1>1, <2>1, <3>1
    <3>2. CASE d # c BY <1>1, <2>1, <3>2 DEF Agree, CallsAgree
    <3> QED BY <3>1, <3>2
  <2> QED BY <2>1 DEF CallsAgree
<1>3. PagesAgree'
  <2>1. ASSUME NEW p \in Pages, pages'[p].view = "account", NEW d \in Calls,
               calls'[d].page = p
        PROVE  Matches(calls'[d], pages'[p].shown, issued')
    <3>1. CASE d = c BY <1>1, <2>1, <3>1
    <3>2. CASE d # c BY <1>1, <2>1, <3>2 DEF Agree, PagesAgree, Matches
    <3> QED BY <3>1, <3>2
  <2>2. ASSUME NEW p \in Pages, pages'[p].view = "account"
        PROVE  /\ pages'[p].shown # None
               /\ stored'.user \in {None, pages'[p].shown}
               /\ pages'[p].plan \in {None, pages'[p].shown}
    BY <2>2 DEF Agree, PagesAgree
  <2> QED BY <2>1, <2>2 DEF PagesAgree
<1>4. OneSession(stored, issued)' BY DEF OneSession
<1> QED BY <1>2, <1>3, <1>4 DEF Agree

(* A call moves on with the token it has.                                  *)
LEMMA MovedAgrees ==
  ASSUME TypeInv, Agree, NEW c \in Calls, NEW pc \in {"rotating", "refused"},
         calls' = [calls EXCEPT ![c] = [calls[c] EXCEPT !.pc = pc]],
         UNCHANGED <<stored, pages, issued>>
  PROVE  Agree'
<1> DEFINE call == [calls[c] EXCEPT !.pc = pc]
<1>1. call.refresh = calls[c].refresh /\ call.page = calls[c].page /\ call.pc = pc
  BY DEF TypeInv, CallOK, CallRecords
<1> HIDE DEF call
<1>2. OneSession(stored', issued') BY DEF Agree
<1>3. stored'.user # None /\ call.refresh # 0 =>
        issued'[call.refresh].account = stored'.user
  BY <1>1 DEF Agree, CallsAgree
<1>4. \A p \in Pages : pages[p].view = "account" => pages'[p].plan \in {None, pages[p].shown}
  BY DEF Agree, PagesAgree
<1>5. \A p \in Pages : pages[p].view = "account" /\ call.page = p =>
                        Matches(call, pages[p].shown, issued')
  BY <1>1 DEF Agree, PagesAgree, Matches
<1>6. calls' = [calls EXCEPT ![c] = call] BY DEF call
<1> QED BY <1>2, <1>3, <1>4, <1>5, <1>6, CallsKeep

(* A call starts anew, with the session it finds.                          *)
LEMMA SteppedAgrees ==
  ASSUME TypeInv, Agree, NEW c \in Calls, NEW p \in Pages, NEW kind,
         NEW session \in Sessions, session.user = stored'.user,
         OneSession(session, issued'), OneSession(stored', issued'),
         stored'.user \in {None, stored.user}, UNCHANGED <<pages, issued>>,
         calls' = [calls EXCEPT ![c] = TokenStep(p, kind, session)]
  PROVE  Agree'
<1> DEFINE call == TokenStep(p, kind, session)
<1>1. call = IdleCall \/ call.page = p BY StepPage
<1>2. Matches(call, session.user, issued') BY StepMatches
<1>3. pages[p].view = "account" => Matches(call, pages[p].shown, issued')
  <2>1. ASSUME pages[p].view = "account" PROVE session.user \in {None, pages[p].shown}
    BY <2>1 DEF Agree, PagesAgree
  <2> QED BY <2>1, StepMatches
<1>4. calls' = [calls EXCEPT ![c] = call] OBVIOUS
<1> HIDE DEF call
<1>5. \A q \in Pages : pages[q].view = "account" /\ call.page = q =>
                        Matches(call, pages[q].shown, issued')
  BY <1>1, <1>3, IdleMatches
<1>6. \A q \in Pages : pages[q].view = "account" => pages'[q].plan \in {None, pages[q].shown}
  BY DEF Agree, PagesAgree
<1>7. stored'.user # None /\ call.refresh # 0 =>
        issued'[call.refresh].account = stored'.user
  BY <1>2 DEF Matches
<1> QED BY <1>4, <1>5, <1>6, <1>7, CallsKeep

(* A call ends; its page may show another plan.                            *)
LEMMA EndedAgrees ==
  ASSUME TypeInv, Agree, NEW c \in Calls, calls' = [calls EXCEPT ![c] = IdleCall],
         UNCHANGED issued, OneSession(stored', issued'), stored'.user \in {None, stored.user},
         \A p \in Pages : /\ pages'[p].view = pages[p].view /\ pages'[p].shown = pages[p].shown
                          /\ pages[p].view = "account" =>
                               pages'[p].plan \in {None, pages[p].shown}
  PROVE  Agree'
BY IdleMatches, CallsKeep

LEMMA StaysOneSession == ASSUME Agree, UNCHANGED <<stored, issued>>
                         PROVE  OneSession(stored', issued')
BY DEF Agree

LEMMA SignOutAgrees == ASSUME TypeInv, Agree, NEW p \in Pages, SignOut(p) PROVE Agree'
<1>1. stored' = NoSession /\ UNCHANGED issued BY DEF SignOut
<1>2. CASE pages[p].view = "account" BY <1>1, <1>2, ToHomeAgrees DEF SignOut
<1>3. CASE pages[p].view # "account"
  <2>1. pages' = [pages EXCEPT ![p] = Page("home", None)] /\ UNCHANGED calls
    BY <1>3 DEF SignOut
  <2>2. /\ pages'[p].view = "home" /\ \A q \in Pages \ {p} : pages'[q] = pages[q]
        /\ stored'.user = None
    BY <1>1, <2>1 DEF TypeInv, Page, NoSession
  <2>3. OneSession(stored', issued') BY <1>1, NoOneSession
  <2>4. PagesAgree' BY <1>1, <2>1, <2>2 DEF Agree, PagesAgree
  <2>5. CallsAgree' BY <2>2 DEF CallsAgree
  <2> QED BY <2>3, <2>4, <2>5 DEF Agree, OneSession
<1> QED BY <1>2, <1>3

LEMMA ActAgrees ==
  ASSUME TypeInv, Agree, NEW p \in Pages, NEW c \in Calls, NEW kind, Act(p, c, kind)
  PROVE  Agree'
<1>1. calls' = [calls EXCEPT ![c] = TokenStep(p, kind, stored)]
      /\ UNCHANGED <<stored, pages, issued>>
  BY DEF Act
<1>2. OneSession(stored', issued') /\ OneSession(stored, issued') BY <1>1 DEF Agree
<1>3. stored \in Sessions BY DEF TypeInv, SessionOK
<1> QED BY <1>1, <1>2, <1>3, SteppedAgrees

LEMMA TokenAgesAgrees == ASSUME TypeInv, Agree, TokenAges PROVE Agree'
<1>1. /\ stored' = [stored EXCEPT !.soon = TRUE] /\ stored \in Sessions
      /\ UNCHANGED <<pages, calls, issued>>
  BY DEF TokenAges, TypeInv, SessionOK
<1>2. stored'.user = stored.user /\ stored'.access = stored.access
      /\ stored'.refresh = stored.refresh
  BY <1>1 DEF Sessions
<1> QED BY <1>1, <1>2 DEF Agree, OneSession, CallsAgree, PagesAgree

LEMMA ReadTokenAgrees == ASSUME TypeInv, Agree, NEW c \in Calls, ReadToken(c) PROVE Agree'
<1>1. PICK pc \in {"rotating", "refused"} :
        calls' = [calls EXCEPT ![c] = [calls[c] EXCEPT !.pc = pc]]
  BY DEF ReadToken, To
<1>2. UNCHANGED <<stored, pages, issued>> BY DEF ReadToken
<1> QED BY <1>1, <1>2, MovedAgrees

LEMMA RefreshFailsAgrees ==
  ASSUME TypeInv, Agree, NEW c \in Calls, RefreshFails(c) PROVE Agree'
<1>1. calls' = [calls EXCEPT ![c] = [calls[c] EXCEPT !.pc = "refused"]]
      /\ UNCHANGED <<stored, pages, issued>>
  BY DEF RefreshFails, To
<1> QED BY <1>1, MovedAgrees

LEMMA RotateTokenAgrees ==
  ASSUME TypeInv, Agree, NEW c \in Calls, RotateToken(c) PROVE Agree'
<1> DEFINE n == Len(issued) + 1
           call == [pc |-> "refreshed", page |-> calls[c].page, kind |-> calls[c].kind,
                    refresh |-> n, access |-> calls[c].access]
<1>1. /\ calls[c].refresh \in 1..Len(issued)
      /\ issued'[n] = issued[calls[c].refresh]
      /\ \A i \in 1..Len(issued) : issued'[i] = issued[i]
      /\ calls' = [calls EXCEPT ![c] = call] /\ UNCHANGED <<stored, pages>>
  BY RotateFacts
<1>2. call.refresh = n /\ call.page = calls[c].page /\ call.pc = "refreshed" OBVIOUS
<1>3. calls[c].refresh # 0 /\ Len(issued) \in Nat BY <1>1, Lengths
<1> HIDE DEF n, call
<1>4. OneSession(stored', issued')
  <2>1. stored.refresh # 0 => stored.refresh \in 1..Len(issued)
    BY <1>3, WebAssumption DEF TypeInv, SessionOK, Sessions
  <2> QED BY <1>1, <2>1 DEF Agree, OneSession
<1>5. stored'.user # None => issued'[call.refresh].account = stored'.user
  BY <1>1, <1>2, <1>3 DEF Agree, CallsAgree
<1>6. \A p \in Pages : pages[p].view = "account" => pages'[p].plan \in {None, pages[p].shown}
  BY <1>1 DEF Agree, PagesAgree
<1>7. \A p \in Pages : pages[p].view = "account" /\ call.page = p =>
                        Matches(call, pages[p].shown, issued')
  BY <1>1, <1>2, <1>3 DEF Agree, PagesAgree, Matches
<1> QED BY <1>1, <1>4, <1>5, <1>6, <1>7, CallsKeep

LEMMA RefreshAnsweredAgrees ==
  ASSUME TypeInv, Agree, NEW c \in Calls, RefreshAnswered(c) PROVE Agree'
<1> DEFINE session == [stored' EXCEPT !.soon = FALSE]
<1>1. /\ calls[c].refresh \in 1..Len(issued) /\ calls[c].page \in Pages
      /\ stored' \in Sessions /\ stored'.refresh <= Len(issued)
      /\ stored.user = None => stored' = stored
      /\ stored.user # None =>
           stored' = [user |-> stored.user, access |-> issued[calls[c].refresh].account,
                      soon |-> FALSE, refresh |-> calls[c].refresh]
      /\ calls' = [calls EXCEPT ![c] = TokenStep(calls[c].page, calls[c].kind, session)]
      /\ UNCHANGED <<pages, issued>>
  BY RefreshedFacts
<1>2. calls[c].refresh # 0 BY <1>1, Lengths
<1>3. /\ session \in Sessions /\ session.user = stored'.user
      /\ session.access = stored'.access /\ session.refresh = stored'.refresh
  BY <1>1 DEF Sessions
<1> HIDE DEF session
<1>4. OneSession(stored', issued') /\ stored'.user \in {None, stored.user}
  <2>1. CASE stored.user = None BY <1>1, <2>1 DEF Agree
  <2>2. CASE stored.user # None
    BY <1>1, <1>2, <2>2 DEF Agree, CallsAgree, OneSession
  <2> QED BY <2>1, <2>2
<1>5. OneSession(session, issued') BY <1>3, <1>4 DEF OneSession
<1> QED BY <1>1, <1>3, <1>4, <1>5, SteppedAgrees

LEMMA RefreshRefusedAgrees ==
  ASSUME TypeInv, Agree, NEW c \in Calls, RefreshRefused(c) PROVE Agree'
<1>1. stored' = NoSession /\ UNCHANGED issued /\ calls[c].page \in Pages
  BY DEF RefreshRefused, TypeInv, CallOK
<1>2. CASE pages[calls[c].page].view = "account"
  BY <1>1, <1>2, ToHomeAgrees DEF RefreshRefused
<1>3. CASE pages[calls[c].page].view # "account"
  <2>1. calls' = [calls EXCEPT ![c] = IdleCall] /\ UNCHANGED pages
    BY <1>3 DEF RefreshRefused
  <2>2. OneSession(stored', issued') BY <1>1, NoOneSession
  <2>3. stored'.user = None BY <1>1 DEF NoSession
  <2>4. \A p \in Pages : pages[p].view = "account" =>
                            pages'[p].plan \in {None, pages[p].shown}
    BY <2>1 DEF Agree, PagesAgree
  <2> QED BY <1>1, <2>1, <2>2, <2>3, <2>4, EndedAgrees
<1> QED BY <1>2, <1>3

LEMMA BillingAnsweredAgrees ==
  ASSUME TypeInv, Agree, NEW c \in Calls, BillingAnswered(c) PROVE Agree'
<1>1. /\ calls[c].pc = "calling" /\ calls[c].page \in Pages
      /\ UNCHANGED <<stored, issued>>
  BY DEF BillingAnswered, TypeInv, CallOK
<1>2. OneSession(stored', issued') BY <1>1, StaysOneSession
<1>3. CASE calls[c].kind = "status"
  <2>1. /\ pages' = [pages EXCEPT ![calls[c].page].plan = calls[c].access]
        /\ calls' = [calls EXCEPT ![c] = IdleCall]
    BY <1>3 DEF BillingAnswered
  <2>2. \A p \in Pages : /\ pages'[p].view = pages[p].view /\ pages'[p].shown = pages[p].shown
                         /\ pages'[p].plan = IF p = calls[c].page THEN calls[c].access
                                             ELSE pages[p].plan
    BY <1>1, <2>1 DEF TypeInv, PageRecords
  <2>3. \A p \in Pages : pages[p].view = "account" =>
                            pages'[p].plan \in {None, pages[p].shown}
    BY <1>1, <2>2 DEF Agree, PagesAgree, Matches
  <2> QED BY <1>1, <1>2, <2>1, <2>2, <2>3, EndedAgrees
<1>4. CASE calls[c].kind = "cancel"
  <2>1. calls' = [calls EXCEPT ![c] = TokenStep(calls[c].page, "status", stored)]
        /\ UNCHANGED pages
    BY <1>4 DEF BillingAnswered
  <2>2. stored \in Sessions /\ OneSession(stored, issued')
    BY <1>1 DEF TypeInv, SessionOK, Agree
  <2> QED BY <1>1, <1>2, <2>1, <2>2, SteppedAgrees
<1>5. CASE calls[c].kind \notin {"status", "cancel"}
  <2>1. calls' = [calls EXCEPT ![c] = IdleCall] /\ UNCHANGED pages
    BY <1>5 DEF BillingAnswered
  <2>2. \A p \in Pages : pages[p].view = "account" =>
                            pages'[p].plan \in {None, pages[p].shown}
    BY <2>1 DEF Agree, PagesAgree
  <2> QED BY <1>1, <1>2, <2>1, <2>2, EndedAgrees
<1> QED BY <1>3, <1>4, <1>5

LEMMA BillingFailsAgrees ==
  ASSUME TypeInv, Agree, NEW c \in Calls, BillingFails(c) PROVE Agree'
<1>1. /\ UNCHANGED <<stored, issued>> /\ calls' = [calls EXCEPT ![c] = IdleCall]
  BY DEF BillingFails
<1>2. OneSession(stored', issued') BY <1>1, StaysOneSession
<1>3. \A p \in Pages : /\ pages'[p].view = pages[p].view /\ pages'[p].shown = pages[p].shown
                       /\ pages'[p].plan \in {None, pages[p].plan}
  <2>1. CASE calls[c].kind = "status"
    <3>1. pages' = [pages EXCEPT ![calls[c].page].plan = None]
      BY <2>1 DEF BillingFails
    <3> QED BY <3>1 DEF TypeInv, PageRecords
  <2>2. CASE calls[c].kind # "status" BY <2>2 DEF BillingFails
  <2> QED BY <2>1, <2>2
<1>4. \A p \in Pages : pages[p].view = "account" =>
                          pages'[p].plan \in {None, pages[p].shown}
  BY <1>3 DEF Agree, PagesAgree
<1> QED BY <1>1, <1>2, <1>3, <1>4, EndedAgrees

LEMMA AccountInit == Init => AccountInv
<1> SUFFICES ASSUME Init PROVE Agree BY DEF AccountInv
<1>1. OneSession(stored, issued) BY NoOneSession DEF Init
<1>2. stored.user = None BY DEF Init, NoSession
<1>3. \A p \in Pages : pages[p].view = "closed" BY DEF Init, Page
<1> QED BY <1>1, <1>2, <1>3 DEF Agree, CallsAgree, PagesAgree

LEMMA AccountStays == TypeInv /\ AccountInv /\ [Next]_vars => AccountInv'
<1> SUFFICES ASSUME TypeInv, AccountInv, [Next]_vars, Spared({"switched"})' PROVE Agree'
  BY DEF AccountInv
<1>1. Agree BY MishapsGrow DEF AccountInv, Spared
<1>2. CASE UNCHANGED vars
  BY <1>1, <1>2 DEF vars, Agree, CallsAgree, PagesAgree
<1>3. ASSUME NEW c \in Calls, CallStep(c) PROVE Agree'
  BY <1>1, <1>3, ReadTokenAgrees, RotateTokenAgrees, RefreshFailsAgrees,
     RefreshAnsweredAgrees, RefreshRefusedAgrees, BillingAnsweredAgrees, BillingFailsAgrees
     DEF CallStep
<1> QED BY <1>1, <1>2, <1>3, OpenPageAgrees, SignInAgrees, SignOutAgrees, ActAgrees,
           TokenAgesAgrees DEF Next

LEMMA AlwaysAccountInv == Spec => []AccountInv
<1>1. TypeInv /\ AccountInv /\ [Next]_vars => AccountInv' BY AccountStays
<1> QED BY <1>1, AccountInit, AlwaysTypeInv, PTL DEF Spec

(* SessionAlwaysOneAccount: for any tabs and calls, and whatever fails,    *)
(* user, access token and refresh token of localStorage are of one         *)
(* account, or all gone, while nobody switches accounts in another tab.    *)
THEOREM SessionAlwaysOneAccount == Spec => []SessionIsOneAccount
<1>1. AccountInv => SessionIsOneAccount
  BY DEF AccountInv, SessionIsOneAccount, Agree, OneSession
<1> QED BY <1>1, AlwaysAccountInv, PTL

(* PagesAlwaysActForTheirUser: the plan an account page shows, and every   *)
(* billing call it makes, are of the account it shows.                     *)
THEOREM PagesAlwaysActForTheirUser == Spec => []PageActsForItsUser
<1>1. TypeInv /\ AccountInv => PageActsForItsUser
  <2> SUFFICES ASSUME TypeInv, Agree
               PROVE  /\ \A p \in Pages : pages[p].view = "account" =>
                                           pages[p].plan \in {None, pages[p].shown}
                      /\ \A c \in Calls :
                           calls[c].pc = "calling" /\ pages[calls[c].page].view = "account"
                           => calls[c].access = pages[calls[c].page].shown
    BY DEF AccountInv, PageActsForItsUser
  <2> QED BY DEF TypeInv, CallOK, Agree, PagesAgree, Matches
<1> QED BY <1>1, AlwaysTypeInv, AlwaysAccountInv, PTL

-----------------------------------------------------------------------------
(* Tokens.  Who holds which refresh token, and which of them are live.     *)

Holding(call) == call.pc \in {"refreshing", "rotating"}

(* A token auth-svc has just answered with is with its call alone, and a   *)
(* token's line is that of an earlier sign-in.                             *)
Refs ==
  /\ stored.user = None => stored.refresh = 0
  /\ \A c \in Calls : calls[c].pc = "refreshed" =>
       /\ calls[c].refresh # stored.refresh
       /\ \A d \in Calls \ {c} : calls[d].refresh # calls[c].refresh
  /\ \A m \in 1..Len(issued) : issued[m].line \in 1..m

(* The stored token is live or its successor is under way.                 *)
OnTheWay(c, token) ==
  calls[c].pc = "refreshed" /\ issued[calls[c].refresh].line = issued[token].line

Served ==
  /\ \A c \in Calls : calls[c].pc = "refreshed" => calls[c].refresh \in live
  /\ stored.refresh # 0 => \/ stored.refresh \in live
                           \/ \E c \in Calls : OnTheWay(c, stored.refresh)

(* Two calls refresh with two tokens.                                      *)
Apart ==
  \A c, d \in Calls :
    c # d /\ Holding(calls[c]) /\ Holding(calls[d]) =>
      calls[c].refresh # calls[d].refresh

(* A sign-in has one live token, and that is the one being rotated.        *)
OneLine ==
  /\ \A c \in Calls : calls[c].pc = "rotating" => calls[c].refresh \in live
  /\ \A m, n \in live : issued[m].line = issued[n].line => m = n

Undeleted == {"overlap", "delete_error", "left"}

TokenInv ==
  /\ Refs
  /\ Spared({"network", "left"}) => Served
  /\ Spared({"overlap"}) => Apart
  /\ Spared(Undeleted) => OneLine

LEMMA SparedBefore ==
  ASSUME mishaps \subseteq mishaps', NEW causes, Spared(causes)'
  PROVE  Spared(causes)
BY DEF Spared

LEMMA SparedEach ==
  /\ Spared({"network", "left"}) <=> "network" \notin mishaps /\ "left" \notin mishaps
  /\ Spared({"overlap"}) <=> "overlap" \notin mishaps
  /\ Spared(Undeleted) <=>
       "overlap" \notin mishaps /\ "delete_error" \notin mishaps /\ "left" \notin mishaps
BY DEF Spared, Undeleted

LEMMA StepRefs ==
  ASSUME NEW page, NEW kind, NEW session
  PROVE  LET call == TokenStep(page, kind, session) IN
         /\ call.refresh \in {0, session.refresh}
         /\ call.pc \in {"idle", "refreshing", "calling"}
         /\ call.pc = "refreshing" => /\ session.soon /\ session.refresh # 0
                                      /\ call.refresh = session.refresh
BY DEF TokenStep, IdleCall, CanRefresh

LEMMA RefreshedRefs ==
  ASSUME TypeInv
  PROVE  /\ \A c \in Calls : calls[c].pc \in {"refreshing", "rotating", "refreshed"} =>
              calls[c].refresh \in 1..Len(issued)
         /\ \A c \in Calls : calls[c].refresh \in 0..Len(issued)
         /\ stored.refresh \in 0..Len(issued) /\ live \subseteq 1..Len(issued)
         /\ Len(issued) \in Nat
<1>1. /\ Len(issued) \in Nat /\ MaxTokens \in Nat
      /\ stored.refresh \in 0..MaxTokens /\ stored.refresh <= Len(issued)
  BY WebAssumption, Lengths DEF TypeInv, SessionOK, Sessions
<1>2. \A c \in Calls : /\ calls[c].refresh \in 0..MaxTokens
                       /\ calls[c].refresh <= Len(issued)
                       /\ calls[c].pc \in {"refreshing", "rotating", "refreshed"} =>
                            calls[c].refresh # 0
  BY DEF TypeInv, CallOK, CallRecords
<1> QED BY <1>1, <1>2 DEF TypeInv

-----------------------------------------------------------------------------
(* One call moves on, keeping its token, dropping it or taking the stored  *)
(* one; a page may have stored the token of this call.                     *)
LEMMA CallMoves ==
  ASSUME TypeInv, TypeInv', TokenInv, mishaps \subseteq mishaps',
         NEW c \in Calls, NEW call, calls' = [calls EXCEPT ![c] = call],
         issued' = issued, live' \subseteq live,
         call.pc # "refreshed", call.refresh \in {0, calls[c].refresh, stored'.refresh},
         stored'.user = None => stored'.refresh = 0,
         \/ stored'.refresh \in {0, stored.refresh}
         \/ calls[c].pc = "refreshed" /\ stored'.refresh = calls[c].refresh,
         Spared({"network", "left"})' =>
           /\ live' = live
           /\ calls[c].pc = "refreshed" => stored'.refresh \in {0, calls[c].refresh},
         Spared({"overlap"})' /\ Holding(call) =>
           \/ Holding(calls[c]) /\ call.refresh = calls[c].refresh
           \/ \A d \in Calls \ {c} : Holding(calls[d]) => calls[d].refresh # call.refresh,
         call.pc = "rotating" => call.refresh \in live',
         Spared(Undeleted)' => \A d \in Calls \ {c} :
           calls[d].pc = "rotating" => calls[d].refresh \in live'
  PROVE  TokenInv'
<1>1. /\ calls'[c] = call /\ \A d \in Calls \ {c} : calls'[d] = calls[d]
  BY DEF TypeInv
<1>2. \A d \in Calls : calls[d].pc = "refreshed" => calls[d].refresh # 0
  BY RefreshedRefs
<1>3. Refs'
  <2>1. ASSUME NEW d \in Calls, calls'[d].pc = "refreshed"
        PROVE  /\ calls'[d].refresh # stored'.refresh
               /\ \A e \in Calls \ {d} : calls'[e].refresh # calls'[d].refresh
    <3>1. d # c /\ calls'[d] = calls[d] BY <1>1, <2>1
    <3>2. /\ calls[d].refresh # stored.refresh /\ calls[d].refresh # 0
          /\ \A e \in Calls \ {d} : calls[e].refresh # calls[d].refresh
      BY <1>2, <2>1, <3>1 DEF TokenInv, Refs
    <3>3. calls[d].refresh # stored'.refresh BY <3>1, <3>2
    <3> QED BY <1>1, <3>1, <3>2, <3>3
  <2> QED BY <2>1 DEF TokenInv, Refs
<1>4. Spared({"network", "left"})' => Served'
  <2> SUFFICES ASSUME Spared({"network", "left"})' PROVE Served' OBVIOUS
  <2>1. Served /\ live' = live BY SparedBefore DEF TokenInv
  <2>2. \A d \in Calls : calls'[d].pc = "refreshed" => calls'[d].refresh \in live'
    BY <1>1, <2>1 DEF Served
  <2>3. ASSUME stored'.refresh # 0
        PROVE  \/ stored'.refresh \in live'
               \/ \E d \in Calls : OnTheWay(d, stored.refresh)'
    <3>1. CASE calls[c].pc = "refreshed"
      <4>1. stored'.refresh = calls[c].refresh BY <2>3, <3>1
      <4> QED BY <2>1, <3>1, <4>1 DEF Served
    <3>2. CASE calls[c].pc # "refreshed"
      <4>1. stored'.refresh = stored.refresh BY <2>3, <3>2
      <4>2. ASSUME NEW d \in Calls, OnTheWay(d, stored.refresh)
            PROVE  OnTheWay(d, stored.refresh)'
        BY <1>1, <3>2, <4>1, <4>2 DEF OnTheWay
      <4> QED BY <2>1, <2>3, <4>1, <4>2 DEF Served
    <3> QED BY <3>1, <3>2
  <2> QED BY <2>2, <2>3 DEF Served
<1>5. Spared({"overlap"})' => Apart'
  <2> SUFFICES ASSUME Spared({"overlap"})' PROVE Apart' OBVIOUS
  <2>1. Apart BY SparedBefore DEF TokenInv
  <2> QED BY <1>1, <2>1 DEF Apart
<1>6. Spared(Undeleted)' => OneLine'
  <2> SUFFICES ASSUME Spared(Undeleted)' PROVE OneLine' OBVIOUS
  <2>1. OneLine BY SparedBefore DEF TokenInv
  <2> QED BY <1>1, <2>1 DEF OneLine
<1> QED BY <1>3, <1>4, <1>5, <1>6 DEF TokenInv

-----------------------------------------------------------------------------
(* A page is loaded.                                                       *)

LEMMA LeftUnnoted ==
  ASSUME NEW p, NEW noted, NEW new, Left(p, noted, new), "left" \notin mishaps'
  PROVE  /\ live' = live \cup new
         /\ \A c \in Calls : calls[c].page = p =>
              calls[c].pc \notin {"refreshing", "rotating", "refreshed"}
<1>1. ~\E c \in CallsOf(p) : calls[c].pc \in {"refreshing", "rotating", "refreshed"}
  BY DEF Left, Note, If
<1>2. {calls[c].refresh : c \in {d \in CallsOf(p) : Unanswered(d)}} = {}
  BY <1>1 DEF Unanswered
<1> QED BY <1>1, <1>2 DEF Left, CallsOf

Loaded(c, p) == \/ c \in CallsOf(p) /\ calls'[c] = IdleCall
                \/ c \notin CallsOf(p) /\ calls'[c] = calls[c]

LEMMA OpenedCalls ==
  ASSUME NEW p \in Pages, NEW view, NEW session, Opened(p, view, session)
  PROVE  /\ \A c \in Calls :
              \/ Loaded(c, p)
              \/ /\ calls'[c] = TokenStep(p, "status", session)
                 /\ calls[c].pc = "idle" \/ c \in CallsOf(p)
         /\ \A c, d \in Calls : c # d => Loaded(c, p) \/ Loaded(d, p)
<1>1. CASE session.user # None
  <2>1. PICK o \in Calls :
          /\ calls[o].pc = "idle" \/ o \in CallsOf(p)
          /\ calls' = [d \in Calls |-> IF d = o THEN TokenStep(p, "status", session)
                                       ELSE IF d \in CallsOf(p) THEN IdleCall
                                       ELSE calls[d]]
    BY <1>1, Zenon DEF Opened
  <2>2. /\ calls'[o] = TokenStep(p, "status", session)
        /\ calls[o].pc = "idle" \/ o \in CallsOf(p)
        /\ \A d \in Calls : d # o =>
             calls'[d] = IF d \in CallsOf(p) THEN IdleCall ELSE calls[d]
    BY <2>1
  <2> QED BY <2>2 DEF Loaded
<1>2. CASE session.user = None
  <2>1. calls' = [c \in Calls |-> IF c \in CallsOf(p) THEN IdleCall ELSE calls[c]]
    BY <1>2, Zenon DEF Opened
  <2> QED BY <2>1 DEF Loaded
<1> QED BY <1>1, <1>2

LEMMA PageLoads ==
  ASSUME TypeInv, TypeInv', TokenInv, mishaps \subseteq mishaps',
         NEW p \in Pages, NEW view, NEW noted, NEW new,
         Opened(p, view, stored'), Left(p, noted, new),
         Len(issued) <= Len(issued'), \A i \in 1..Len(issued) : issued'[i] = issued[i],
         \A m \in 1..Len(issued') : issued'[m].line \in 1..m,
         new \cap 1..Len(issued) = {},
         \A m \in new, n \in live' : issued'[m].line = issued'[n].line => m = n,
         stored'.user = None => stored'.refresh = 0,
         stored'.refresh \in {0, stored.refresh} \cup new,
         Spared({"overlap"})' /\ stored'.soon =>
           \A c \in Calls \ CallsOf(p) : Holding(calls[c]) =>
                                           calls[c].refresh # stored'.refresh
  PROVE  TokenInv'
<1> DEFINE step == TokenStep(p, "status", stored')
<1>1. /\ \A c \in Calls :
           Loaded(c, p) \/ (calls'[c] = step /\ (calls[c].pc = "idle" \/ c \in CallsOf(p)))
      /\ \A c, d \in Calls : c # d => Loaded(c, p) \/ Loaded(d, p)
  BY OpenedCalls, Zenon
<1>2. /\ step.refresh \in {0, stored'.refresh}
      /\ step.pc \in {"idle", "refreshing", "calling"}
      /\ step.pc = "refreshing" => stored'.soon /\ step.refresh = stored'.refresh
  BY StepRefs
<1> HIDE DEF step
<1>3. IdleCall.pc = "idle" /\ IdleCall.refresh = 0 BY DEF IdleCall
<1>4. /\ \A c \in Calls : calls'[c].pc \in {"refreshed", "rotating"} =>
           calls'[c] = calls[c] /\ c \notin CallsOf(p)
      /\ \A c \in Calls : calls'[c].refresh \in {0, calls[c].refresh, stored'.refresh}
  BY <1>1, <1>2, <1>3 DEF Loaded
<1>5. /\ \A c \in Calls : calls[c].pc \in {"refreshing", "rotating", "refreshed"} =>
           calls[c].refresh \in 1..Len(issued)
      /\ live \subseteq 1..Len(issued) /\ Len(issued) \in Nat /\ 0 \notin 1..Len(issued)
      /\ stored.refresh \in 0..Len(issued)
  BY RefreshedRefs
<1>6. Refs'
  <2>1. ASSUME NEW c \in Calls, calls'[c].pc = "refreshed"
        PROVE  /\ calls'[c].refresh # stored'.refresh
               /\ \A d \in Calls \ {c} : calls'[d].refresh # calls'[c].refresh
    <3>1. calls'[c] = calls[c] /\ calls[c].refresh \in 1..Len(issued)
      BY <1>4, <1>5, <2>1
    <3>2. /\ calls[c].refresh # stored.refresh /\ calls[c].refresh # 0
          /\ \A d \in Calls \ {c} : calls[d].refresh # calls[c].refresh
      BY <1>5, <2>1, <3>1 DEF TokenInv, Refs
    <3>3. calls[c].refresh # stored'.refresh BY <3>1, <3>2
    <3> QED BY <1>4, <3>1, <3>2, <3>3
  <2> QED BY <2>1 DEF Refs
<1>7. Spared({"network", "left"})' => Served'
  <2> SUFFICES ASSUME Spared({"network", "left"})' PROVE Served' OBVIOUS
  <2>1. Served BY SparedBefore DEF TokenInv
  <2>2. "left" \notin mishaps' BY DEF Spared
  <2>3. /\ live' = live \cup new
        /\ \A c \in Calls : calls[c].pc = "refreshed" => c \notin CallsOf(p)
    BY <2>2, LeftUnnoted DEF CallsOf
  <2>4. \A c \in Calls : calls'[c].pc = "refreshed" => calls'[c].refresh \in live'
    BY <1>4, <2>1, <2>3 DEF Served
  <2>5. \A c \in Calls : calls[c].pc = "refreshed" => calls'[c] = calls[c]
    BY <1>1, <2>3 DEF Loaded
  <2>6. ASSUME stored'.refresh # 0, stored'.refresh \notin new
        PROVE  \/ stored'.refresh \in live'
               \/ \E c \in Calls : OnTheWay(c, stored.refresh)'
    <3>1. stored'.refresh = stored.refresh /\ stored.refresh \in 1..Len(issued)
      BY <1>5, <2>6
    <3>2. ASSUME NEW c \in Calls, OnTheWay(c, stored.refresh)
          PROVE  \E d \in Calls : OnTheWay(d, stored.refresh)'
      BY <1>5, <2>5, <3>1, <3>2 DEF OnTheWay
    <3> QED BY <2>1, <2>3, <2>6, <3>1, <3>2 DEF Served
  <2> QED BY <2>3, <2>4, <2>6 DEF Served
<1>8. Spared({"overlap"})' => Apart'
  <2> SUFFICES ASSUME Spared({"overlap"})' PROVE Apart' OBVIOUS
  <2>1. Apart BY SparedBefore DEF TokenInv
  <2>2. \A c \in Calls : Loaded(c, p) /\ Holding(calls'[c]) =>
          calls'[c] = calls[c] /\ c \notin CallsOf(p)
    BY <1>3 DEF Loaded, Holding
  <2>3. ASSUME NEW c \in Calls, NEW d \in Calls, c # d, Loaded(d, p),
               Holding(calls'[c]), Holding(calls'[d])
        PROVE  calls'[c].refresh # calls'[d].refresh
    <3>1. calls'[d] = calls[d] /\ d \notin CallsOf(p) BY <2>2, <2>3
    <3>2. CASE Loaded(c, p) BY <2>1, <2>2, <2>3, <3>1, <3>2 DEF Apart
    <3>3. CASE calls'[c] = step BY <1>2, <2>3, <3>1, <3>3 DEF Holding
    <3> QED BY <1>1, <3>2, <3>3
  <2> QED BY <1>1, <2>3 DEF Apart
<1>9. Spared(Undeleted)' => OneLine'
  <2> SUFFICES ASSUME Spared(Undeleted)' PROVE OneLine' OBVIOUS
  <2>1. OneLine BY SparedBefore DEF TokenInv
  <2>2. "left" \notin mishaps' BY DEF Spared, Undeleted
  <2>3. live' = live \cup new BY <2>2, LeftUnnoted
  <2> QED BY <1>4, <1>5, <2>1, <2>3 DEF OneLine
<1> QED BY <1>6, <1>7, <1>8, <1>9 DEF TokenInv

-----------------------------------------------------------------------------
(* The actions.                                                            *)

LEMMA OpenPageTokens ==
  ASSUME TypeInv, TypeInv', TokenInv, mishaps \subseteq mishaps',
         NEW p \in Pages, NEW view \in {"home", "account"}, OpenPage(p, view)
  PROVE  TokenInv'
<1> DEFINE used == /\ stored.soon
                   /\ \E c \in Calls \ CallsOf(p) :
                        Unanswered(c) /\ calls[c].refresh = stored.refresh
<1>1. /\ stored' = stored /\ issued' = issued /\ Opened(p, view, stored')
      /\ Left(p, If(used, "overlap"), {})
  BY DEF OpenPage
<1>2. Spared({"overlap"})' => ~used
  BY <1>1 DEF Left, Note, If, Spared
<1>3. Spared({"overlap"})' /\ stored'.soon =>
        \A c \in Calls \ CallsOf(p) : Holding(calls[c]) =>
                                        calls[c].refresh # stored'.refresh
  BY <1>1, <1>2 DEF Holding, Unanswered
<1>4. /\ \A m \in 1..Len(issued') : issued'[m].line \in 1..m
      /\ stored'.user = None => stored'.refresh = 0
      /\ Len(issued) <= Len(issued')
  BY <1>1, Lengths DEF TokenInv, Refs
<1> HIDE DEF used
<1> QED BY <1>1, <1>3, <1>4, PageLoads

LEMMA ToHomeTokens ==
  ASSUME TypeInv, TypeInv', TokenInv, mishaps \subseteq mishaps',
         NEW p \in Pages, stored' = NoSession, UNCHANGED issued,
         Opened(p, "home", NoSession), Left(p, {}, {})
  PROVE  TokenInv'
<1>1. /\ stored'.refresh = 0 /\ ~stored'.soon /\ Opened(p, "home", stored')
  BY DEF NoSession
<1>2. /\ \A m \in 1..Len(issued') : issued'[m].line \in 1..m
      /\ Len(issued) <= Len(issued')
  BY Lengths DEF TokenInv, Refs
<1> QED BY <1>1, <1>2, PageLoads

LEMMA SignInTokens ==
  ASSUME TypeInv, TypeInv', TokenInv, mishaps \subseteq mishaps',
         NEW p \in Pages, NEW a \in Accounts, SignIn(p, a)
  PROVE  TokenInv'
<1> DEFINE n == Len(issued) + 1
<1>1. /\ n \in 1..MaxTokens /\ Len(issued') = n
      /\ \A i \in 1..Len(issued) : issued'[i] = issued[i]
      /\ stored' = [user |-> a, access |-> a, soon |-> FALSE, refresh |-> n]
      /\ Opened(p, "account", stored')
      /\ Left(p, If(OthersUse(p, a), "switched"), {n})
  BY SignInFacts
<1>2. issued'[n].line = n
  BY Lengths DEF SignIn
<1>3. Len(issued) \in Nat /\ live \subseteq 1..Len(issued) BY RefreshedRefs
<1>4. live' \subseteq live \cup {n} BY <1>1 DEF Left
<1>5. /\ n \in Nat /\ n > 0 /\ n \notin 1..Len(issued) /\ Len(issued) <= n
      /\ 1..n = 1..Len(issued) \cup {n} /\ \A m \in 1..Len(issued) : n \notin 1..m
  BY <1>3
<1>6. stored'.refresh = n /\ stored'.user = a /\ ~stored'.soon BY <1>1
<1> HIDE DEF n
<1>7. \A m \in 1..Len(issued') : issued'[m].line \in 1..m
  BY <1>1, <1>2, <1>5 DEF TokenInv, Refs
<1>8. \A m \in {n}, k \in live' : issued'[m].line = issued'[k].line => m = k
  BY <1>1, <1>2, <1>3, <1>4, <1>5 DEF TokenInv, Refs
<1>9. /\ {n} \cap 1..Len(issued) = {} /\ Len(issued) <= Len(issued')
      /\ stored'.user = None => stored'.refresh = 0
      /\ stored'.refresh \in {0, stored.refresh} \cup {n}
  BY <1>1, <1>5, <1>6, WebAssumption
<1> QED
  BY <1>1, <1>6, <1>7, <1>8, <1>9, PageLoads

LEMMA SignOutTokens ==
  ASSUME TypeInv, TypeInv', TokenInv, mishaps \subseteq mishaps',
         NEW p \in Pages, SignOut(p)
  PROVE  TokenInv'
<1>1. stored' = NoSession /\ UNCHANGED issued BY DEF SignOut
<1>2. CASE pages[p].view = "account" BY <1>1, <1>2, ToHomeTokens DEF SignOut
<1>3. CASE pages[p].view # "account"
  <2>1. UNCHANGED <<calls, live, mishaps>> /\ stored'.refresh = 0
    BY <1>1, <1>3 DEF SignOut, NoSession
  <2>2. \A c \in Calls : calls[c].pc = "refreshed" => calls[c].refresh # 0
    BY RefreshedRefs
  <2>3. Refs' BY <1>1, <2>1, <2>2 DEF TokenInv, Refs
  <2>4. Served => Served' BY <1>1, <2>1 DEF Served
  <2>5. Apart => Apart' BY <2>1 DEF Apart
  <2>6. OneLine => OneLine' BY <1>1, <2>1 DEF OneLine
  <2> QED BY <2>1, <2>3, <2>4, <2>5, <2>6 DEF TokenInv, Spared
<1> QED BY <1>2, <1>3

(* A call starts anew with the stored session.                             *)
LEMMA SteppedTokens ==
  ASSUME NEW c \in Calls, NEW p, NEW kind, NEW call,
         TypeInv, TypeInv', TokenInv, mishaps \subseteq mishaps',
         calls[c].pc \in {"idle", "calling"}, call = TokenStep(p, kind, stored),
         calls' = [calls EXCEPT ![c] = call], NoteOverlap(c),
         stored' = stored, issued' = issued, live' = live
  PROVE  TokenInv'
<1>1. /\ call.refresh \in {0, stored.refresh}
      /\ call.pc \in {"idle", "refreshing", "calling"}
      /\ call.pc = "refreshing" => stored.soon /\ call.refresh = stored.refresh
  BY StepRefs
<1>2. Spared({"overlap"})' => ~(stored.soon /\ Overlapping(c))
  BY DEF NoteOverlap, Note, If, Spared
<1>3. Spared({"overlap"})' /\ Holding(call) =>
        \A d \in Calls \ {c} : Holding(calls[d]) => calls[d].refresh # call.refresh
  BY <1>1, <1>2 DEF Holding, Overlapping
<1>4. stored'.user = None => stored'.refresh = 0 BY DEF TokenInv, Refs
<1>5. Spared(Undeleted)' => \A d \in Calls \ {c} :
        calls[d].pc = "rotating" => calls[d].refresh \in live'
  BY SparedBefore DEF TokenInv, OneLine
<1> QED BY <1>1, <1>3, <1>4, <1>5, CallMoves

(* A call ends.                                                            *)
LEMMA EndedTokens ==
  ASSUME TypeInv, TypeInv', TokenInv, mishaps \subseteq mishaps',
         NEW c \in Calls, calls' = [calls EXCEPT ![c] = IdleCall],
         calls[c].pc # "refreshed", UNCHANGED <<issued, live>>,
         stored' \in {stored, NoSession}
  PROVE  TokenInv'
<1>1. /\ stored'.refresh \in {0, stored.refresh}
      /\ stored'.user = None => stored'.refresh = 0
  BY DEF TokenInv, Refs, NoSession
<1>2. IdleCall.pc = "idle" /\ IdleCall.refresh = 0 /\ ~Holding(IdleCall)
  BY DEF IdleCall, Holding
<1>3. Spared(Undeleted)' => \A d \in Calls \ {c} :
        calls[d].pc = "rotating" => calls[d].refresh \in live'
  BY SparedBefore DEF TokenInv, OneLine
<1> QED BY <1>1, <1>2, <1>3, CallMoves

LEMMA TokenAgesTokens ==
  ASSUME TypeInv, TokenInv, TokenAges PROVE TokenInv'
<1>1. /\ stored'.user = stored.user /\ stored'.refresh = stored.refresh
      /\ UNCHANGED <<calls, issued, live, mishaps>>
  BY DEF TokenAges, TypeInv, SessionOK, Sessions
<1>2. Refs' BY <1>1 DEF TokenInv, Refs
<1>3. Served => Served' BY <1>1 DEF Served, OnTheWay
<1>4. Apart => Apart' BY <1>1 DEF Apart
<1>5. OneLine => OneLine' BY <1>1 DEF OneLine
<1> QED BY <1>1, <1>2, <1>3, <1>4, <1>5 DEF TokenInv, Spared

LEMMA ReadTokenTokens ==
  ASSUME TypeInv, TypeInv', TokenInv, NEW c \in Calls, ReadToken(c) PROVE TokenInv'
<1> DEFINE pc == IF calls[c].refresh \in live THEN "rotating" ELSE "refused"
           call == [calls[c] EXCEPT !.pc = pc]
<1>1. /\ calls' = [calls EXCEPT ![c] = call] /\ calls[c].pc = "refreshing"
      /\ UNCHANGED <<stored, issued, live, mishaps>>
  BY DEF ReadToken, To
<1>2. call.refresh = calls[c].refresh /\ call.pc = pc
  BY DEF TypeInv, CallOK, CallRecords
<1>3. /\ call.pc # "refreshed" /\ call.pc = "rotating" => call.refresh \in live
      /\ Holding(calls[c])
  BY <1>1, <1>2 DEF Holding
<1> HIDE DEF call
<1>4. stored'.user = None => stored'.refresh = 0 BY <1>1 DEF TokenInv, Refs
<1>5. Spared(Undeleted)' => \A d \in Calls \ {c} :
        calls[d].pc = "rotating" => calls[d].refresh \in live'
  BY <1>1 DEF TokenInv, OneLine, Spared
<1> QED BY <1>1, <1>2, <1>3, <1>4, <1>5, CallMoves

LEMMA RefreshFailsTokens ==
  ASSUME TypeInv, TypeInv', TokenInv, mishaps \subseteq mishaps',
         NEW c \in Calls, RefreshFails(c)
  PROVE  TokenInv'
<1> DEFINE call == [calls[c] EXCEPT !.pc = "refused"]
<1>1. /\ calls' = [calls EXCEPT ![c] = call]
      /\ calls[c].pc \in {"refreshing", "rotating", "refreshed"}
      /\ UNCHANGED <<stored, issued>> /\ live' \subseteq live
      /\ \A m \in live : m # calls[c].refresh => m \in live'
      /\ "network" \in mishaps'
  BY DEF RefreshFails, To, Deleted, Fault, Note
<1>2. call.refresh = calls[c].refresh /\ call.pc = "refused" /\ ~Holding(call)
  BY DEF TypeInv, CallOK, CallRecords, Holding
<1> HIDE DEF call
<1>3. stored'.user = None => stored'.refresh = 0 BY <1>1 DEF TokenInv, Refs
<1>4. ASSUME Spared(Undeleted)', NEW d \in Calls \ {c}, calls[d].pc = "rotating"
      PROVE  calls[d].refresh \in live'
  <2>1. Spared(Undeleted) /\ Spared({"overlap"})
    BY <1>4, SparedBefore, SparedEach
  <2>2. Apart /\ OneLine BY <2>1 DEF TokenInv
  <2>3. calls[d].refresh # calls[c].refresh
    <3>1. CASE calls[c].pc = "refreshed" BY <3>1 DEF TokenInv, Refs
    <3>2. CASE calls[c].pc # "refreshed"
      BY <1>1, <1>4, <2>2, <3>2 DEF Apart, Holding
    <3> QED BY <3>1, <3>2
  <2> QED BY <1>1, <1>4, <2>2, <2>3 DEF OneLine
<1>5. ~Spared({"network", "left"})' BY <1>1 DEF Spared
<1> QED BY <1>1, <1>2, <1>3, <1>4, <1>5, CallMoves

LEMMA RotateTokenTokens ==
  ASSUME TypeInv, TypeInv', TokenInv, mishaps \subseteq mishaps',
         NEW c \in Calls, RotateToken(c)
  PROVE  TokenInv'
<1> DEFINE n == Len(issued) + 1
           old == calls[c].refresh
<1>1. /\ old \in 1..Len(issued) /\ Len(issued') = n
      /\ issued'[n] = issued[old]
      /\ \A i \in 1..Len(issued) : issued'[i] = issued[i]
      /\ calls'[c].pc = "refreshed" /\ calls'[c].refresh = n
      /\ \A d \in Calls \ {c} : calls'[d] = calls[d]
      /\ UNCHANGED stored
  BY RotateFacts DEF TypeInv
<1>2. /\ calls[c].pc = "rotating"
      /\ \/ live' = (live \ {old}) \cup {n}
         \/ "delete_error" \in mishaps' /\ live' = live \cup {n}
  BY DEF RotateToken, Deleted, Fault, Note
<1>3. /\ Len(issued) \in Nat /\ live \subseteq 1..Len(issued)
      /\ stored.refresh \in 0..Len(issued)
      /\ \A d \in Calls : calls[d].refresh \in 0..Len(issued)
      /\ \A d \in Calls : calls[d].pc = "refreshed" =>
           calls[d].refresh \in 1..Len(issued)
  BY RefreshedRefs
<1>4. /\ n \in Nat /\ n \notin 0..Len(issued) /\ n \notin 1..Len(issued)
      /\ 1..n = 1..Len(issued) \cup {n} /\ \A m \in 1..Len(issued) : 1..m \subseteq 1..n
  BY <1>3
<1> HIDE DEF n, old
<1>5. Refs'
  <2>1. ASSUME NEW d \in Calls, calls'[d].pc = "refreshed"
        PROVE  /\ calls'[d].refresh # stored'.refresh
               /\ \A e \in Calls \ {d} : calls'[e].refresh # calls'[d].refresh
    <3>1. CASE d = c BY <1>1, <1>3, <1>4, <3>1
    <3>2. CASE d # c
      <4>1. /\ calls'[d] = calls[d] /\ calls[d].pc = "refreshed"
            /\ calls[d].refresh # n
        BY <1>1, <1>3, <1>4, <2>1, <3>2
      <4> QED BY <1>1, <3>2, <4>1 DEF TokenInv, Refs
    <3> QED BY <3>1, <3>2
  <2>2. \A m \in 1..Len(issued') : issued'[m].line \in 1..m
    BY <1>1, <1>4 DEF TokenInv, Refs
  <2> QED BY <1>1, <2>1, <2>2 DEF TokenInv, Refs
<1>6. Spared({"network", "left"})' => Served'
  <2> SUFFICES ASSUME Spared({"network", "left"})' PROVE Served' OBVIOUS
  <2>1. Served BY SparedBefore DEF TokenInv
  <2>2. ASSUME NEW d \in Calls, calls'[d].pc = "refreshed"
        PROVE  calls'[d].refresh \in live'
    <3>1. CASE d = c BY <1>1, <1>2, <3>1
    <3>2. CASE d # c
      <4>1. calls'[d] = calls[d] /\ calls[d].refresh # calls[c].refresh
        BY <1>1, <2>2, <3>2 DEF TokenInv, Refs
      <4> QED BY <1>2, <2>1, <2>2, <4>1 DEF Served, old
    <3> QED BY <3>1, <3>2
  <2>3. ASSUME stored'.refresh # 0
        PROVE  \/ stored'.refresh \in live'
               \/ \E d \in Calls : OnTheWay(d, stored.refresh)'
    <3>1. stored'.refresh = stored.refresh /\ stored.refresh \in 1..Len(issued)
      BY <1>1, <1>3, <2>3
    <3>2. CASE stored.refresh = old
      BY <1>1, <3>1, <3>2 DEF OnTheWay
    <3>3. CASE stored.refresh # old /\ stored.refresh \in live
      BY <1>2, <3>1, <3>3
    <3>4. ASSUME NEW d \in Calls, OnTheWay(d, stored.refresh)
          PROVE  OnTheWay(d, stored.refresh)'
      <4>1. d # c /\ calls'[d] = calls[d] /\ calls[d].refresh \in 1..Len(issued)
        BY <1>1, <1>2, <1>3, <3>4 DEF OnTheWay
      <4> QED BY <1>1, <3>1, <3>4, <4>1 DEF OnTheWay
    <3> QED BY <2>1, <3>1, <3>2, <3>3, <3>4 DEF Served
  <2> QED BY <2>2, <2>3 DEF Served
<1>7. Spared({"overlap"})' => Apart'
  <2> SUFFICES ASSUME Spared({"overlap"})' PROVE Apart' OBVIOUS
  <2>1. Apart BY SparedBefore DEF TokenInv
  <2> QED BY <1>1, <2>1 DEF Apart, Holding
<1>8. Spared(Undeleted)' => OneLine'
  <2> SUFFICES ASSUME Spared(Undeleted)' PROVE OneLine' OBVIOUS
  <2>1. Spared(Undeleted) /\ Spared({"overlap"}) /\ "delete_error" \notin mishaps'
    BY SparedBefore, SparedEach DEF Spared, Undeleted
  <2>2. OneLine /\ Apart BY <2>1 DEF TokenInv
  <2>3. live' = (live \ {old}) \cup {n} /\ old \in live
    BY <1>2, <2>1, <2>2 DEF OneLine, old
  <2>4. ASSUME NEW d \in Calls, calls'[d].pc = "rotating"
        PROVE  calls'[d].refresh \in live'
    <3>1. d # c /\ calls'[d] = calls[d] BY <1>1, <2>4
    <3>2. calls[d].refresh # old
      BY <1>2, <2>2, <2>4, <3>1 DEF Apart, Holding, old
    <3> QED BY <2>2, <2>3, <2>4, <3>1, <3>2 DEF OneLine
  <2>5. \A m \in live' : m = n \/ (m \in live /\ m # old /\ issued'[m] = issued[m])
    BY <1>1, <1>3, <2>3
  <2>6. \A m, k \in live' : issued'[m].line = issued'[k].line => m = k
    BY <1>1, <2>2, <2>3, <2>5 DEF OneLine
  <2> QED BY <2>4, <2>6 DEF OneLine
<1> QED BY <1>5, <1>6, <1>7, <1>8 DEF TokenInv

LEMMA RefreshAnsweredTokens ==
  ASSUME TypeInv, TypeInv', TokenInv, mishaps \subseteq mishaps',
         NEW c \in Calls, RefreshAnswered(c)
  PROVE  TokenInv'
<1> DEFINE session == [stored' EXCEPT !.soon = FALSE]
           call == TokenStep(calls[c].page, calls[c].kind, session)
<1>0. /\ calls[c].refresh \in 1..Len(issued)
      /\ stored' \in Sessions
      /\ stored.user = None => stored' = stored
      /\ stored.user # None =>
           stored' = [user |-> stored.user, access |-> issued[calls[c].refresh].account,
                      soon |-> FALSE, refresh |-> calls[c].refresh]
      /\ calls' = [calls EXCEPT ![c] = call]
      /\ UNCHANGED <<issued, live, mishaps>>
  BY RefreshedFacts
<1>1. /\ stored' \in Sessions /\ calls[c].pc = "refreshed"
      /\ stored.user = None => stored' = stored
      /\ stored.user # None => stored'.user # None /\ stored'.refresh = calls[c].refresh
      /\ calls' = [calls EXCEPT ![c] = call]
      /\ UNCHANGED <<issued, live, mishaps>>
  BY <1>0 DEF RefreshAnswered
<1>2. ~session.soon /\ session.refresh = stored'.refresh BY <1>1 DEF Sessions
<1> HIDE DEF session
<1>3. /\ call.refresh \in {0, stored'.refresh} /\ call.pc \in {"idle", "calling"}
  BY <1>2, StepRefs
<1> HIDE DEF call
<1>4. /\ stored'.user = None => stored'.refresh = 0
      /\ stored'.refresh \in {0, calls[c].refresh}
  BY <1>1 DEF TokenInv, Refs
<1>5. Spared(Undeleted)' => \A d \in Calls \ {c} :
        calls[d].pc = "rotating" => calls[d].refresh \in live'
  BY <1>1, SparedBefore DEF TokenInv, OneLine
<1> QED BY <1>1, <1>3, <1>4, <1>5, CallMoves DEF Holding

LEMMA RefreshRefusedTokens ==
  ASSUME TypeInv, TypeInv', TokenInv, mishaps \subseteq mishaps',
         NEW c \in Calls, RefreshRefused(c)
  PROVE  TokenInv'
<1>1. /\ stored' = NoSession /\ UNCHANGED issued /\ calls[c].page \in Pages
      /\ calls[c].pc = "refused"
  BY DEF RefreshRefused, TypeInv, CallOK
<1>2. CASE pages[calls[c].page].view = "account"
  BY <1>1, <1>2, ToHomeTokens DEF RefreshRefused
<1>3. CASE pages[calls[c].page].view # "account"
  <2>1. calls' = [calls EXCEPT ![c] = IdleCall] /\ UNCHANGED live
    BY <1>3 DEF RefreshRefused
  <2> QED BY <1>1, <2>1, EndedTokens
<1> QED BY <1>2, <1>3

LEMMA BillingTokens ==
  ASSUME TypeInv, TypeInv', TokenInv, mishaps \subseteq mishaps',
         NEW c \in Calls, BillingAnswered(c) \/ BillingFails(c)
  PROVE  TokenInv'
<1>1. calls[c].pc = "calling" /\ UNCHANGED <<stored, issued, live>>
  BY DEF BillingAnswered, BillingFails
<1>2. CASE calls' = [calls EXCEPT ![c] = IdleCall] BY <1>1, <1>2, EndedTokens
<1>3. CASE calls' # [calls EXCEPT ![c] = IdleCall]
  <2> DEFINE call == TokenStep(calls[c].page, "status", stored)
  <2>1. calls' = [calls EXCEPT ![c] = call] /\ NoteOverlap(c)
    BY <1>3 DEF BillingAnswered, BillingFails
  <2>2. call = TokenStep(calls[c].page, "status", stored) OBVIOUS
  <2> HIDE DEF call
  <2> QED BY <1>1, <2>1, <2>2, SteppedTokens
<1> QED BY <1>2, <1>3

LEMMA TokensStay == TypeInv /\ TokenInv /\ [Next]_vars => TokenInv'
<1> SUFFICES ASSUME TypeInv, TokenInv, [Next]_vars PROVE TokenInv' OBVIOUS
<1>1. TypeInv' /\ mishaps \subseteq mishaps' BY TypeStays, MishapsGrow
<1>2. CASE UNCHANGED vars
  <2>1. UNCHANGED <<stored, calls, issued, live, mishaps>> BY <1>2 DEF vars
  <2>2. /\ Refs => Refs'
        /\ Served => Served'
        /\ Apart => Apart'
        /\ OneLine => OneLine'
    BY <2>1 DEF Refs, Served, OnTheWay, Apart, OneLine
  <2> QED BY <2>1, <2>2 DEF TokenInv, Spared
<1>3. ASSUME NEW p \in Pages, NEW c \in Calls, NEW kind, Act(p, c, kind) PROVE TokenInv'
  <2> DEFINE call == TokenStep(p, kind, stored)
  <2>1. /\ calls[c].pc = "idle" /\ calls' = [calls EXCEPT ![c] = call] /\ NoteOverlap(c)
        /\ UNCHANGED <<stored, issued, live>>
    BY <1>3 DEF Act
  <2>2. call = TokenStep(p, kind, stored) OBVIOUS
  <2> HIDE DEF call
  <2> QED BY <1>1, <2>1, <2>2, SteppedTokens
<1>4. ASSUME NEW c \in Calls, CallStep(c) PROVE TokenInv'
  BY <1>1, <1>4, ReadTokenTokens, RotateTokenTokens, RefreshFailsTokens,
     RefreshAnsweredTokens, RefreshRefusedTokens, BillingTokens DEF CallStep
<1> QED BY <1>1, <1>2, <1>3, <1>4, OpenPageTokens, SignInTokens, SignOutTokens,
           TokenAgesTokens DEF Next

(* AlwaysOneLiveToken: however tabs, calls and refreshes interleave, the   *)
(* stored refresh token is live or its successor is on the way to a page,  *)
(* and a sign-in has one live token, short of the mishaps the property     *)
(* names: auth-svc's read, delete and store of a rotation are three steps, *)
(* and the page stores the answer in a fourth.                             *)
THEOREM AlwaysOneLiveToken == Spec => []OneLiveToken
<1>1. Init => TokenInv
  <2> SUFFICES ASSUME Init PROVE TokenInv OBVIOUS
  <2>1. /\ stored.refresh = 0 /\ Len(issued) = 0 /\ live = {}
        /\ \A c \in Calls : calls[c].pc = "idle"
    BY DEF Init, NoSession, IdleCall
  <2> QED BY <2>1 DEF TokenInv, Refs, Served, Apart, OneLine, Holding
<1>2. TypeInv /\ TokenInv /\ [Next]_vars => TokenInv' BY TokensStay
<1>3. TokenInv => OneLiveToken
  <2>1. Spared({"network", "overlap", "left"}) => Spared({"network", "left"})
    BY DEF Spared
  <2>2. Spared({"overlap", "delete_error", "left"}) = Spared(Undeleted)
    BY DEF Undeleted
  <2> QED BY <2>1, <2>2 DEF TokenInv, Served, OnTheWay, OneLine, OneLiveToken
<1> QED BY <1>1, <1>2, <1>3, AlwaysTypeInv, PTL DEF Spec
=============================================================================
