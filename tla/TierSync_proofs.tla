-------------------------- MODULE TierSync_proofs --------------------------
(***************************************************************************)
(* Proofs about TierSync for all bounds: what is read, queued or signed    *)
(* and stems from the latest change agrees with it, and a consumer that    *)
(* missed nothing since is up to date once no event is under way.          *)
(***************************************************************************)
EXTENDS TierSync, TLAPS

(* The elements of a queue, and how sending and taking change them.        *)
Elems(q) == {q[k] : k \in DOMAIN q}

LEMMA QueueAppend ==
  ASSUME NEW S, NEW q \in Seq(S), NEW e \in S
  PROVE  /\ Append(q, e) \in Seq(S)
         /\ Elems(Append(q, e)) = Elems(q) \cup {e}
<1>1. Append(q, e) \in Seq(S) OBVIOUS
<1>2. \A k \in DOMAIN q : Append(q, e)[k] = q[k] /\ k \in DOMAIN Append(q, e)
  OBVIOUS
<1>3. Len(q) + 1 \in DOMAIN Append(q, e) /\ Append(q, e)[Len(q) + 1] = e
  OBVIOUS
<1>4. \A k \in DOMAIN Append(q, e) : k \in DOMAIN q \/ k = Len(q) + 1
  OBVIOUS
<1> QED BY <1>1, <1>2, <1>3, <1>4, Zenon DEF Elems

LEMMA QueueTail ==
  ASSUME NEW S, NEW q \in Seq(S), q # << >>
  PROVE  /\ Head(q) \in S /\ Tail(q) \in Seq(S)
         /\ Head(q) \in Elems(q)
         /\ Elems(Tail(q)) \subseteq Elems(q)
<1>1. Head(q) \in S /\ Tail(q) \in Seq(S) OBVIOUS
<1>2. 1 \in DOMAIN q /\ Head(q) = q[1] OBVIOUS
<1>3. \A k \in DOMAIN Tail(q) : k + 1 \in DOMAIN q /\ Tail(q)[k] = q[k + 1]
  OBVIOUS
<1>4. Head(q) \in Elems(q) BY <1>2, Zenon DEF Elems
<1>5. ASSUME NEW x \in Elems(Tail(q)) PROVE x \in Elems(q)
  <2>1. PICK k \in DOMAIN Tail(q) : x = Tail(q)[k] BY <1>5 DEF Elems
  <2> QED BY <1>3, <2>1, Zenon DEF Elems
<1> QED BY <1>1, <1>4, <1>5

LEMMA QueuedElems ==
  ASSUME NEW c
  PROVE  /\ Queued(c) = UNION {Elems(queue[c][s]) : s \in Subjects}
         /\ Queued(c)' = UNION {Elems(queue'[c][s]) : s \in Subjects}
BY DEF Queued, Elems

LEMMA NothingQueued ==
  ASSUME NEW c, queue'[c] = [s \in Subjects |-> << >>]
  PROVE  Queued(c)' = {}
BY DEF Queued

-----------------------------------------------------------------------------

THEOREM TypeCorrect == Spec => []TypeOK
<1>1. Init => TypeOK
  BY TierSyncAssumption DEF Init, TypeOK, Rows, Tiers, Consumers, Subjects
<1>2. TypeOK /\ [Next]_vars => TypeOK'
  <2> SUFFICES ASSUME TypeOK, [Next]_vars PROVE TypeOK'
    OBVIOUS
  <2> USE TierSyncAssumption
  <2>1. ASSUME NEW tier \in Tiers, NEW s \in Subjects, Change(tier, s)
        PROVE  TypeOK'
    <3>1. paid' \in Rows
      BY <2>1 DEF Change, TypeOK, Rows
    <3>2. Event(s, paid.n + 1) \in Events
      BY <2>1 DEF Change, TypeOK, Rows, Events, Event
    <3>3. gap' \in [Consumers -> BOOLEAN]
      BY <2>1 DEF Change, TypeOK
    <3> QED BY <2>1, <3>1, <3>2, <3>3 DEF Change, TypeOK
  <2>2. ASSUME NEW e \in outbox, NEW L, Publish(e, L),
               faults' \in 0..FaultLimit
        PROVE  TypeOK'
    <3>1. e \in Events /\ e.subject \in Subjects
      BY DEF TypeOK, Events
    <3>2. \A c \in Consumers : Append(queue[c][e.subject], e) \in Seq(Events)
      BY <3>1, QueueAppend DEF TypeOK
    <3>3. queue' \in [Consumers -> [Subjects -> Seq(Events)]]
      BY <2>2, <3>1, <3>2 DEF Publish, TypeOK
    <3>4. gap' \in [Consumers -> BOOLEAN]
      BY <2>2 DEF Publish, TypeOK
    <3> QED BY <2>2, <3>3, <3>4 DEF Publish, TypeOK
  <2>3. ASSUME NEW lost \in SUBSET outbox, NeverPublished(lost) PROVE TypeOK'
    BY <2>3 DEF NeverPublished, Fault, TypeOK
  <2>4. ASSUME NEW c \in Consumers, NEW s \in Subjects, queue[c][s] # << >>
        PROVE  /\ Head(queue[c][s]) \in Events
               /\ [queue EXCEPT ![c][s] = Tail(@)]
                    \in [Consumers -> [Subjects -> Seq(Events)]]
    <3>1. Head(queue[c][s]) \in Events /\ Tail(queue[c][s]) \in Seq(Events)
      BY <2>4, QueueTail DEF TypeOK
    <3> QED BY <3>1 DEF TypeOK
  <2>5. ASSUME NEW s \in Subjects, SyncAccount(s) PROVE TypeOK'
    <3>1. Head(queue["auth"][s]) \in Events
          /\ queue' \in [Consumers -> [Subjects -> Seq(Events)]]
      BY <2>4, <2>5 DEF SyncAccount, Taken, Consumers
    <3>2. account' \in Rows
      BY <2>5, <3>1 DEF SyncAccount, TierOf, Rows, Tiers, Events
    <3>3. gap' \in [Consumers -> BOOLEAN]
      BY <2>5 DEF SyncAccount, Told, TypeOK
    <3> QED BY <2>5, <3>1, <3>2, <3>3 DEF SyncAccount, TypeOK
  <2>6. ASSUME NEW s \in Subjects, SyncAccountFails(s) PROVE TypeOK'
    <3>1. queue' \in [Consumers -> [Subjects -> Seq(Events)]]
      BY <2>4, <2>6 DEF SyncAccountFails, Taken, Consumers
    <3>2. gap' \in [Consumers -> BOOLEAN]
      BY <2>6 DEF SyncAccountFails, TypeOK
    <3> QED BY <2>6, <3>1, <3>2 DEF SyncAccountFails, Fault, TypeOK
  <2>7. ASSUME NEW s \in Subjects, SyncCache(s) PROVE TypeOK'
    <3>1. queue' \in [Consumers -> [Subjects -> Seq(Events)]]
      BY <2>4, <2>7 DEF SyncCache, Taken, Consumers
    <3>2. cache' \in Tiers
      BY <2>7 DEF SyncCache, TierOf, Tiers
    <3>3. gap' \in [Consumers -> BOOLEAN]
      BY <2>7 DEF SyncCache, Told, TypeOK
    <3> QED BY <2>7, <3>1, <3>2, <3>3 DEF SyncCache, TypeOK
  <2>8. ASSUME NEW c \in Consumers, Restart(c) PROVE TypeOK'
    <3>1. queue' \in [Consumers -> [Subjects -> Seq(Events)]]
      BY <2>8 DEF Restart, TypeOK
    <3>2. gap' \in [Consumers -> BOOLEAN]
      BY <2>8 DEF Restart, TypeOK
    <3> QED BY <2>8, <3>1, <3>2 DEF Restart, Fault, TypeOK
  <2>9. ASSUME ReadAccount \/ IssueToken \/ \E t \in tokens : TokenExpires(t)
        PROVE  TypeOK'
    BY <2>9 DEF ReadAccount, IssueToken, TokenExpires, TypeOK
  <2>10. CASE UNCHANGED vars
    BY <2>10 DEF vars, TypeOK
  <2>11. ASSUME NEW e \in outbox,
                PublishToAll(e) \/ \E c \in Consumers : PublishMissed(e, c)
         PROVE  TypeOK'
    <3>1. CASE PublishToAll(e)
      BY <2>2, <3>1 DEF PublishToAll, TypeOK
    <3>2. ASSUME NEW c \in Consumers, PublishMissed(e, c) PROVE TypeOK'
      <4>1. faults' \in 0..FaultLimit
        BY <3>2 DEF PublishMissed, Fault, TypeOK
      <4> QED BY <2>2, <3>2, <4>1 DEF PublishMissed
    <3> QED BY <2>11, <3>1, <3>2
  <2>12. ASSUME Settle \/ Expire PROVE TypeOK'
    BY <2>1, <2>12 DEF Settle, Expire, Tiers, Subjects
  <2> QED
    BY <2>3, <2>5, <2>6, <2>7, <2>8, <2>9, <2>10, <2>11, <2>12 DEF Next
<1> QED BY <1>1, <1>2, PTL DEF Spec

-----------------------------------------------------------------------------
(* What each action does to the events that a consumer may still take.     *)

LEMMA OutstandingEvents ==
  ASSUME TypeOK, NEW c \in Consumers
  PROVE  Outstanding(c) \subseteq Events
<1> SUFFICES ASSUME NEW e \in Queued(c) PROVE e \in Events
  BY DEF Outstanding, TypeOK
<1>1. PICK s \in Subjects : e \in Elems(queue[c][s])
  BY QueuedElems
<1>2. queue[c][s] \in Seq(Events) BY DEF TypeOK
<1>3. \A k \in DOMAIN queue[c][s] : queue[c][s][k] \in Events BY <1>2
<1> QED BY <1>1, <1>3, Zenon DEF Elems

LEMMA ChangeAdds ==
  ASSUME NEW tier, NEW s, Change(tier, s), NEW c
  PROVE  Outstanding(c)' = Outstanding(c) \cup {Event(s, paid.n + 1)}
BY DEF Change, Outstanding, Queued

LEMMA PublishMoves ==
  ASSUME TypeOK, NEW e \in outbox, NEW L \in SUBSET Consumers, Publish(e, L),
         NEW c \in Consumers
  PROVE  /\ Outstanding(c)' \subseteq Outstanding(c)
         /\ c \in L => Outstanding(c)' = Outstanding(c)
<1>1. e \in Events /\ e.subject \in Subjects BY DEF TypeOK, Events
<1>2. \A s \in Subjects : queue[c][s] \in Seq(Events) BY DEF TypeOK
<1>3. CASE c \in L
  <2>1. queue'[c] = [queue[c] EXCEPT ![e.subject] = Append(@, e)]
    BY <1>3 DEF Publish
  <2>2. queue'[c][e.subject] = Append(queue[c][e.subject], e)
    BY <1>1, <2>1 DEF TypeOK
  <2>3. \A s \in Subjects : s # e.subject => queue'[c][s] = queue[c][s]
    BY <1>1, <2>1 DEF TypeOK
  <2>4. Elems(queue'[c][e.subject]) = Elems(queue[c][e.subject]) \cup {e}
    BY <1>1, <1>2, <2>2, QueueAppend
  <2>5. Queued(c)' = Queued(c) \cup {e}
    BY <1>1, <2>3, <2>4, QueuedElems
  <2> QED BY <2>5 DEF Outstanding, Publish
<1>4. CASE c \notin L
  <2>1. queue'[c] = queue[c] BY <1>4 DEF Publish
  <2>2. Queued(c)' = Queued(c) BY <2>1 DEF Queued
  <2> QED BY <1>4, <2>2 DEF Outstanding, Publish
<1> QED BY <1>3, <1>4

LEMMA TakenShrinks ==
  ASSUME TypeOK, NEW c \in Consumers, NEW s \in Subjects,
         queue[c][s] # << >>, Taken(c, s), UNCHANGED outbox,
         NEW d \in Consumers
  PROVE  /\ Head(queue[c][s]) \in Outstanding(c)
         /\ Outstanding(d)' \subseteq Outstanding(d)
         /\ d # c => Outstanding(d)' = Outstanding(d)
<1>1. queue[c][s] \in Seq(Events) BY DEF TypeOK
<1>2. Head(queue[c][s]) \in Elems(queue[c][s])
      /\ Elems(Tail(queue[c][s])) \subseteq Elems(queue[c][s])
  BY <1>1, QueueTail
<1>3. Head(queue[c][s]) \in Queued(c) BY <1>2, QueuedElems
<1>4. CASE d = c
  <2>1. queue'[c][s] = Tail(queue[c][s])
        /\ \A r \in Subjects : r # s => queue'[c][r] = queue[c][r]
    BY DEF Taken, TypeOK
  <2>2. \A r \in Subjects : Elems(queue'[c][r]) \subseteq Elems(queue[c][r])
    BY <1>2, <2>1
  <2>3. Queued(c)' \subseteq Queued(c)
    BY <2>2, QueuedElems
  <2> QED BY <1>3, <1>4, <2>3 DEF Outstanding
<1>5. CASE d # c
  <2>1. queue'[d] = queue[d] BY <1>5 DEF Taken, TypeOK
  <2>2. Queued(d)' = Queued(d) BY <2>1 DEF Queued
  <2> QED BY <1>3, <1>5, <2>2 DEF Outstanding
<1> QED BY <1>4, <1>5

-----------------------------------------------------------------------------
(* The inductive invariant.  Change numbers tie each copy of the tier to   *)
(* the change it stems from; the properties follow at rest.                *)

Agrees(n, tier) == n <= paid.n /\ (n = paid.n => tier = paid.tier)

EventsAgree ==
  \A c \in Consumers : \A e \in Outstanding(c) : Agrees(e.n, TierOf(e))

CopiesAgree ==
  /\ Agrees(account.n, account.tier)
  /\ \A r \in reading \cup tokens : Agrees(r.n, r.tier)

UpToDate(c) ==
  IF c = "auth" THEN account.tier = paid.tier ELSE cache \in {"none", paid.tier}

Following ==
  \A c \in Consumers : ~gap[c] =>
    /\ \A e \in Outstanding(c) : e.n = paid.n
    /\ Outstanding(c) = {} => UpToDate(c)

IInv == TypeOK /\ EventsAgree /\ CopiesAgree /\ Following

LEMMA InitIInv == Init => IInv
<1> SUFFICES ASSUME Init PROVE IInv OBVIOUS
<1>1. TypeOK
  BY TierSyncAssumption
  DEF Init, TypeOK, Rows, Tiers, Consumers, Subjects
<1>2. \A c \in Consumers : Outstanding(c) = {}
  BY DEF Init, Outstanding, Queued
<1>3. EventsAgree BY <1>2 DEF EventsAgree
<1>4. CopiesAgree BY DEF Init, CopiesAgree, Agrees
<1>5. Following BY <1>2 DEF Init, Following, UpToDate
<1> QED BY <1>1, <1>3, <1>4, <1>5 DEF IInv

(* The subscription changes: what is under way no longer stems from the    *)
(* latest change, and a consumer that has more to take than the new event  *)
(* has a gap.                                                              *)
LEMMA ChangeKeeps ==
  ASSUME IInv, TypeOK', NEW tier \in Tiers, NEW s \in Subjects,
         Change(tier, s), tier = TierOf(Event(s, paid.n + 1))
  PROVE  IInv'
<1> DEFINE new == Event(s, paid.n + 1)
<1>1. paid.n \in Nat /\ paid'.n = paid.n + 1 /\ paid'.tier = tier
  BY DEF IInv, TypeOK, Rows, Change
<1>2. new.n = paid'.n /\ TierOf(new) = paid'.tier
  BY <1>1 DEF Event
<1>3. \A n, t : n \in Nat /\ Agrees(n, t) => Agrees(n, t)' /\ n # paid'.n
  BY <1>1 DEF Agrees
<1>4. \A c \in Consumers : \A e \in Outstanding(c) : e.n \in Nat
  BY TierSyncAssumption, OutstandingEvents DEF IInv, Events
<1>5. EventsAgree'
  <2> SUFFICES ASSUME NEW c \in Consumers, NEW e \in Outstanding(c)'
               PROVE  Agrees(e.n, TierOf(e))'
    BY DEF EventsAgree
  <2>1. CASE e \in Outstanding(c)
    BY <1>3, <1>4, <2>1 DEF IInv, EventsAgree, TierOf
  <2>2. CASE e = new
    BY <1>1, <1>2, <2>2 DEF Agrees, TierOf
  <2> QED BY <2>1, <2>2, ChangeAdds
<1>6. CopiesAgree'
  <2>1. account' = account /\ reading' = reading /\ tokens' = tokens
    BY DEF Change
  <2>2. account.n \in Nat /\ \A r \in reading \cup tokens : r.n \in Nat
    BY DEF IInv, TypeOK, Rows
  <2> QED BY <1>3, <2>1, <2>2 DEF IInv, CopiesAgree
<1>7. Following'
  <2> SUFFICES ASSUME NEW c \in Consumers, ~gap'[c]
               PROVE  Outstanding(c)' = {new}
    BY <1>2 DEF Following
  <2>1. Outstanding(c) = {} BY DEF Change
  <2> QED BY <2>1, ChangeAdds
<1> QED BY <1>5, <1>6, <1>7 DEF IInv

(* A step that changes no tier and lets a consumer without a gap keep all  *)
(* that is outstanding: publication, loss, restart, tokens.                *)
LEMMA QuietStepKeeps ==
  ASSUME IInv, TypeOK', UNCHANGED <<paid, account>>,
         reading' \subseteq reading \cup {account},
         tokens' \subseteq tokens \cup reading,
         cache' \in {cache, "none"},
         \A c \in Consumers :
           /\ Outstanding(c)' \subseteq Outstanding(c)
           /\ ~gap'[c] => \/ ~gap[c] /\ Outstanding(c)' = Outstanding(c)
                          \/ c = "wg" /\ Outstanding(c)' = {} /\ cache' = "none"
  PROVE  IInv'
<1>1. \A n, t : Agrees(n, t)' <=> Agrees(n, t) BY DEF Agrees
<1>2. EventsAgree'
  <2> SUFFICES ASSUME NEW c \in Consumers, NEW e \in Outstanding(c)'
               PROVE  Agrees(e.n, TierOf(e))'
    BY DEF EventsAgree
  <2> QED BY <1>1 DEF IInv, EventsAgree, TierOf
<1>3. CopiesAgree' BY <1>1 DEF IInv, CopiesAgree
<1>4. Following'
  <2> SUFFICES ASSUME NEW c \in Consumers, ~gap'[c]
               PROVE  /\ \A e \in Outstanding(c)' : e.n = paid.n
                      /\ Outstanding(c)' = {} => UpToDate(c)'
    BY DEF Following
  <2>1. CASE ~gap[c] /\ Outstanding(c)' = Outstanding(c)
    BY <2>1 DEF IInv, Following, UpToDate
  <2>2. CASE c = "wg" /\ Outstanding(c)' = {} /\ cache' = "none"
    BY <2>2 DEF UpToDate
  <2> QED BY <2>1, <2>2
<1> QED BY <1>2, <1>3, <1>4 DEF IInv

(* A consumer takes an event: afterwards it is up to date, or has a gap.   *)
LEMMA SyncKeeps ==
  ASSUME IInv, TypeOK', NEW s \in Subjects, SyncAccount(s) \/ SyncCache(s)
  PROVE  IInv'
<1> DEFINE own == IF SyncAccount(s) THEN "auth" ELSE "wg"
           e == Head(queue[own][s])
<1>1. /\ own \in Consumers /\ queue[own][s] # << >> /\ Taken(own, s)
      /\ UNCHANGED <<outbox, paid, reading, tokens>> /\ Told(own, e)
  BY DEF SyncAccount, SyncCache, Consumers
<1>2. /\ e \in Outstanding(own)
      /\ \A c \in Consumers : Outstanding(c)' \subseteq Outstanding(c)
      /\ \A c \in Consumers : c # own => Outstanding(c)' = Outstanding(c)
  BY <1>1, TakenShrinks DEF IInv
<1>3. Agrees(e.n, TierOf(e)) BY <1>1, <1>2 DEF IInv, EventsAgree
<1>4. \A n, t : Agrees(n, t)' <=> Agrees(n, t) BY <1>1 DEF Agrees
<1>5. EventsAgree'
  <2> SUFFICES ASSUME NEW c \in Consumers, NEW f \in Outstanding(c)'
               PROVE  Agrees(f.n, TierOf(f))'
    BY DEF EventsAgree
  <2>1. f \in Outstanding(c) BY <1>2
  <2> QED BY <1>4, <2>1 DEF IInv, EventsAgree, TierOf
<1>6. CopiesAgree'
  <2>1. Agrees(account'.n, account'.tier)
    <3>1. CASE SyncAccount(s) BY <1>3, <3>1 DEF SyncAccount
    <3>2. CASE SyncCache(s) BY <3>2 DEF SyncCache, IInv, CopiesAgree
    <3> QED BY <3>1, <3>2
  <2> QED BY <1>1, <1>4, <2>1 DEF IInv, CopiesAgree
<1>7. Following'
  <2> SUFFICES ASSUME NEW c \in Consumers, ~gap'[c]
               PROVE  /\ \A f \in Outstanding(c)' : f.n = paid.n
                      /\ Outstanding(c)' = {} => UpToDate(c)'
    BY <1>1 DEF Following
  <2>1. CASE c # own
    <3>1. ~gap[c] BY <1>1, <2>1 DEF Told, IInv, TypeOK
    <3>2. UpToDate(c)' <=> UpToDate(c)
      BY <1>1, <2>1 DEF SyncAccount, SyncCache, UpToDate, Consumers
    <3> QED BY <1>2, <2>1, <3>1, <3>2 DEF IInv, Following
  <2>2. CASE c = own
    <3>1. ~gap[c] \/ (e.n = paid.n /\ Outstanding(c) = {e})
      BY <1>1, <2>2 DEF Told, IInv, TypeOK
    <3>2. \A f \in Outstanding(c) : f.n = paid.n
      BY <3>1 DEF IInv, Following
    <3>3. TierOf(e) = paid.tier
      BY <1>2, <1>3, <2>2, <3>2 DEF Agrees
    <3>4. UpToDate(c)'
      <4>1. CASE SyncAccount(s)
        BY <2>2, <3>3, <4>1 DEF SyncAccount, UpToDate
      <4>2. CASE ~SyncAccount(s)
        BY <2>2, <3>3, <4>2 DEF SyncCache, UpToDate
      <4> QED BY <4>1, <4>2
    <3> QED BY <1>2, <3>2, <3>4
  <2> QED BY <2>1, <2>2
<1> QED BY <1>5, <1>6, <1>7 DEF IInv

(* Once TypeCorrect gives the types after a step, the three lemmas cover   *)
(* all of them.                                                            *)
LEMMA NextIInv == IInv /\ TypeOK' /\ [Next]_vars => IInv'
<1> SUFFICES ASSUME IInv, TypeOK', [Next]_vars PROVE IInv'
  OBVIOUS
<1>1. CASE Settle \/ Expire
  BY <1>1, ChangeKeeps DEF Settle, Expire, Tiers, Subjects, TierOf, Event
<1>2. ASSUME NEW e \in outbox, NEW L \in SUBSET Consumers, Publish(e, L)
      PROVE  IInv'
  <2>1. \A c \in Consumers :
          /\ Outstanding(c)' \subseteq Outstanding(c)
          /\ ~gap'[c] => ~gap[c] /\ Outstanding(c)' = Outstanding(c)
    BY <1>2, PublishMoves DEF IInv, Publish
  <2> QED BY <1>2, <2>1, QuietStepKeeps DEF Publish
<1>3. ASSUME NEW lost \in SUBSET outbox, NeverPublished(lost) PROVE IInv'
  <2>1. \A c \in Consumers :
          gap'[c] /\ Outstanding(c)' \subseteq Outstanding(c)
    BY <1>3 DEF NeverPublished, Outstanding, Queued
  <2> QED BY <1>3, <2>1, QuietStepKeeps DEF NeverPublished
<1>4. ASSUME NEW s \in Subjects, SyncAccount(s) \/ SyncCache(s) PROVE IInv'
  BY <1>4, SyncKeeps
<1>5. ASSUME NEW s \in Subjects, SyncAccountFails(s) PROVE IInv'
  <2>1. \A c \in Consumers :
          /\ Outstanding(c)' \subseteq Outstanding(c)
          /\ c # "auth" => Outstanding(c)' = Outstanding(c)
    BY <1>5, TakenShrinks DEF SyncAccountFails, Consumers, IInv
  <2>2. \A c \in Consumers : ~gap'[c] => ~gap[c] /\ c # "auth"
    BY <1>5 DEF SyncAccountFails, IInv, TypeOK
  <2> QED BY <1>5, <2>1, <2>2, QuietStepKeeps DEF SyncAccountFails
<1>6. ASSUME NEW d \in Consumers, Restart(d) PROVE IInv'
  <2>1. Queued(d)' = {}
    BY <1>6, NothingQueued DEF Restart, IInv, TypeOK
  <2>2. \A c \in Consumers : c # d => Outstanding(c)' = Outstanding(c)
    BY <1>6 DEF Restart, Outstanding, Queued, IInv, TypeOK
  <2>3. Outstanding(d)' = outbox
    BY <1>6, <2>1 DEF Restart, Outstanding
  <2>4. ASSUME NEW c \in Consumers
        PROVE  /\ Outstanding(c)' \subseteq Outstanding(c)
               /\ ~gap'[c] =>
                    \/ ~gap[c] /\ Outstanding(c)' = Outstanding(c)
                    \/ c = "wg" /\ Outstanding(c)' = {} /\ cache' = "none"
    <3>1. CASE c # d
      BY <1>6, <2>2, <3>1 DEF Restart, IInv, TypeOK
    <3>2. CASE c = d /\ d = "wg"
      BY <1>6, <2>3, <3>2 DEF Restart, Outstanding, IInv, TypeOK
    <3>3. CASE c = d /\ d = "auth"
      <4>1. ~gap'[c] => ~gap[c] /\ Queued(c) = {}
        BY <1>6, <3>3 DEF Restart, IInv, TypeOK
      <4> QED BY <2>3, <3>3, <4>1 DEF Outstanding
    <3> QED BY <3>1, <3>2, <3>3 DEF Consumers
  <2> QED BY <1>6, <2>4, QuietStepKeeps DEF Restart
<1>7. CASE ReadAccount \/ IssueToken \/ (\E t \in tokens : TokenExpires(t))
           \/ UNCHANGED vars
  <2>1. UNCHANGED <<paid, account, outbox, queue, cache, gap>>
    BY <1>7 DEF ReadAccount, IssueToken, TokenExpires, vars
  <2>2. \A c \in Consumers : Outstanding(c)' = Outstanding(c)
    BY <2>1 DEF Outstanding, Queued
  <2>3. reading' \subseteq reading \cup {account}
        /\ tokens' \subseteq tokens \cup reading
    BY <1>7 DEF ReadAccount, IssueToken, TokenExpires, vars
  <2> QED BY <2>1, <2>2, <2>3, QuietStepKeeps
<1>8. ASSUME NEW e \in outbox,
             PublishToAll(e) \/ \E c \in Consumers : PublishMissed(e, c)
      PROVE  IInv'
  BY <1>2, <1>8 DEF PublishToAll, PublishMissed
<1> QED
  BY <1>1, <1>3, <1>4, <1>5, <1>6, <1>7, <1>8 DEF Next

LEMMA AlwaysIInv == Spec => []IInv
<1>1. TypeOK /\ TypeOK' /\ IInv /\ [Next]_vars => IInv'
  BY NextIInv
<1> QED BY <1>1, InitIInv, TypeCorrect, PTL DEF Spec

-----------------------------------------------------------------------------

(* The accounts table has the tier of the subscription whenever no event   *)
(* is under way to auth-svc and the last one neither was lost nor met      *)
(* another: UpdateAccountTier applied it, whatever was lost before.        *)
THEOREM AccountInStep == Spec => []AccountFollows
<1>1. IInv => AccountFollows
  BY DEF IInv, Following, AccountFollows, AtRest, UpToDate, Consumers
<1> QED BY <1>1, AlwaysIInv, PTL

(* A request is allowed what the account pays for, by wg-manager's cache   *)
(* or, while that has no entry, by a token made from the latest change.    *)
THEOREM RequestsServedAsPaid == Spec => []ServedAsPaid
<1>1. IInv => ServedAsPaid
  <2> SUFFICES ASSUME IInv, AtRest("wg"), NEW t \in tokens,
                      cache # "none" \/ t.n = paid.n
               PROVE  resolveTier(t.tier) = paid.tier
    BY DEF ServedAsPaid
  <2>1. cache \in {"none", paid.tier}
    BY DEF IInv, Following, AtRest, UpToDate, Consumers
  <2>2. t.n = paid.n => t.tier = paid.tier
    BY DEF IInv, CopiesAgree, Agrees
  <2> QED BY <2>1, <2>2 DEF resolveTier
<1> QED BY <1>1, AlwaysIInv, PTL
=============================================================================
