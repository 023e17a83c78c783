------------------------------ MODULE TierSync ------------------------------
(* How the tier of one account gets from billing-svc to a request for a    *)
(* peer: subscription.renewed and subscription.expired on NATS, auth-svc's *)
(* accounts table and the access tokens made from it, wg-manager's cache.  *)
(*                                                                         *)
(* NATS keeps nothing: an event reaches the consumers that listen when it  *)
(* is published.  Each consumer has a subscription, and with it a          *)
(* goroutine and a queue, for either subject.  Accounts are independent.   *)
EXTENDS Naturals, Sequences, FiniteSets

CONSTANTS
  MaxChanges,    \* changes of the subscription (bound)
  FaultLimit     \* faults (bound)

ASSUME TierSyncAssumption == MaxChanges \in Nat /\ FaultLimit \in Nat

Consumers == {"auth", "wg"}
Subjects == {"renewed", "expired"}
Tiers == {"free", "premium"}

VARIABLES
  paid,      \* tier of the subscriptions row; history: number of changes
  outbox,    \* events of changes that are committed and not yet published
  queue,     \* queue[c][s]: events for c's subscription to s
  account,   \* subscription_tier in accounts; history: the event it is from
  cache,     \* wg-manager's TierCache, "none" if it has no entry
  reading,   \* accounts row read for a token that is still to be signed
  tokens,    \* access tokens that are not expired
  faults,
  gap        \* history: an event of c was lost or met another one

vars == <<paid, outbox, queue, account, cache, reading, tokens, faults, gap>>

Event(s, n) == [subject |-> s, n |-> n]
Events == [subject : Subjects, n : 1..MaxChanges]
Rows == [tier : Tiers, n : 0..MaxChanges]

TypeOK ==
  /\ paid \in Rows /\ account \in Rows
  /\ outbox \subseteq Events
  /\ queue \in [Consumers -> [Subjects -> Seq(Events)]]
  /\ cache \in Tiers \cup {"none"}
  /\ reading \subseteq Rows /\ tokens \subseteq Rows
  /\ faults \in 0..FaultLimit
  /\ gap \in [Consumers -> BOOLEAN]

Queued(c) ==
  UNION {{queue[c][s][k] : k \in DOMAIN queue[c][s]} : s \in Subjects}
Outstanding(c) == outbox \cup Queued(c)
Fault == faults < FaultLimit /\ faults' = faults + 1

Init ==
  /\ paid = [tier |-> "free", n |-> 0]
  /\ account = [tier |-> "free", n |-> 0]
  /\ outbox = {}
  /\ queue = [c \in Consumers |-> [s \in Subjects |-> <<>>]]
  /\ cache = "none"
  /\ reading = {} /\ tokens = {}
  /\ faults = 0
  /\ gap = [c \in Consumers |-> FALSE]

-----------------------------------------------------------------------------
(* billing-svc: the row is written, the event follows later; handlers and  *)
(* the worker do not wait for each other.                                  *)

Change(tier, subject) ==
  /\ paid.n < MaxChanges
  /\ paid' = [tier |-> tier, n |-> paid.n + 1]
  /\ outbox' = outbox \cup {Event(subject, paid.n + 1)}
  /\ gap' = [c \in Consumers |-> gap[c] \/ Outstanding(c) # {}]
  /\ UNCHANGED <<queue, account, cache, reading, tokens, faults>>

Settle == Change("premium", "renewed")
Expire == paid.tier = "premium" /\ Change("free", "expired")

Publish(e, listening) ==
  /\ e \in outbox
  /\ outbox' = outbox \ {e}
  /\ queue' = [c \in Consumers |->
       IF c \in listening
       THEN [queue[c] EXCEPT ![e.subject] = Append(@, e)] ELSE queue[c]]
  /\ gap' = [c \in Consumers |-> gap[c] \/ c \notin listening]
  /\ UNCHANGED <<paid, account, cache, reading, tokens>>

PublishToAll(e) == Publish(e, Consumers) /\ UNCHANGED faults

(* A consumer that is down or disconnected misses the event.               *)
PublishMissed(e, c) == Publish(e, Consumers \ {c}) /\ Fault

(* billing-svc stops before it publishes; a connection that failed at      *)
(* start-up or an error of Publish, which is only logged, do the same.     *)
NeverPublished(lost) ==
  /\ lost # {}
  /\ Fault
  /\ outbox' = outbox \ lost
  /\ gap' = [c \in Consumers |-> TRUE]
  /\ UNCHANGED <<paid, queue, account, cache, reading, tokens>>

-----------------------------------------------------------------------------
(* The consumers' handlers.                                                *)

SubjectAsTier(e) == e.subject
AlwaysPremium(e) == "premium"
TierOf(e) == IF e.subject = "expired" THEN "free" ELSE "premium"

Taken(c, s) == queue' = [queue EXCEPT ![c][s] = Tail(@)]

(* The last event makes up for those before it if none of them can follow. *)
Told(c, e) ==
  gap' = [gap EXCEPT ![c] =
            @ /\ ~(e.n = paid.n /\ Outstanding(c) = {e})]

(* StartSubscriptionSync: UpdateAccountTier.                               *)
SyncAccount(s) ==
  /\ queue["auth"][s] # <<>>
  /\ Taken("auth", s)
  /\ LET e == Head(queue["auth"][s])
     IN account' = [tier |-> TierOf(e), n |-> e.n] /\ Told("auth", e)
  /\ UNCHANGED <<paid, outbox, cache, reading, tokens, faults>>

(* The update fails or takes more than 5 s: logged, the event is gone.     *)
SyncAccountFails(s) ==
  /\ queue["auth"][s] # <<>>
  /\ Taken("auth", s)
  /\ Fault
  /\ gap' = [gap EXCEPT !["auth"] = TRUE]
  /\ UNCHANGED <<paid, outbox, account, cache, reading, tokens>>

(* TierCache.StartSync.                                                    *)
SyncCache(s) ==
  /\ queue["wg"][s] # <<>>
  /\ Taken("wg", s)
  /\ LET e == Head(queue["wg"][s]) IN cache' = TierOf(e) /\ Told("wg", e)
  /\ UNCHANGED <<paid, outbox, account, reading, tokens, faults>>

(* A restart loses the queues, and in wg-manager the cache: without an     *)
(* entry it cannot be out of date.                                         *)
Restart(c) ==
  /\ Fault
  /\ queue' = [queue EXCEPT ![c] = [s \in Subjects |-> <<>>]]
  /\ gap' = [gap EXCEPT ![c] =
               IF c = "wg" THEN outbox # {} ELSE @ \/ Queued(c) # {}]
  /\ cache' = IF c = "wg" THEN "none" ELSE cache
  /\ reading' = IF c = "auth" THEN {} ELSE reading
  /\ UNCHANGED <<paid, outbox, account, tokens>>

-----------------------------------------------------------------------------
(* Access tokens: sign-in and refresh read the account, store a refresh    *)
(* token and return a token with the tier they read.                       *)

ReadAccount ==
  /\ reading = {}
  /\ reading' = {account}
  /\ UNCHANGED <<paid, outbox, queue, account, cache, tokens, faults, gap>>

IssueToken ==
  /\ reading # {}
  /\ tokens' = tokens \cup reading
  /\ reading' = {}
  /\ UNCHANGED <<paid, outbox, queue, account, cache, faults, gap>>

TokenExpires(t) ==
  /\ tokens' = tokens \ {t}
  /\ UNCHANGED <<paid, outbox, queue, account, cache, reading, faults, gap>>

(* resolveTier: what a request of the account with that token is allowed.  *)
TokenFirst(jwtTier) == jwtTier
resolveTier(jwtTier) == IF cache = "none" THEN jwtTier ELSE cache

-----------------------------------------------------------------------------

Next ==
  \/ Settle \/ Expire
  \/ \E e \in outbox : PublishToAll(e)
  \/ \E e \in outbox, c \in Consumers : PublishMissed(e, c)
  \/ \E lost \in SUBSET outbox : NeverPublished(lost)
  \/ \E s \in Subjects : SyncAccount(s) \/ SyncAccountFails(s) \/ SyncCache(s)
  \/ \E c \in Consumers : Restart(c)
  \/ ReadAccount \/ IssueToken
  \/ \E t \in tokens : TokenExpires(t)

Spec == Init /\ [][Next]_vars

(* Handlers go on to publish, NATS and the goroutines deliver, a token     *)
(* that was asked for is signed, and a token ends.  Settlements, expiries, *)
(* requests and failures owe nothing.                                      *)
Fairness ==
  /\ WF_vars(\E e \in outbox : PublishToAll(e))
  /\ \A s \in Subjects : WF_vars(SyncAccount(s)) /\ WF_vars(SyncCache(s))
  /\ WF_vars(IssueToken)
  /\ \A t \in Rows : WF_vars(t \in tokens /\ TokenExpires(t))

FairSpec == Spec /\ Fairness

-----------------------------------------------------------------------------
(* Properties.                                                             *)

AtRest(c) == Outstanding(c) = {} /\ ~gap[c]

(* The tier that new tokens are made from is the subscription's, as soon   *)
(* as no event is under way: unless the last one was lost or met another   *)
(* one, whatever was lost before (subscription_sync.go:20 "so JWTs issued  *)
(* after refresh reflect Premium").                                        *)
AccountFollows == AtRest("auth") => account.tier = paid.tier

(* A request is allowed what the account pays for, with tokens of the tier *)
(* before too if wg-manager heard of the change, and after a restart of    *)
(* wg-manager with tokens made since auth-svc heard of it.                 *)
ServedAsPaid ==
  AtRest("wg") =>
    \A t \in tokens : cache # "none" \/ t.n = paid.n
                        => resolveTier(t.tier) = paid.tier

(* In the end the account and every token agree with the subscription,     *)
(* unless the last event was lost or met another one.                      *)
Synced ==
  /\ account.tier = paid.tier
  /\ \A t \in tokens : resolveTier(t.tier) = paid.tier
EventuallySynced ==
  <>[]((\A c \in Consumers : ~gap[c]) => Synced)
=============================================================================
