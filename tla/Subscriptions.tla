--------------------------- MODULE Subscriptions ---------------------------
(***************************************************************************)
(* billing-svc: premium checkouts, the payment provider's webhooks, the    *)
(* hourly expiry worker and status requests, over the subscriptions and    *)
(* payment_records tables.                                                 *)
(*                                                                         *)
(* Every operation reads a row, computes, and writes the whole row back in *)
(* a later statement; there is no transaction and no lock, so that other   *)
(* operations run in between.  time.Now is read right after the row it is  *)
(* compared with, in the same step.  Time is in ticks, a free row ends     *)
(* never.                                                                  *)
(***************************************************************************)
EXTENDS Naturals, FiniteSets

CONSTANTS
  Accounts,
  Invoices,     \* invoices the provider may issue
  Checkouts,    \* POST /subscribe requests
  Hooks,        \* webhook (or mock-settle) requests
  Viewers,      \* GET /status requests
  Worker,       \* the expiry worker
  Period,       \* length of a premium period
  MaxTime,      \* how far the clock goes (bound)
  Never,        \* period end of a free row: 100 years away
  Faults,       \* the faults that may happen in this instance
  FaultLimit,   \* how many of them at most (bound)
  None

Expirers == Viewers \cup {Worker}
FaultKinds == {"crash", "db_error", "provider_error"}

ASSUME FaultsAssumption == Faults \subseteq FaultKinds /\ FaultLimit \in Nat
ASSUME TimeAssumption ==
  /\ Period \in Nat \ {0} /\ MaxTime \in Nat /\ Never \in Nat /\ Never > MaxTime
ASSUME NamesAssumption ==
  /\ Worker \notin Viewers /\ None \notin Accounts \cup Invoices
  /\ Checkouts \cap Hooks = {} /\ (Checkouts \cup Hooks) \cap Expirers = {}

VARIABLES
  now,        \* the clock
  sub,        \* sub[a]: a's row of subscriptions
  invoice,    \* invoice[i]: its account, its payment record, its state at the provider
  unacked,    \* webhook events <<i, kind>> the provider has yet to deliver
  checkout,   \* checkout[c]: progress of a POST /subscribe request
  hook,       \* hook[h]: progress of a webhook request
  expirer,    \* expirer[e]: progress of a status request or of the worker
  tierHeard,  \* the tier last published for an account
  faults,     \* faults that happened
  credits,    \* history: how many times an invoice extended a subscription
  granted,    \* history: time those extensions added, per account
  paidUntil,  \* history: where a's periods end if each invoice counts once
  raced,      \* history: accounts whose row was written between another
              \* operation's read of it and that operation's write, or given
              \* up by a checkout after a cancellation
  redone      \* history: invoices that two deliveries worked on at once, or
              \* that one extended without getting to complete it

rows == <<sub, invoice, tierHeard>>
procs == <<checkout, hook, expirer>>
ledger == <<credits, granted, paidUntil>>
history == <<ledger, raced, redone>>
vars == <<now, rows, unacked, procs, faults, history>>

Row(tier, status, end, cancel) ==
  [tier |-> tier, status |-> status, end |-> end, cancel |-> cancel]
NoRow == Row("none", "none", 0, FALSE)
FreeRow == Row("free", "active", Never, FALSE)

IdleCheckout == [pc |-> "idle", account |-> None, row |-> NoRow, invoice |-> None]
IdleHook == [pc |-> "idle", invoice |-> None, kind |-> "none", at |-> 0, end |-> 0]
IdleExpirer == [pc |-> "idle", todo |-> {}, at |-> None]
NoInvoice == [account |-> None, record |-> "none", provider |-> "none"]

ActivePremium(row) == row.tier = "premium" /\ row.status = "active"
DueIfCanceled(row) == ActivePremium(row) /\ row.end < now /\ row.cancel
Due(row) == ActivePremium(row) /\ row.end < now

Fault(kind) == kind \in Faults /\ faults < FaultLimit /\ faults' = faults + 1

AccountOf(i) == invoice[i].account

(* Operations other than p that have read a's row and will write it yet.   *)
Held(a, p) ==
  \/ \E c \in Checkouts \ {p} : checkout[c].pc = "upsert" /\ checkout[c].account = a
  \/ \E h \in Hooks \ {p} : hook[h].pc = "update" /\ AccountOf(hook[h].invoice) = a
  \/ \E e \in Expirers \ {p} : a \in expirer[e].todo /\ expirer[e].at # a

Races(a, p) == raced' = IF Held(a, p) THEN raced \cup {a} ELSE raced

-----------------------------------------------------------------------------
(* CreatePremiumCheckout.                                                  *)

NeverRefused(row) == FALSE
Refused(row) == ActivePremium(row) /\ now < row.end /\ ~row.cancel

(* What the upsert will write: a free row stays as it is until paid.       *)
CheckoutRow(row) ==
  IF row.tier = "free" THEN Row("free", "active", row.end, FALSE)
                       ELSE Row("premium", "pending", now, FALSE)

(* Bound: the provider has an invoice left for every checkout that goes on.*)
InvoiceLeft ==
  Cardinality({i \in Invoices : invoice[i] = NoInvoice})
    > Cardinality({c \in Checkouts : checkout[c].pc \in {"upsert", "invoice"}})

BeginCheckout(c, a) ==
  /\ checkout[c].pc = "idle" /\ InvoiceLeft
  /\ ~Refused(sub[a])
  /\ checkout' = [checkout EXCEPT ![c] =
       [IdleCheckout EXCEPT !.pc = "upsert", !.account = a, !.row = CheckoutRow(sub[a])]]
  /\ UNCHANGED <<now, rows, unacked, hook, expirer, faults, history>>

(* A running period that was cancelled is overwritten.                     *)
GivenUp(row) == ActivePremium(row) /\ row.cancel /\ now < row.end

UpsertRow(c) ==
  /\ checkout[c].pc = "upsert"
  /\ LET a == checkout[c].account
     IN /\ sub' = [sub EXCEPT ![a] = checkout[c].row]
        /\ raced' = IF Held(a, c) \/ GivenUp(sub[a]) THEN raced \cup {a} ELSE raced
  /\ checkout' = [checkout EXCEPT ![c].pc = "invoice", ![c].row = NoRow]
  /\ UNCHANGED <<now, invoice, tierHeard, unacked, hook, expirer, faults, ledger, redone>>

CreateInvoice(c) ==
  /\ checkout[c].pc = "invoice"
  /\ \E i \in Invoices :
       /\ invoice[i] = NoInvoice
       /\ invoice' = [invoice EXCEPT ![i].account = checkout[c].account,
                                     ![i].provider = "issued"]
       /\ checkout' = [checkout EXCEPT ![c].pc = "record", ![c].invoice = i]
  /\ UNCHANGED <<now, sub, tierHeard, unacked, hook, expirer, faults, history>>

(* The client gets the checkout URL after the record is stored.            *)
RecordPayment(c) ==
  /\ checkout[c].pc = "record"
  /\ invoice' = [invoice EXCEPT ![checkout[c].invoice].record = "pending"]
  /\ checkout' = [checkout EXCEPT ![c] = IdleCheckout]
  /\ UNCHANGED <<now, sub, tierHeard, unacked, hook, expirer, faults, history>>

CheckoutFails(c) ==
  /\ checkout[c].pc # "idle"
  /\ \/ Fault("db_error")
     \/ checkout[c].pc = "invoice" /\ Fault("provider_error")
  /\ checkout' = [checkout EXCEPT ![c] = IdleCheckout]
  /\ UNCHANGED <<now, rows, unacked, hook, expirer, history>>

-----------------------------------------------------------------------------
(* The provider: a payment is seen, later confirmed; each is announced by  *)
(* a webhook that is sent until it is answered with success.               *)

PayableAtOnce(i) == invoice[i].provider = "issued"
Payable(i) == invoice[i].provider = "issued" /\ invoice[i].record # "none"

Pay(i) ==
  /\ Payable(i)
  /\ invoice' = [invoice EXCEPT ![i].provider = "received"]
  /\ unacked' = unacked \cup {<<i, "InvoiceReceivedPayment">>}
  /\ UNCHANGED <<now, sub, tierHeard, procs, faults, history>>

Confirm(i) ==
  /\ invoice[i].provider = "received"
  /\ invoice' = [invoice EXCEPT ![i].provider = "settled"]
  /\ unacked' = unacked \cup {<<i, "InvoiceSettled">>}
  /\ UNCHANGED <<now, sub, tierHeard, procs, faults, history>>

(* Deliveries are repeated until one is answered with success, also while  *)
(* an earlier one is still being handled.                                  *)
Delivered(i, kind) == <<i, kind>> \in unacked

-----------------------------------------------------------------------------
(* SettleInvoice, for both kinds of event.                                 *)

AnyRecord(i) == invoice[i].record # "none"
Uncredited(i) == invoice[i].record = "pending" /\ credits[i] = 0
Settleable(i) == invoice[i].record = "pending"

(* GetPaymentByProviderTxn.                                                *)
BeginSettle(h, i, kind) ==
  /\ hook[h].pc = "idle" /\ Delivered(i, kind)
  /\ Settleable(i)
  /\ hook' = [hook EXCEPT ![h] = [IdleHook EXCEPT !.pc = "read", !.invoice = i, !.kind = kind]]
  /\ redone' = IF \E g \in Hooks : hook[g].pc # "idle" /\ hook[g].invoice = i
                  THEN redone \cup {i} ELSE redone
  /\ UNCHANGED <<now, rows, unacked, checkout, expirer, faults, ledger, raced>>

(* Already completed: the webhook is answered, nothing else.               *)
AnswerRepeated(h, i, kind) ==
  /\ hook[h].pc = "idle" /\ Delivered(i, kind)
  /\ ~Settleable(i)
  /\ unacked' = unacked \ {<<i, kind>>}
  /\ UNCHANGED <<now, rows, procs, faults, history>>

(* A renewal starts where the running premium period ends.                 *)
LatestEnd(row) == IF row.end > now THEN row.end ELSE now
RenewFromNow(row) == now
PeriodStart(row) == IF ActivePremium(row) /\ row.end > now THEN row.end ELSE now

ReadSubscription(h) ==
  /\ hook[h].pc = "read"
  /\ hook' = [hook EXCEPT ![h].pc = "update", ![h].at = now,
                ![h].end = PeriodStart(sub[AccountOf(hook[h].invoice)]) + Period]
  /\ UNCHANGED <<now, rows, unacked, checkout, expirer, faults, history>>

(* UpdateSubscription; the history counts the extension.                   *)
Activate(h) ==
  /\ hook[h].pc = "update"
  /\ LET i == hook[h].invoice
         a == AccountOf(i)
         start == IF paidUntil[a] > hook[h].at THEN paidUntil[a] ELSE hook[h].at
     IN /\ sub' = [sub EXCEPT ![a] = Row("premium", "active", hook[h].end, FALSE)]
        /\ credits' = [credits EXCEPT ![i] = @ + 1]
        /\ granted' = [granted EXCEPT ![a] = @ + Period]
        /\ paidUntil' = IF credits[i] = 0 THEN [paidUntil EXCEPT ![a] = start + Period]
                                          ELSE paidUntil
        /\ Races(a, h)
  /\ hook' = [hook EXCEPT ![h].pc = "complete"]
  /\ UNCHANGED <<now, invoice, tierHeard, unacked, checkout, expirer, faults, redone>>

ExtendedOrFailed(h) == hook[h].pc \in {"update", "complete"}
Extended(h) == hook[h].pc = "complete"

CompletePayment(h) ==
  /\ Extended(h)
  /\ invoice' = [invoice EXCEPT ![hook[h].invoice].record = "completed"]
  /\ hook' = [hook EXCEPT ![h].pc = "publish"]
  /\ UNCHANGED <<now, sub, tierHeard, unacked, checkout, expirer, faults, history>>

PublishRenewed(h) ==
  /\ hook[h].pc = "publish"
  /\ tierHeard' = [tierHeard EXCEPT ![AccountOf(hook[h].invoice)] = "premium"]
  /\ unacked' = unacked \ {<<hook[h].invoice, hook[h].kind>>}
  /\ hook' = [hook EXCEPT ![h] = IdleHook]
  /\ UNCHANGED <<now, sub, invoice, checkout, expirer, faults, history>>

(* Invoices of those deliveries that extended and have yet to complete.    *)
Extending(hooks) == {hook[h].invoice : h \in {g \in hooks : hook[g].pc = "complete"}}

(* A failed statement is answered with an error: the event will come again.*)
AnswerError(h) == unacked' = unacked

SettleFails(h) ==
  /\ hook[h].pc \in {"read", "update", "complete"}
  /\ Fault("db_error")
  /\ hook' = [hook EXCEPT ![h] = IdleHook]
  /\ redone' = redone \cup Extending({h})
  /\ AnswerError(h)
  /\ UNCHANGED <<now, rows, checkout, expirer, ledger, raced>>

-----------------------------------------------------------------------------
(* Cancellation: one statement.  Consumers ignore its event.               *)
Cancel(a) ==
  /\ sub[a] # NoRow
  /\ sub' = [sub EXCEPT ![a].cancel = TRUE]
  /\ UNCHANGED <<now, invoice, tierHeard, unacked, procs, faults, history>>

-----------------------------------------------------------------------------
(* Expiry, by the worker or by a status request.                           *)

(* ListExpiredPremium.                                                     *)
Sweep ==
  /\ expirer[Worker].pc = "idle"
  /\ LET due == {a \in Accounts : Due(sub[a])}
     IN /\ due # {}
        /\ expirer' = [expirer EXCEPT ![Worker] = [pc |-> "expire", todo |-> due, at |-> None]]
  /\ UNCHANGED <<now, rows, unacked, checkout, hook, faults, history>>

(* GetStatus: EnsureFree, then the lazy expiry of the row it returned.     *)
View(v, a) ==
  /\ expirer[v].pc = "idle"
  /\ \/ /\ sub[a] = NoRow
        /\ expirer' = [expirer EXCEPT ![v] = [IdleExpirer EXCEPT !.pc = "insert", !.todo = {a}]]
     \/ /\ Due(sub[a])
        /\ expirer' = [expirer EXCEPT ![v] = [IdleExpirer EXCEPT !.pc = "expire", !.todo = {a}]]
  /\ UNCHANGED <<now, rows, unacked, checkout, hook, faults, history>>

(* CreateSubscription upserts: a row that came meanwhile is overwritten.   *)
InsertFree(v, a) ==
  /\ expirer[v].pc = "insert" /\ a \in expirer[v].todo
  /\ sub' = [sub EXCEPT ![a] = FreeRow]
  /\ Races(a, v)
  /\ expirer' = [expirer EXCEPT ![v] = IdleExpirer]
  /\ UNCHANGED <<now, invoice, tierHeard, unacked, checkout, hook, faults, ledger, redone>>

(* expireOne writes the free row whatever the row holds by now.            *)
Expire(e, a) ==
  /\ expirer[e].pc = "expire" /\ a \in expirer[e].todo
  /\ sub' = [sub EXCEPT ![a] = FreeRow]
  /\ Races(a, e)
  /\ expirer' = [expirer EXCEPT ![e].pc = "publish", ![e].at = a]
  /\ UNCHANGED <<now, invoice, tierHeard, unacked, checkout, hook, faults, ledger, redone>>

Proceed(e, a) ==
  expirer' = [expirer EXCEPT ![e] = IF expirer[e].todo = {a} THEN IdleExpirer
                                    ELSE [pc |-> "expire", todo |-> @.todo \ {a}, at |-> None]]

PublishExpired(e, a) ==
  /\ expirer[e].pc = "publish" /\ expirer[e].at = a
  /\ tierHeard' = [tierHeard EXCEPT ![a] = "free"]
  /\ Proceed(e, a)
  /\ UNCHANGED <<now, sub, invoice, unacked, checkout, hook, faults, history>>

(* The worker goes on with the next row, a status request ends.            *)
ExpireFails(e, a) ==
  /\ expirer[e].pc \in {"insert", "expire"} /\ a \in expirer[e].todo
  /\ Fault("db_error")
  /\ Proceed(e, a)
  /\ UNCHANGED <<now, rows, unacked, checkout, hook, history>>

-----------------------------------------------------------------------------
Tick ==
  /\ now < MaxTime
  /\ now' = now + 1
  /\ UNCHANGED <<rows, unacked, procs, faults, history>>

Crash ==
  /\ Fault("crash")
  /\ checkout' = [c \in Checkouts |-> IdleCheckout]
  /\ hook' = [h \in Hooks |-> IdleHook]
  /\ expirer' = [e \in Expirers |-> IdleExpirer]
  /\ redone' = redone \cup Extending(Hooks)
  /\ UNCHANGED <<now, rows, unacked, ledger, raced>>

Init ==
  /\ now = 0
  /\ sub = [a \in Accounts |-> NoRow]
  /\ invoice = [i \in Invoices |-> NoInvoice]
  /\ unacked = {}
  /\ checkout = [c \in Checkouts |-> IdleCheckout]
  /\ hook = [h \in Hooks |-> IdleHook]
  /\ expirer = [e \in Expirers |-> IdleExpirer]
  /\ tierHeard = [a \in Accounts |-> "free"]
  /\ faults = 0
  /\ credits = [i \in Invoices |-> 0]
  /\ granted = [a \in Accounts |-> 0]
  /\ paidUntil = [a \in Accounts |-> 0]
  /\ raced = {} /\ redone = {}

CheckoutStep(c) == UpsertRow(c) \/ CreateInvoice(c) \/ RecordPayment(c) \/ CheckoutFails(c)

Deliver(h) ==
  \E i \in Invoices, kind \in {"InvoiceReceivedPayment", "InvoiceSettled"} :
     BeginSettle(h, i, kind) \/ AnswerRepeated(h, i, kind)

SettleStep(h) ==
  \/ ReadSubscription(h) \/ Activate(h) \/ CompletePayment(h) \/ PublishRenewed(h)
  \/ SettleFails(h)

ExpireStep(e) ==
  \E a \in Accounts :
     InsertFree(e, a) \/ Expire(e, a) \/ PublishExpired(e, a) \/ ExpireFails(e, a)

Next ==
  \/ \E c \in Checkouts, a \in Accounts : BeginCheckout(c, a)
  \/ \E c \in Checkouts : CheckoutStep(c)
  \/ \E i \in Invoices : Pay(i) \/ Confirm(i)
  \/ \E h \in Hooks : Deliver(h) \/ SettleStep(h)
  \/ \E a \in Accounts : Cancel(a)
  \/ Sweep
  \/ \E v \in Viewers, a \in Accounts : View(v, a)
  \/ \E e \in Expirers : ExpireStep(e)
  \/ Tick
  \/ Crash

Spec == Init /\ [][Next]_vars

(* Handlers and the worker run on, and the provider delivers what was not  *)
(* acknowledged.  Accounts, payments, the clock and failures owe nothing.  *)
Fairness ==
  /\ \A c \in Checkouts : WF_vars(CheckoutStep(c))
  /\ \A h \in Hooks : WF_vars(Deliver(h) \/ SettleStep(h))
  /\ \A e \in Expirers : WF_vars(ExpireStep(e))
  /\ WF_vars(Sweep)

FairSpec == Spec /\ Fairness

-----------------------------------------------------------------------------
(* Properties.                                                             *)

Tiers == {"none", "free", "premium"}
SubRows == [tier : Tiers, status : {"none", "active", "pending"},
            end : Nat, cancel : BOOLEAN]

(* Type invariant; a request that acts for an invoice acts for one that    *)
(* has a payment record.                                                   *)
TypeOK ==
  /\ now \in 0..MaxTime /\ faults \in 0..FaultLimit
  /\ sub \in [Accounts -> SubRows]
  /\ invoice \in [Invoices -> [account : Accounts \cup {None},
                               record : {"none", "pending", "completed"},
                               provider : {"none", "issued", "received", "settled"}]]
  /\ \A u \in unacked : u[1] \in Invoices /\ invoice[u[1]].record # "none"
  /\ checkout \in [Checkouts -> [pc : {"idle", "upsert", "invoice", "record"},
                                 account : Accounts \cup {None}, row : SubRows,
                                 invoice : Invoices \cup {None}]]
  /\ hook \in [Hooks -> [pc : {"idle", "read", "update", "complete", "publish"},
                         invoice : Invoices \cup {None},
                         kind : {"none", "InvoiceReceivedPayment", "InvoiceSettled"},
                         at : Nat, end : Nat]]
  /\ \A h \in Hooks : hook[h].pc # "idle" =>
        hook[h].invoice \in Invoices /\ AccountOf(hook[h].invoice) \in Accounts
  /\ expirer \in [Expirers -> [pc : {"idle", "insert", "expire", "publish"},
                               todo : SUBSET Accounts, at : Accounts \cup {None}]]
  /\ tierHeard \in [Accounts -> Tiers]
  /\ credits \in [Invoices -> Nat] /\ granted \in [Accounts -> Nat]
  /\ paidUntil \in [Accounts -> Nat]
  /\ raced \subseteq Accounts /\ redone \subseteq Invoices

(* Premium time is time that was paid for: however checkouts, settlements, *)
(* sweeps and crashes interleave, no write of a stale row makes a premium  *)
(* period reach further than the settlements of that account granted.      *)
TimeIsPaidFor ==
  \A a \in Accounts : ActivePremium(sub[a]) =>
     granted[a] > 0 /\ sub[a].end <= now + granted[a]

(* A payment is recorded as completed only after it extended the           *)
(* subscription, wherever the service stopped in between.                  *)
CompletedWasCredited ==
  \A i \in Invoices : invoice[i].record = "completed" => credits[i] > 0

(* The row covers what was paid, every invoice counted once, until that is *)
(* used up, whatever checkouts, settlements, sweeps, cancellations and     *)
(* faults come in between; two ways to lose time are exempted: a row       *)
(* written over between another operation's read and write, and a checkout *)
(* that gives up a cancelled period.                                       *)
PaidTimeKept ==
  \A a \in Accounts \ raced : paidUntil[a] > now =>
     ActivePremium(sub[a]) /\ sub[a].end >= paidUntil[a]

(* ... and no more than that, unless an invoice of the account was worked  *)
(* on by two deliveries at once or was left extended and not completed.    *)
PaidTimeExact ==
  \A a \in Accounts \ raced :
     ((\A i \in redone : AccountOf(i) # a) /\ ActivePremium(sub[a])) =>
        sub[a].end = paidUntil[a]

(* A confirmed payment is credited and completed in the end: failed and    *)
(* interrupted deliveries are repeated.                                    *)
SettledIsCompleted ==
  \A i \in Invoices :
     invoice[i].provider = "settled" ~> invoice[i].record = "completed"

RanOut(a) == ActivePremium(sub[a]) /\ sub[a].end < now

(* Premium that ran out falls back to free in the table, unless an account *)
(* pays or starts a new checkout first: a sweep or a status request that   *)
(* failed or was interrupted is made up for by a later one.                *)
DueFallsBack == \A a \in Accounts : RanOut(a) ~> ~RanOut(a)
=============================================================================
