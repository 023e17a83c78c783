------------------------ MODULE Subscriptions_proofs ------------------------
(***************************************************************************)
(* Proofs about Subscriptions for all accounts, invoices, overlapping      *)
(* requests, faults and periods: premium time was granted by a settlement, *)
(* a completed payment was credited, and what was paid is kept, and        *)
(* counted once, except where operations raced for a row or an invoice.    *)
(***************************************************************************)
EXTENDS Subscriptions, TLAPS

Kinds == {"InvoiceReceivedPayment", "InvoiceSettled"}

InvoiceRecords == [account : Accounts \cup {None},
                   record : {"none", "pending", "completed"},
                   provider : {"none", "issued", "received", "settled"}]
CheckoutRecords == [pc : {"idle", "upsert", "invoice", "record"},
                    account : Accounts \cup {None}, row : SubRows,
                    invoice : Invoices \cup {None}]
HookRecords == [pc : {"idle", "read", "update", "complete", "publish"},
                invoice : Invoices \cup {None}, kind : {"none"} \cup Kinds,
                at : Nat, end : Nat]
ExpirerRecords == [pc : {"idle", "insert", "expire", "publish"},
                   todo : SUBSET Accounts, at : Accounts \cup {None}]

(* A record in the table is of an invoice with an account; requests refer  *)
(* to such invoices.                                                       *)
Recorded(i) == i \in Invoices /\ invoice[i].record # "none"

TablesOK ==
  /\ now \in 0..MaxTime /\ faults \in 0..FaultLimit
  /\ sub \in [Accounts -> SubRows]
  /\ invoice \in [Invoices -> InvoiceRecords]
  /\ \A i \in Invoices : invoice[i] # NoInvoice => AccountOf(i) \in Accounts
  /\ \A i \in Invoices :
        invoice[i].provider \in {"received", "settled"} => Recorded(i)
  /\ \A u \in unacked : Recorded(u[1])
  /\ tierHeard \in [Accounts -> Tiers]
  /\ credits \in [Invoices -> Nat] /\ granted \in [Accounts -> Nat]
  /\ paidUntil \in [Accounts -> Nat]
  /\ raced \subseteq Accounts /\ \A i \in redone : Recorded(i)

CheckoutFits(rec) ==
  /\ rec \in CheckoutRecords
  /\ rec.pc # "idle" => rec.account \in Accounts
  /\ rec.pc = "record" =>
       rec.invoice \in Invoices /\ invoice[rec.invoice] # NoInvoice

HookFits(rec) ==
  /\ rec \in HookRecords
  /\ rec.pc # "idle" => Recorded(rec.invoice)

TypeInv ==
  /\ TablesOK
  /\ checkout \in [Checkouts -> CheckoutRecords]
  /\ \A c \in Checkouts : CheckoutFits(checkout[c])
  /\ hook \in [Hooks -> HookRecords]
  /\ \A h \in Hooks : HookFits(hook[h])
  /\ expirer \in [Expirers -> ExpirerRecords]

LEMMA TypeInvImplies == TypeInv => TypeOK
<1> SUFFICES ASSUME TypeInv PROVE TypeOK OBVIOUS
<1>1. \A i : Recorded(i) => i \in Invoices /\ AccountOf(i) \in Accounts
  BY DEF TypeInv, TablesOK, Recorded, NoInvoice
<1> QED
  BY <1>1 DEF TypeInv, TablesOK, TypeOK, HookFits, Recorded, InvoiceRecords,
              CheckoutRecords, HookRecords, ExpirerRecords, Kinds

LEMMA IdleTypes ==
  /\ NoRow \in SubRows /\ FreeRow \in SubRows
  /\ CheckoutFits(IdleCheckout)
  /\ HookFits(IdleHook)
  /\ IdleExpirer \in ExpirerRecords
BY TimeAssumption
DEF NoRow, FreeRow, Row, SubRows, Tiers, CheckoutFits, IdleCheckout,
    CheckoutRecords, HookFits, IdleHook, HookRecords, IdleExpirer,
    ExpirerRecords, Kinds

(* What the two histories gain.                                            *)
LEMMA RaceTypes ==
  ASSUME TypeInv, NEW a \in Accounts, NEW p, Races(a, p)
  PROVE  raced' \subseteq Accounts
BY DEF Races, TypeInv, TablesOK

LEMMA ExtendingRecorded ==
  ASSUME TypeInv, NEW hooks \in SUBSET Hooks
  PROVE  \A i \in redone \cup Extending(hooks) : Recorded(i)
BY DEF Extending, TypeInv, TablesOK, HookFits

LEMMA InitTypes == Init => TypeInv
<1> SUFFICES ASSUME Init PROVE TypeInv OBVIOUS
<1>1. TablesOK
  BY TimeAssumption, FaultsAssumption, IdleTypes
  DEF Init, TablesOK, NoInvoice, InvoiceRecords, Tiers
<1> QED
  BY <1>1, IdleTypes DEF Init, TypeInv, CheckoutFits, HookFits

-----------------------------------------------------------------------------
(* Steps of a checkout, of a settlement, of an expirer; the rest.          *)

LEMMA CheckoutTypes ==
  ASSUME TypeInv, NEW c \in Checkouts,
         \/ \E a \in Accounts : BeginCheckout(c, a)
         \/ CheckoutStep(c)
  PROVE  TypeInv'
<1> USE DEF TypeInv
<1>1. ASSUME NEW a \in Accounts, BeginCheckout(c, a) PROVE TypeInv'
  <2>1. CheckoutRow(sub[a]) \in SubRows
    BY TimeAssumption DEF CheckoutRow, Row, SubRows, Tiers, TablesOK
  <2>2. checkout'[c] \in CheckoutRecords
    BY <1>1, <2>1 DEF BeginCheckout, IdleCheckout, CheckoutRecords
  <2> QED
    BY <1>1, <2>2 DEF BeginCheckout, rows, history, ledger, TablesOK, Recorded,
       CheckoutFits, HookFits, AccountOf, IdleCheckout
<1>2. CASE UpsertRow(c)
  <2>1. sub' \in [Accounts -> SubRows]
    BY <1>2 DEF UpsertRow, TablesOK, CheckoutFits, CheckoutRecords
  <2>2. checkout'[c] \in CheckoutRecords
    BY <1>2, IdleTypes DEF UpsertRow, CheckoutRecords
  <2> QED
    BY <1>2, <2>1, <2>2 DEF UpsertRow, history, ledger, TablesOK, Recorded,
       CheckoutFits, HookFits, AccountOf
<1>3. CASE CreateInvoice(c)
  <2>1. PICK i \in Invoices :
          /\ invoice[i] = NoInvoice
          /\ invoice' = [invoice EXCEPT ![i].account = checkout[c].account,
                                        ![i].provider = "issued"]
          /\ checkout' = [checkout EXCEPT ![c].pc = "record", ![c].invoice = i]
    BY <1>3 DEF CreateInvoice
  <2>2. checkout[c].account \in Accounts
    BY <1>3 DEF CreateInvoice, CheckoutFits
  <2>3. invoice' \in [Invoices -> InvoiceRecords]
        /\ invoice'[i].account = checkout[c].account
        /\ invoice'[i].provider = "issued"
        /\ invoice'[i].record = invoice[i].record
    BY <2>1, <2>2 DEF TablesOK, InvoiceRecords
  <2>4. invoice'[i] # NoInvoice
    BY <2>3 DEF NoInvoice
  <2>5. \A j \in Invoices : j # i => invoice'[j] = invoice[j]
    BY <2>1 DEF TablesOK
  <2>6. \A j : Recorded(j) => Recorded(j)'
    BY <2>3, <2>5 DEF Recorded
  <2>7. checkout'[c] \in CheckoutRecords
        /\ checkout' \in [Checkouts -> CheckoutRecords]
    BY <2>1 DEF CheckoutRecords
  <2>8. TablesOK'
    BY <1>3, <2>2, <2>3, <2>4, <2>5, <2>6
    DEF CreateInvoice, history, ledger, TablesOK, AccountOf
  <2>9. ASSUME NEW d \in Checkouts PROVE CheckoutFits(checkout[d])'
    <3>1. CASE d = c
      BY <2>1, <2>2, <2>4, <2>7, <3>1 DEF CheckoutFits, CheckoutRecords
    <3>2. CASE d # c
      <4>1. checkout'[d] = checkout[d] BY <2>1, <3>2
      <4>2. \A j \in Invoices : invoice[j] # NoInvoice => invoice'[j] # NoInvoice
        BY <2>1, <2>5
      <4> QED BY <4>1, <4>2 DEF CheckoutFits
    <3> QED BY <3>1, <3>2
  <2>10. \A h \in Hooks : HookFits(hook[h])'
    BY <1>3, <2>6 DEF CreateInvoice, HookFits
  <2> QED BY <1>3, <2>7, <2>8, <2>9, <2>10 DEF CreateInvoice
<1>4. CASE RecordPayment(c)
  <2> DEFINE i == checkout[c].invoice
  <2>1. i \in Invoices /\ invoice[i] # NoInvoice
    BY <1>4 DEF RecordPayment, CheckoutFits
  <2>2. invoice' \in [Invoices -> InvoiceRecords]
        /\ invoice'[i].account = invoice[i].account
        /\ invoice'[i].record = "pending"
    BY <1>4, <2>1 DEF RecordPayment, TablesOK, InvoiceRecords
  <2>3. invoice'[i] # NoInvoice
    BY <2>2 DEF NoInvoice
  <2>4. \A j \in Invoices : j # i => invoice'[j] = invoice[j]
    BY <1>4 DEF RecordPayment, TablesOK
  <2>5. \A j : Recorded(j) => Recorded(j)'
    BY <2>2, <2>4 DEF Recorded
  <2>6. TablesOK'
    BY <1>4, <2>1, <2>2, <2>3, <2>4, <2>5
    DEF RecordPayment, history, ledger, TablesOK, AccountOf
  <2>7. \A d \in Checkouts : CheckoutFits(checkout[d])'
    BY <1>4, <2>1, <2>3, <2>4, IdleTypes
    DEF RecordPayment, CheckoutFits, IdleCheckout
  <2>8. \A h \in Hooks : HookFits(hook[h])'
    BY <1>4, <2>5 DEF RecordPayment, HookFits
  <2> QED
    BY <1>4, <2>6, <2>7, <2>8, IdleTypes DEF RecordPayment, CheckoutFits
<1>5. CASE CheckoutFails(c)
  <2>1. faults' \in 0..FaultLimit
    BY <1>5, FaultsAssumption DEF CheckoutFails, Fault, TablesOK
  <2> QED
    BY <1>5, <2>1, IdleTypes DEF CheckoutFails, rows, history, ledger, TablesOK,
       Recorded, CheckoutFits, HookFits, AccountOf, IdleCheckout
<1> QED BY <1>1, <1>2, <1>3, <1>4, <1>5 DEF CheckoutStep

LEMMA PaymentTypes ==
  ASSUME TypeInv, NEW i \in Invoices, Pay(i) \/ Confirm(i)
  PROVE  TypeInv'
<1> USE DEF TypeInv
<1>1. Recorded(i) /\ invoice[i] # NoInvoice
  BY DEF Pay, Payable, Confirm, TablesOK, Recorded, NoInvoice
<1>2. PICK p \in {"received", "settled"} :
          invoice' = [invoice EXCEPT ![i].provider = p]
  BY DEF Pay, Confirm
<1>3. /\ invoice' \in [Invoices -> InvoiceRecords]
      /\ invoice'[i].account = invoice[i].account
      /\ invoice'[i].record = invoice[i].record
      /\ invoice'[i].provider = p
  BY <1>2 DEF TablesOK, InvoiceRecords
<1>4. \A j \in Invoices : j # i => invoice'[j] = invoice[j]
  BY DEF Pay, Confirm, TablesOK
<1>5. invoice'[i] # NoInvoice
  BY <1>3, <1>1 DEF NoInvoice, Recorded
<1>6. \A j : Recorded(j) => Recorded(j)'
  BY <1>3, <1>4 DEF Recorded
<1>7. \A c \in Checkouts : CheckoutFits(checkout[c])'
  BY <1>4, <1>5 DEF Pay, Confirm, CheckoutFits, procs
<1>8. \A h \in Hooks : HookFits(hook[h])'
  BY <1>6 DEF Pay, Confirm, HookFits, procs
<1>9. \A u \in unacked' : Recorded(u[1])'
  BY <1>6, <1>1 DEF Pay, Confirm, TablesOK
<1>10. \A j \in Invoices :
         invoice'[j].provider \in {"received", "settled"} => Recorded(j)'
  BY <1>4, <1>6, <1>1 DEF TablesOK
<1>11. TablesOK'
  BY <1>3, <1>4, <1>6, <1>9, <1>1, <1>10
  DEF Pay, Confirm, TablesOK, AccountOf, history, ledger
<1> QED BY <1>7, <1>8, <1>11 DEF Pay, Confirm, procs

LEMMA SettleTypes ==
  ASSUME TypeInv, NEW h \in Hooks, Deliver(h) \/ SettleStep(h)
  PROVE  TypeInv'
<1> USE DEF TypeInv
<1>1. ASSUME NEW i \in Invoices, NEW kind \in Kinds, BeginSettle(h, i, kind)
      PROVE  TypeInv'
  <2>1. HookFits(hook'[h])
    BY <1>1 DEF BeginSettle, Settleable, IdleHook, HookFits, HookRecords,
                Recorded
  <2>2. \A j \in redone' : Recorded(j)
    BY <1>1 DEF BeginSettle, Settleable, TablesOK, Recorded
  <2>3. TablesOK'
    BY <1>1, <2>2 DEF BeginSettle, rows, ledger, TablesOK, Recorded, AccountOf
  <2>4. /\ UNCHANGED <<invoice, checkout, expirer>>
        /\ hook' \in [Hooks -> HookRecords]
        /\ \A g \in Hooks : g # h => hook'[g] = hook[g]
    BY <1>1, <2>1 DEF BeginSettle, rows, HookFits
  <2>5. \A g \in Hooks : HookFits(hook[g])'
    BY <2>1, <2>4 DEF HookFits, Recorded
  <2> QED
    BY <2>3, <2>4, <2>5 DEF CheckoutFits
<1>2. ASSUME NEW i \in Invoices, NEW kind \in Kinds, AnswerRepeated(h, i, kind)
      PROVE  TypeInv'
  BY <1>2 DEF AnswerRepeated, rows, procs, history, ledger, TablesOK, Recorded,
     CheckoutFits, HookFits, AccountOf
<1>3. CASE ReadSubscription(h)
  <2>1. AccountOf(hook[h].invoice) \in Accounts
    BY <1>3 DEF ReadSubscription, HookFits, Recorded, TablesOK, NoInvoice
  <2>2. PeriodStart(sub[AccountOf(hook[h].invoice)]) \in Nat
    BY <2>1 DEF PeriodStart, TablesOK, SubRows
  <2>4. now \in Nat /\ PeriodStart(sub[AccountOf(hook[h].invoice)]) + Period \in Nat
    BY <2>2, TimeAssumption DEF TablesOK
  <2>3. hook'[h] \in HookRecords /\ hook'[h].invoice = hook[h].invoice
    BY <1>3, <2>4 DEF ReadSubscription, HookRecords
  <2> QED
    BY <1>3, <2>3 DEF ReadSubscription, rows, history, ledger, TablesOK, Recorded,
       CheckoutFits, HookFits, AccountOf
<1>4. CASE Activate(h)
  <2> DEFINE i == hook[h].invoice
             a == AccountOf(i)
  <2>1. i \in Invoices /\ a \in Accounts
    BY <1>4 DEF Activate, HookFits, Recorded, TablesOK, NoInvoice
  <2>2. Row("premium", "active", hook[h].end, FALSE) \in SubRows
        /\ hook[h].at \in Nat
    BY DEF Row, SubRows, Tiers, HookRecords
  <2>3. sub' \in [Accounts -> SubRows]
    BY <1>4, <2>2 DEF Activate, TablesOK
  <2>4. credits' \in [Invoices -> Nat] /\ granted' \in [Accounts -> Nat]
    BY <1>4, <2>1, TimeAssumption DEF Activate, TablesOK
  <2>5. paidUntil' \in [Accounts -> Nat]
    BY <1>4, <2>1, <2>2, TimeAssumption DEF Activate, TablesOK
  <2>6. hook'[h] \in HookRecords /\ hook'[h].invoice = i
    BY <1>4 DEF Activate, HookRecords
  <2>7. raced' \subseteq Accounts
    BY <1>4, <2>1, RaceTypes DEF Activate
  <2>8. TablesOK'
    BY <1>4, <2>3, <2>4, <2>5, <2>7
    DEF Activate, TablesOK, Recorded, AccountOf
  <2> QED
    BY <1>4, <2>6, <2>8 DEF Activate, Recorded, CheckoutFits, HookFits
<1>5. CASE CompletePayment(h)
  <2> DEFINE i == hook[h].invoice
  <2>1. Recorded(i)
    BY <1>5 DEF CompletePayment, Extended, HookFits
  <2>2. invoice' \in [Invoices -> InvoiceRecords]
        /\ invoice'[i].account = invoice[i].account
        /\ invoice'[i].record = "completed"
    BY <1>5, <2>1 DEF CompletePayment, TablesOK, InvoiceRecords, Recorded
  <2>3. invoice'[i] # NoInvoice /\ invoice[i] # NoInvoice
    BY <2>1, <2>2 DEF NoInvoice, Recorded
  <2>4. \A j \in Invoices : j # i => invoice'[j] = invoice[j]
    BY <1>5 DEF CompletePayment, TablesOK
  <2>5. \A j : Recorded(j) => Recorded(j)'
    BY <2>2, <2>4 DEF Recorded
  <2>6. TablesOK'
    BY <1>5, <2>1, <2>2, <2>3, <2>4, <2>5
    DEF CompletePayment, history, ledger, TablesOK, AccountOf, Recorded
  <2>7. \A c \in Checkouts : CheckoutFits(checkout[c])'
    BY <1>5, <2>3, <2>4 DEF CompletePayment, CheckoutFits
  <2>8. /\ hook' \in [Hooks -> HookRecords]
        /\ \A g \in Hooks : hook'[g].invoice = hook[g].invoice
        /\ hook[h].pc # "idle"
        /\ \A g \in Hooks : g # h => hook'[g] = hook[g]
    BY <1>5 DEF CompletePayment, HookRecords, Extended
  <2>9. \A g \in Hooks : HookFits(hook[g])'
    BY <2>5, <2>8 DEF HookFits
  <2> QED BY <1>5, <2>6, <2>7, <2>8, <2>9 DEF CompletePayment
<1>6. CASE PublishRenewed(h)
  <2>1. tierHeard' \in [Accounts -> Tiers]
    BY <1>6 DEF PublishRenewed, TablesOK, Tiers
  <2> QED
    BY <1>6, <2>1, IdleTypes DEF PublishRenewed, history, ledger, TablesOK, Recorded,
       CheckoutFits, HookFits, AccountOf, IdleHook
<1>7. CASE SettleFails(h)
  <2>1. faults' \in 0..FaultLimit
    BY <1>7, FaultsAssumption DEF SettleFails, Fault, TablesOK
  <2>2. \A j \in redone' : Recorded(j)
    BY <1>7, ExtendingRecorded DEF SettleFails, rows, Recorded
  <2>3. TablesOK'
    BY <1>7, <2>1, <2>2 DEF SettleFails, AnswerError, rows, ledger, TablesOK,
       Recorded, AccountOf
  <2> QED
    BY <1>7, <2>3, IdleTypes DEF SettleFails, rows, Recorded, CheckoutFits,
       HookFits, IdleHook
<1> QED
  BY <1>1, <1>2, <1>3, <1>4, <1>5, <1>6, <1>7 DEF Deliver, SettleStep, Kinds

LEMMA ExpirerTypes ==
  ASSUME TypeInv, NEW e \in Expirers, NEW a \in Accounts,
         \/ InsertFree(e, a) \/ Expire(e, a)
         \/ PublishExpired(e, a) \/ ExpireFails(e, a)
  PROVE  TypeInv'
<1> USE DEF TypeInv
<1>1. ASSUME Proceed(e, a) PROVE expirer' \in [Expirers -> ExpirerRecords]
  BY <1>1, IdleTypes DEF Proceed, ExpirerRecords
<1>2. CASE InsertFree(e, a)
  <2>1. raced' \subseteq Accounts
    BY <1>2, RaceTypes DEF InsertFree
  <2>2. TablesOK'
    BY <1>2, <2>1, IdleTypes DEF InsertFree, ledger, TablesOK, Recorded, AccountOf
  <2> QED
    BY <1>2, <2>2, IdleTypes DEF InsertFree, Recorded, CheckoutFits, HookFits
<1>3. CASE Expire(e, a)
  <2>1. expirer' \in [Expirers -> ExpirerRecords]
    BY <1>3 DEF Expire, ExpirerRecords
  <2>2. raced' \subseteq Accounts
    BY <1>3, RaceTypes DEF Expire
  <2>3. TablesOK'
    BY <1>3, <2>2, IdleTypes DEF Expire, ledger, TablesOK, Recorded, AccountOf
  <2> QED
    BY <1>3, <2>1, <2>3 DEF Expire, Recorded, CheckoutFits, HookFits
<1>4. CASE PublishExpired(e, a)
  <2>1. tierHeard' \in [Accounts -> Tiers]
    BY <1>4 DEF PublishExpired, TablesOK, Tiers
  <2> QED
    BY <1>1, <1>4, <2>1 DEF PublishExpired, history, ledger, TablesOK, Recorded,
       CheckoutFits, HookFits, AccountOf
<1>5. CASE ExpireFails(e, a)
  <2>1. faults' \in 0..FaultLimit
    BY <1>5, FaultsAssumption DEF ExpireFails, Fault, TablesOK
  <2> QED
    BY <1>1, <1>5, <2>1 DEF ExpireFails, rows, history, ledger, TablesOK, Recorded,
       CheckoutFits, HookFits, AccountOf
<1> QED BY <1>2, <1>3, <1>4, <1>5

LEMMA OtherTypes ==
  ASSUME TypeInv,
         \/ (\E a \in Accounts : Cancel(a)) \/ Sweep
         \/ (\E v \in Viewers, a \in Accounts : View(v, a))
         \/ Tick \/ Crash \/ UNCHANGED vars
  PROVE  TypeInv'
<1> USE DEF TypeInv
<1>1. ASSUME NEW a \in Accounts, Cancel(a) PROVE TypeInv'
  <2>1. sub' \in [Accounts -> SubRows]
    BY <1>1 DEF Cancel, TablesOK, SubRows
  <2> QED
    BY <1>1, <2>1 DEF Cancel, procs, history, ledger, TablesOK, Recorded,
       CheckoutFits, HookFits, AccountOf
<1>2. ASSUME expirer' \in [Expirers -> ExpirerRecords],
             UNCHANGED <<now, rows, unacked, checkout, hook, faults, history>>
      PROVE  TypeInv'
  BY <1>2 DEF rows, history, ledger, TablesOK, Recorded, CheckoutFits, HookFits,
     AccountOf
<1>3. CASE Sweep
  <2>1. expirer' \in [Expirers -> ExpirerRecords]
    BY <1>3 DEF Sweep, ExpirerRecords
  <2> QED BY <1>2, <1>3, <2>1 DEF Sweep
<1>4. ASSUME NEW v \in Viewers, NEW a \in Accounts, View(v, a) PROVE TypeInv'
  <2>1. \A pc \in {"insert", "expire"} :
          [IdleExpirer EXCEPT !.pc = pc, !.todo = {a}] \in ExpirerRecords
    BY DEF ExpirerRecords, IdleExpirer
  <2>2. \A rec \in ExpirerRecords :
          [expirer EXCEPT ![v] = rec] \in [Expirers -> ExpirerRecords]
    OBVIOUS
  <2>3. expirer' \in [Expirers -> ExpirerRecords]
    BY <1>4, <2>1, <2>2 DEF View
  <2> QED BY <1>2, <1>4, <2>3 DEF View
<1>5. CASE Tick
  BY <1>5, TimeAssumption DEF Tick, rows, procs, history, ledger, TablesOK, Recorded,
     CheckoutFits, HookFits, AccountOf
<1>6. CASE Crash
  <2>1. faults' \in 0..FaultLimit
    BY <1>6, FaultsAssumption DEF Crash, Fault, TablesOK
  <2>2. \A j \in redone' : Recorded(j)
    BY <1>6, ExtendingRecorded DEF Crash, rows, Recorded
  <2>3. TablesOK'
    BY <1>6, <2>1, <2>2 DEF Crash, rows, ledger, TablesOK, Recorded, AccountOf
  <2> QED
    BY <1>6, <2>3, IdleTypes DEF Crash, rows, Recorded, CheckoutFits, HookFits,
       IdleCheckout, IdleHook
<1>7. CASE UNCHANGED vars
  BY <1>7 DEF vars, rows, procs, history, ledger, TablesOK, Recorded, CheckoutFits,
     HookFits, AccountOf
<1> QED BY <1>1, <1>3, <1>4, <1>5, <1>6, <1>7

LEMMA AlwaysTypeInv == Spec => []TypeInv
<1>1. TypeInv /\ [Next]_vars => TypeInv'
  BY CheckoutTypes, PaymentTypes, SettleTypes, ExpirerTypes, OtherTypes
  DEF Next, ExpireStep
<1> QED BY <1>1, InitTypes, PTL DEF Spec

(* The tables and requests keep their types, and no request or event acts  *)
(* for an invoice without an account.                                      *)
THEOREM TypeCorrect == Spec => []TypeOK
BY AlwaysTypeInv, TypeInvImplies, PTL

-----------------------------------------------------------------------------
(* Completed payments.                                                     *)

CreditInv ==
  /\ CompletedWasCredited
  /\ \A h \in Hooks : hook[h].pc \in {"complete", "publish"} =>
       credits[hook[h].invoice] > 0

LEMMA CreditStep == TypeInv /\ CreditInv /\ [Next]_vars => CreditInv'
<1> SUFFICES ASSUME TypeInv, CreditInv, [Next]_vars PROVE CreditInv'
  OBVIOUS
<1> USE DEF TypeInv, CreditInv, CompletedWasCredited
<1>1. ASSUME NEW h \in Hooks, Activate(h) PROVE CreditInv'
  <2> DEFINE i == hook[h].invoice
  <2>1. i \in Invoices
    BY <1>1 DEF Activate, HookFits, Recorded
  <2>2. credits'[i] = credits[i] + 1 /\ credits[i] \in Nat
        /\ \A j \in Invoices : credits[j] > 0 => credits'[j] > 0
    BY <1>1, <2>1 DEF Activate, TablesOK
  <2>3. \A g \in Hooks : hook[g].pc # "idle" => hook[g].invoice \in Invoices
    BY DEF HookFits, Recorded
  <2>4. hook'[h].invoice = i /\ \A g \in Hooks : g # h => hook'[g] = hook[g]
    BY <1>1 DEF Activate, HookRecords
  <2>5. invoice' = invoice BY <1>1 DEF Activate
  <2>6. ASSUME NEW g \in Hooks, hook'[g].pc \in {"complete", "publish"}
        PROVE  credits'[hook'[g].invoice] > 0
    <3>1. CASE g = h BY <2>2, <2>4, <3>1
    <3>2. CASE g # h BY <2>2, <2>3, <2>4, <2>6, <3>2
    <3> QED BY <3>1, <3>2
  <2> QED BY <2>2, <2>5, <2>6
<1>2. ASSUME NEW h \in Hooks, CompletePayment(h) PROVE CreditInv'
  <2>1. credits[hook[h].invoice] > 0
    BY <1>2 DEF CompletePayment, Extended
  <2>2. \A g \in Hooks : hook'[g].invoice = hook[g].invoice
          /\ (hook'[g].pc = hook[g].pc \/ g = h)
    BY <1>2 DEF CompletePayment, HookRecords
  <2>3. \A j \in Invoices : invoice'[j].record = "completed" =>
          invoice[j].record = "completed" \/ j = hook[h].invoice
    BY <1>2 DEF CompletePayment, TablesOK
  <2> QED BY <1>2, <2>1, <2>2, <2>3 DEF CompletePayment, history, ledger
<1>3. ASSUME UNCHANGED credits,
             \A j \in Invoices : invoice'[j].record = "completed" =>
               invoice[j].record = "completed",
             \A h \in Hooks :
               \/ hook'[h].pc \in {"idle", "read", "update"}
               \/ hook'[h] = hook[h]
      PROVE  CreditInv'
  BY <1>3
<1>4. ASSUME NEW c \in Checkouts,
             (\E a \in Accounts : BeginCheckout(c, a)) \/ CheckoutStep(c)
      PROVE  CreditInv'
  <2>1. UNCHANGED <<hook, credits>>
    BY <1>4 DEF BeginCheckout, CheckoutStep, UpsertRow, CreateInvoice,
                RecordPayment, CheckoutFails, history, ledger
  <2>2. \A j \in Invoices : invoice'[j].record = "completed" =>
          invoice[j].record = "completed"
    <3>1. CASE CreateInvoice(c) BY <3>1 DEF CreateInvoice, TablesOK, InvoiceRecords
    <3>2. CASE RecordPayment(c) BY <3>2 DEF RecordPayment, TablesOK, InvoiceRecords
    <3>3. CASE invoice' = invoice BY <3>3
    <3> QED
      BY <1>4, <3>1, <3>2, <3>3 DEF BeginCheckout, CheckoutStep, UpsertRow,
                                    CheckoutFails, rows
  <2> QED BY <1>3, <2>1, <2>2
<1>5. ASSUME NEW i \in Invoices, Pay(i) \/ Confirm(i) PROVE CreditInv'
  <2>1. \A j \in Invoices : invoice'[j].record = invoice[j].record
    BY <1>5 DEF Pay, Confirm, TablesOK, InvoiceRecords
  <2> QED BY <1>3, <1>5, <2>1 DEF Pay, Confirm, procs, history, ledger
<1>6. ASSUME NEW h \in Hooks,
             Deliver(h) \/ ReadSubscription(h) \/ SettleFails(h)
      PROVE  CreditInv'
  <2>1. UNCHANGED <<invoice, credits>>
    BY <1>6 DEF Deliver, BeginSettle, AnswerRepeated, ReadSubscription,
                SettleFails, rows, history, ledger
  <2>2. \A g \in Hooks : hook'[g].pc \in {"idle", "read", "update"}
                         \/ hook'[g] = hook[g]
    <3>1. CASE Deliver(h)
      BY <3>1 DEF Deliver, BeginSettle, AnswerRepeated, IdleHook, procs
    <3>2. CASE ReadSubscription(h)
      BY <3>2 DEF ReadSubscription, HookRecords
    <3>3. CASE SettleFails(h)
      BY <3>3 DEF SettleFails, IdleHook
    <3> QED BY <1>6, <3>1, <3>2, <3>3
  <2> QED BY <1>3, <2>1, <2>2
<1>7. ASSUME NEW h \in Hooks, PublishRenewed(h) PROVE CreditInv'
  <2>1. \A g \in Hooks : hook'[g].pc \in {"idle", "read", "update"}
                         \/ hook'[g] = hook[g]
    BY <1>7 DEF PublishRenewed, IdleHook
  <2> QED BY <1>3, <1>7, <2>1 DEF PublishRenewed, history, ledger
<1>8. ASSUME UNCHANGED <<invoice, hook, credits>> PROVE CreditInv'
  BY <1>3, <1>8
<1>9. CASE (\E a \in Accounts : Cancel(a)) \/ Sweep \/ Tick \/ UNCHANGED vars
  BY <1>8, <1>9 DEF Cancel, Sweep, Tick, vars, rows, procs, history, ledger
<1>10. CASE \E v \in Viewers, a \in Accounts : View(v, a)
  BY <1>8, <1>10 DEF View, rows, history, ledger
<1>11. CASE \E e \in Expirers : ExpireStep(e)
  BY <1>8, <1>11 DEF ExpireStep, InsertFree, Expire, PublishExpired,
     ExpireFails, rows, history, ledger
<1>12. CASE Crash
  <2>1. \A h \in Hooks : hook'[h].pc = "idle"
    BY <1>12 DEF Crash, IdleHook
  <2> QED BY <1>3, <1>12, <2>1 DEF Crash, rows, history, ledger
<1> QED
  BY <1>1, <1>2, <1>4, <1>5, <1>6, <1>7, <1>9, <1>10, <1>11, <1>12
  DEF Next, SettleStep

(* A payment is completed only after it extended the subscription: the     *)
(* update comes first in SettleInvoice, whatever fails or is repeated.     *)
THEOREM CompletedPaymentsCredited == Spec => []CompletedWasCredited
<1>1. Init => CreditInv
  BY DEF Init, CreditInv, CompletedWasCredited, NoInvoice, IdleHook
<1> QED BY <1>1, CreditStep, AlwaysTypeInv, PTL DEF Spec, CreditInv

-----------------------------------------------------------------------------
(* Premium time.  What a settlement is about to write was computed from a  *)
(* row and a clock that since then can only have been granted more.        *)

PaidFor(row, a) ==
  ActivePremium(row) => granted[a] > 0 /\ row.end <= now + granted[a]

TimeInv ==
  /\ \A a \in Accounts : PaidFor(sub[a], a)
  /\ \A c \in Checkouts : checkout[c].pc = "upsert" =>
       ~ActivePremium(checkout[c].row)
  /\ \A h \in Hooks : hook[h].pc = "update" =>
       hook[h].end <= now + granted[AccountOf(hook[h].invoice)] + Period

LEMMA Numbers ==
  ASSUME TypeInv
  PROVE  /\ now \in Nat /\ Period \in Nat \ {0}
         /\ \A a \in Accounts : granted[a] \in Nat /\ sub[a].end \in Nat
         /\ \A h \in Hooks : hook[h].end \in Nat
BY TimeAssumption DEF TypeInv, TablesOK, SubRows, HookRecords

LEMMA NumbersPrimed ==
  ASSUME TypeInv'
  PROVE  now' \in Nat /\ \A h \in Hooks : hook'[h].end \in Nat
BY TimeAssumption DEF TypeInv, TablesOK, HookRecords

LEMMA HookAccounts ==
  ASSUME TypeInv, NEW h \in Hooks, hook[h].pc # "idle"
  PROVE  AccountOf(hook[h].invoice) \in Accounts
BY DEF TypeInv, TablesOK, HookFits, Recorded, NoInvoice

(* Steps that write no premium row and settle nothing.                     *)
LEMMA UngrantedKeeps ==
  ASSUME TypeInv, TypeInv', TimeInv, UNCHANGED granted, now' >= now,
         \A a \in Accounts :
           /\ ActivePremium(sub'[a]) => ActivePremium(sub[a])
           /\ ActivePremium(sub'[a]) => sub'[a].end = sub[a].end,
         \A c \in Checkouts :
           checkout'[c] = checkout[c] \/ checkout'[c].pc # "upsert"
             \/ ~ActivePremium(checkout'[c].row),
         \A h \in Hooks :
           \/ hook'[h].pc # "update"
           \/ /\ hook'[h] = hook[h]
              /\ AccountOf(hook[h].invoice)' = AccountOf(hook[h].invoice)
  PROVE  TimeInv'
<1>1. ASSUME NEW a \in Accounts PROVE PaidFor(sub[a], a)'
  BY Numbers, NumbersPrimed DEF TimeInv, PaidFor, ActivePremium
<1>2. ASSUME NEW h \in Hooks, hook'[h].pc = "update"
      PROVE  hook'[h].end <= now' + granted'[AccountOf(hook[h].invoice)'] + Period
  <2>1. hook'[h] = hook[h]
        /\ AccountOf(hook[h].invoice)' = AccountOf(hook[h].invoice)
    BY <1>2
  <2>2. AccountOf(hook[h].invoice) \in Accounts
    BY <1>2, <2>1, HookAccounts
  <2> QED BY <1>2, <2>1, <2>2, Numbers, NumbersPrimed DEF TimeInv
<1>3. ASSUME NEW c \in Checkouts, checkout'[c].pc = "upsert"
      PROVE  ~ActivePremium(checkout'[c].row)
  BY <1>3 DEF TimeInv
<1> QED BY <1>1, <1>2, <1>3 DEF TimeInv, ActivePremium

(* No step moves an invoice that a request acts for to another account.    *)
LEMMA AccountsKept ==
  ASSUME TypeInv, [Next]_vars, NEW i, Recorded(i)
  PROVE  AccountOf(i)' = AccountOf(i)
<1> USE DEF TypeInv, AccountOf, Recorded
<1>1. ASSUME NEW c \in Checkouts, CreateInvoice(c) PROVE AccountOf(i)' = AccountOf(i)
  BY <1>1 DEF CreateInvoice, TablesOK, NoInvoice
<1>2. ASSUME NEW c \in Checkouts, RecordPayment(c) PROVE AccountOf(i)' = AccountOf(i)
  BY <1>2 DEF RecordPayment, TablesOK, InvoiceRecords
<1>3. ASSUME NEW j \in Invoices, Pay(j) \/ Confirm(j)
      PROVE  AccountOf(i)' = AccountOf(i)
  BY <1>3 DEF Pay, Confirm, TablesOK, InvoiceRecords
<1>4. ASSUME NEW h \in Hooks, CompletePayment(h) PROVE AccountOf(i)' = AccountOf(i)
  BY <1>4 DEF CompletePayment, TablesOK, InvoiceRecords
<1>5. ASSUME NEW c \in Checkouts,
             (\E a \in Accounts : BeginCheckout(c, a)) \/ UpsertRow(c)
               \/ CheckoutFails(c)
      PROVE  invoice' = invoice
  BY <1>5 DEF BeginCheckout, UpsertRow, CheckoutFails, rows
<1>6. ASSUME NEW h \in Hooks,
             Deliver(h) \/ ReadSubscription(h) \/ Activate(h)
               \/ PublishRenewed(h) \/ SettleFails(h)
      PROVE  invoice' = invoice
  BY <1>6 DEF Deliver, BeginSettle, AnswerRepeated, ReadSubscription, Activate,
     PublishRenewed, SettleFails, rows
<1>7. CASE (\E a \in Accounts : Cancel(a)) \/ Sweep \/ Tick \/ Crash
             \/ (\E v \in Viewers, a \in Accounts : View(v, a)) \/ UNCHANGED vars
  BY <1>7 DEF Cancel, Sweep, Tick, Crash, View, vars, rows
<1>8. ASSUME NEW e \in Expirers, ExpireStep(e) PROVE invoice' = invoice
  BY <1>8 DEF ExpireStep, InsertFree, Expire, PublishExpired, ExpireFails, rows
<1> QED
  BY <1>1, <1>2, <1>3, <1>4, <1>5, <1>6, <1>7, <1>8
  DEF Next, CheckoutStep, SettleStep

LEMMA TimeStep == TypeInv /\ TypeInv' /\ TimeInv /\ [Next]_vars => TimeInv'
<1> SUFFICES ASSUME TypeInv, TypeInv', TimeInv, [Next]_vars PROVE TimeInv'
  OBVIOUS
<1>2. ASSUME NEW h \in Hooks, hook[h].pc # "idle", hook'[h] = hook[h]
      PROVE  AccountOf(hook[h].invoice)' = AccountOf(hook[h].invoice)
  <2>1. Recorded(hook[h].invoice) BY <1>2 DEF TypeInv, HookFits
  <2>2. \A i : Recorded(i) => AccountOf(i)' = AccountOf(i) BY AccountsKept
  <2> QED BY <1>2, <2>1, <2>2 DEF AccountOf
<1>3. ASSUME UNCHANGED granted, now' >= now,
             \A a \in Accounts :
               \/ sub'[a] = sub[a] \/ ~ActivePremium(sub'[a])
               \/ ActivePremium(sub[a]) /\ sub'[a].end = sub[a].end,
             \A c \in Checkouts :
               checkout'[c] = checkout[c] \/ checkout'[c].pc # "upsert"
                 \/ ~ActivePremium(checkout'[c].row),
             \A h \in Hooks : hook'[h].pc # "update" \/ hook'[h] = hook[h]
      PROVE  TimeInv'
  BY <1>2, <1>3, UngrantedKeeps
<1>4. now \in Nat BY Numbers
<1>5. ASSUME NEW c \in Checkouts, NEW a \in Accounts, BeginCheckout(c, a)
      PROVE  TimeInv'
  <2>1. ~ActivePremium(CheckoutRow(sub[a]))
    BY DEF CheckoutRow, ActivePremium, Row
  <2>2. \A d \in Checkouts : checkout'[d] = checkout[d]
                             \/ ~ActivePremium(checkout'[d].row)
    BY <1>5, <2>1 DEF BeginCheckout, IdleCheckout
  <2> QED BY <1>3, <1>4, <1>5, <2>2 DEF BeginCheckout, rows, history, ledger
<1>6. ASSUME NEW c \in Checkouts, CheckoutStep(c) PROVE TimeInv'
  <2>1. /\ UNCHANGED <<granted, now, hook>>
        /\ \A d \in Checkouts : d # c => checkout'[d] = checkout[d]
        /\ checkout'[c].pc # "upsert"
    <3>1. CASE UpsertRow(c) \/ RecordPayment(c)
      BY <3>1 DEF UpsertRow, RecordPayment, IdleCheckout, history, ledger, TypeInv,
         CheckoutRecords
    <3>2. CASE CreateInvoice(c)
      BY <3>2 DEF CreateInvoice, history, ledger, TypeInv, CheckoutRecords
    <3>3. CASE CheckoutFails(c)
      BY <3>3 DEF CheckoutFails, IdleCheckout, history, ledger, TypeInv
    <3> QED BY <1>6, <3>1, <3>2, <3>3 DEF CheckoutStep
  <2>2. \A a \in Accounts : sub'[a] = sub[a] \/ ~ActivePremium(sub'[a])
    <3>1. CASE UpsertRow(c)
      BY <3>1 DEF UpsertRow, TimeInv, TypeInv, TablesOK
    <3>2. CASE sub' = sub BY <3>2
    <3> QED
      BY <1>6, <3>1, <3>2 DEF CheckoutStep, CreateInvoice, RecordPayment,
                              CheckoutFails, rows
  <2> QED BY <1>3, <1>4, <2>1, <2>2
<1>7. ASSUME NEW h \in Hooks, ReadSubscription(h) PROVE TimeInv'
  <2> DEFINE a == AccountOf(hook[h].invoice)
  <2>1. a \in Accounts BY <1>7, HookAccounts DEF ReadSubscription
  <2>2. PeriodStart(sub[a]) <= now + granted[a]
        /\ PeriodStart(sub[a]) \in Nat
    BY <2>1, Numbers DEF PeriodStart, TimeInv, PaidFor
  <2>3. hook'[h].end = PeriodStart(sub[a]) + Period
        /\ hook'[h].invoice = hook[h].invoice
        /\ \A g \in Hooks : g # h => hook'[g] = hook[g]
    BY <1>7 DEF ReadSubscription, TypeInv, HookRecords
  <2>4. UNCHANGED <<now, granted, sub, invoice, checkout>>
    BY <1>7 DEF ReadSubscription, rows, history, ledger
  <2>5. hook'[h].end <= now + granted[a] + Period
    BY <2>1, <2>2, <2>3, Numbers
  <2>6. ASSUME NEW g \in Hooks, hook'[g].pc = "update"
        PROVE  hook'[g].end
                 <= now' + granted'[AccountOf(hook[g].invoice)'] + Period
    <3>1. CASE g = h
      BY <2>3, <2>4, <2>5, <3>1 DEF AccountOf
    <3>2. CASE g # h
      BY <2>3, <2>4, <2>6, <3>2 DEF AccountOf, TimeInv
    <3> QED BY <3>1, <3>2
  <2> QED BY <2>4, <2>6 DEF TimeInv, PaidFor, ActivePremium
<1>8. ASSUME NEW h \in Hooks, Activate(h) PROVE TimeInv'
  <2> DEFINE a == AccountOf(hook[h].invoice)
  <2>1. a \in Accounts BY <1>8, HookAccounts DEF Activate
  <2>2. hook[h].end <= now + granted[a] + Period
    BY <1>8 DEF Activate, TimeInv
  <2>3. /\ granted' = [granted EXCEPT ![a] = @ + Period]
        /\ sub' = [sub EXCEPT ![a] =
                     Row("premium", "active", hook[h].end, FALSE)]
        /\ UNCHANGED <<now, invoice, checkout>>
        /\ hook'[h].pc = "complete"
        /\ \A g \in Hooks : g # h => hook'[g] = hook[g]
    BY <1>8 DEF Activate, TypeInv, HookRecords
  <2>4. granted'[a] = granted[a] + Period
        /\ \A b \in Accounts : granted[b] <= granted'[b] /\ granted'[b] \in Nat
    BY <2>1, <2>3, Numbers DEF TypeInv, TablesOK
  <2>5. ASSUME NEW b \in Accounts PROVE PaidFor(sub[b], b)'
    <3>1. CASE b = a
      <4>1. sub'[a].end = hook[h].end
        BY <2>1, <2>3 DEF TypeInv, TablesOK, Row
      <4>2. granted'[a] > 0 /\ hook[h].end <= now + granted'[a]
        BY <2>1, <2>2, <2>4, Numbers
      <4> QED BY <2>3, <3>1, <4>1, <4>2 DEF PaidFor
    <3>2. CASE b # a
      <4>1. sub'[b] = sub[b] BY <2>3, <3>2 DEF TypeInv, TablesOK
      <4>2. PaidFor(sub[b], b) BY DEF TimeInv
      <4>3. /\ granted[b] > 0 => granted'[b] > 0
            /\ sub[b].end <= now + granted[b] => sub[b].end <= now + granted'[b]
        BY <2>4, Numbers
      <4> QED BY <2>3, <4>1, <4>2, <4>3 DEF PaidFor, ActivePremium
    <3> QED BY <3>1, <3>2
  <2>6. ASSUME NEW g \in Hooks, hook'[g].pc = "update"
        PROVE  hook'[g].end
                 <= now' + granted'[AccountOf(hook[g].invoice)'] + Period
    <3>1. hook'[g] = hook[g] /\ AccountOf(hook[g].invoice) \in Accounts
      BY <2>3, <2>6, HookAccounts
    <3>2. AccountOf(hook[g].invoice)' = AccountOf(hook[g].invoice)
      BY <2>3, <3>1 DEF AccountOf
    <3>3. hook[g].end <= now + granted[AccountOf(hook[g].invoice)] + Period
      BY <2>6, <3>1 DEF TimeInv
    <3> QED BY <2>3, <2>4, <3>1, <3>2, <3>3, Numbers
  <2> QED BY <2>3, <2>5, <2>6 DEF TimeInv, ActivePremium
<1>9. ASSUME NEW h \in Hooks,
             Deliver(h) \/ CompletePayment(h) \/ PublishRenewed(h)
               \/ SettleFails(h)
      PROVE  TimeInv'
  <2>1. UNCHANGED <<now, granted, sub, checkout>>
    BY <1>9 DEF Deliver, BeginSettle, AnswerRepeated, CompletePayment,
       PublishRenewed, SettleFails, rows, procs, history, ledger
  <2>2. \A g \in Hooks : hook'[g].pc # "update" \/ hook'[g] = hook[g]
    <3>1. CASE Deliver(h)
      BY <3>1 DEF Deliver, BeginSettle, AnswerRepeated, IdleHook, procs, TypeInv
    <3>2. CASE CompletePayment(h)
      BY <3>2 DEF CompletePayment, TypeInv, HookRecords
    <3>3. CASE PublishRenewed(h) \/ SettleFails(h)
      BY <3>3 DEF PublishRenewed, SettleFails, IdleHook, TypeInv
    <3> QED BY <1>9, <3>1, <3>2, <3>3
  <2> QED BY <1>3, <1>4, <2>1, <2>2
<1>10. ASSUME NEW a \in Accounts, Cancel(a) PROVE TimeInv'
  <2>1. \A b \in Accounts :
          \/ sub'[b] = sub[b]
          \/ ~ActivePremium(sub'[b])
          \/ ActivePremium(sub[b]) /\ sub'[b].end = sub[b].end
    BY <1>10 DEF Cancel, TypeInv, TablesOK, SubRows, ActivePremium
  <2>2. UNCHANGED <<now, granted, checkout, hook>>
    BY <1>10 DEF Cancel, procs, history, ledger
  <2> QED BY <1>3, <1>4, <2>1, <2>2
<1>11. ASSUME NEW e \in Expirers, ExpireStep(e) PROVE TimeInv'
  <2>1. \A b \in Accounts : sub'[b] = sub[b] \/ ~ActivePremium(sub'[b])
    BY <1>11 DEF ExpireStep, InsertFree, Expire, PublishExpired, ExpireFails,
       rows, TypeInv, TablesOK, FreeRow, Row, ActivePremium
  <2>2. UNCHANGED <<now, granted, checkout, hook>>
    BY <1>11 DEF ExpireStep, InsertFree, Expire, PublishExpired, ExpireFails,
       history, ledger
  <2> QED BY <1>3, <1>4, <2>1, <2>2
<1>12. CASE Sweep \/ (\E v \in Viewers, a \in Accounts : View(v, a))
              \/ UNCHANGED vars \/ (\E i \in Invoices : Pay(i) \/ Confirm(i))
  <2>1. UNCHANGED <<now, granted, sub, checkout, hook>>
    BY <1>12 DEF Sweep, View, Pay, Confirm, vars, rows, procs, history, ledger
  <2> QED BY <1>3, <1>4, <2>1
<1>13. CASE Tick
  BY <1>3, <1>4, <1>13 DEF Tick, rows, procs, history, ledger
<1>14. CASE Crash
  <2>1. \A c \in Checkouts : checkout'[c].pc # "upsert"
    BY <1>14 DEF Crash, IdleCheckout
  <2>2. \A h \in Hooks : hook'[h].pc # "update"
    BY <1>14 DEF Crash, IdleHook
  <2> QED BY <1>3, <1>4, <1>14, <2>1, <2>2 DEF Crash, rows, history, ledger
<1> QED
  BY <1>5, <1>6, <1>7, <1>8, <1>9, <1>10, <1>11, <1>12, <1>13, <1>14
  DEF Next, SettleStep

(* A premium period reaches no further than what settlements granted the   *)
(* account, whatever stale rows checkouts, sweeps and repeated or failing  *)
(* webhooks write over each other.                                         *)
THEOREM PremiumIsPaidFor == Spec => []TimeIsPaidFor
<1>1. Init => TimeInv
  BY DEF Init, TimeInv, PaidFor, ActivePremium, NoRow, Row, IdleCheckout, IdleHook
<1>2. TimeInv => TimeIsPaidFor
  BY DEF TimeInv, PaidFor, TimeIsPaidFor
<1>3. TypeInv /\ TypeInv' /\ TimeInv /\ [Next]_vars => TimeInv'
  BY TimeStep
<1> QED BY <1>1, <1>2, <1>3, AlwaysTypeInv, PTL DEF Spec

-----------------------------------------------------------------------------
(* What was paid is kept.  An operation that has read a row of an account  *)
(* that did not race finds it unchanged when it writes; what that write    *)
(* will leave of the paid time is part of the invariant.                   *)

Holds(e, a) == a \in expirer[e].todo /\ expirer[e].at # a
Redone(a) == \E i \in redone : AccountOf(i) = a

StartOf(h) == LET a == AccountOf(hook[h].invoice)
              IN IF paidUntil[a] > hook[h].at THEN paidUntil[a] ELSE hook[h].at

Kept(a) ==
  /\ paidUntil[a] > now => ActivePremium(sub[a]) /\ sub[a].end >= paidUntil[a]
  /\ (~Redone(a) /\ ActivePremium(sub[a])) => sub[a].end = paidUntil[a]

WillKeep(h) ==
  /\ hook[h].end >= StartOf(h) + Period
  /\ ~Redone(AccountOf(hook[h].invoice)) => hook[h].end = StartOf(h) + Period

WillGiveUpNothing(c) ==
  LET a == checkout[c].account IN paidUntil[a] <= now \/ sub[a].cancel

PeriodInv ==
  /\ \A a \in Accounts \ raced : Kept(a)
  /\ \A c \in Checkouts :
       checkout[c].pc = "upsert" /\ checkout[c].account \notin raced =>
         WillGiveUpNothing(c)
  /\ \A e \in Expirers : expirer[e].pc # "publish" => expirer[e].at = None
  /\ \A e \in Expirers, a \in Accounts \ raced : Holds(e, a) => paidUntil[a] <= now
  /\ \A h \in Hooks :
       hook[h].pc = "update" /\ AccountOf(hook[h].invoice) \notin raced => WillKeep(h)

LEMMA PeriodNumbers ==
  ASSUME TypeInv
  PROVE  /\ now \in Nat /\ Period \in Nat \ {0}
         /\ \A a \in Accounts : paidUntil[a] \in Nat /\ sub[a].end \in Nat
         /\ \A h \in Hooks : hook[h].at \in Nat /\ hook[h].end \in Nat
BY TimeAssumption DEF TypeInv, TablesOK, SubRows, HookRecords

(* The histories only grow, and an invoice keeps its account.              *)
LEMMA HistoriesGrow ==
  ASSUME [Next]_vars
  PROVE  raced \subseteq raced' /\ redone \subseteq redone'
<1>1. ASSUME NEW c \in Checkouts,
             (\E a \in Accounts : BeginCheckout(c, a)) \/ CheckoutStep(c)
      PROVE  raced \subseteq raced' /\ redone \subseteq redone'
  BY <1>1 DEF BeginCheckout, CheckoutStep, UpsertRow, CreateInvoice,
     RecordPayment, CheckoutFails, history
<1>2. ASSUME NEW h \in Hooks, Deliver(h) \/ SettleStep(h)
      PROVE  raced \subseteq raced' /\ redone \subseteq redone'
  BY <1>2 DEF Deliver, BeginSettle, AnswerRepeated, SettleStep, ReadSubscription,
     Activate, Races, CompletePayment, PublishRenewed, SettleFails, history
<1>3. ASSUME NEW e \in Expirers, ExpireStep(e)
      PROVE  raced \subseteq raced' /\ redone \subseteq redone'
  BY <1>3 DEF ExpireStep, InsertFree, Expire, Races, PublishExpired, ExpireFails,
     history
<1>4. CASE \/ \E i \in Invoices : Pay(i) \/ Confirm(i)
           \/ \E a \in Accounts : Cancel(a)
           \/ Sweep \/ Tick \/ Crash \/ UNCHANGED vars
           \/ \E v \in Viewers, a \in Accounts : View(v, a)
  BY <1>4 DEF Pay, Confirm, Cancel, Sweep, Tick, Crash, View, vars, history
<1> QED BY <1>1, <1>2, <1>3, <1>4 DEF Next

LEMMA RedoneStays ==
  ASSUME TypeInv, [Next]_vars, NEW a, Redone(a)
  PROVE  Redone(a)'
<1>1. PICK i \in redone : AccountOf(i) = a BY DEF Redone
<1>2. Recorded(i) BY <1>1 DEF TypeInv, TablesOK
<1>3. AccountOf(i)' = AccountOf(i) BY <1>2, AccountsKept
<1>4. i \in redone' BY <1>1, HistoriesGrow
<1> QED BY <1>1, <1>3, <1>4 DEF Redone

(* Steps other than the extension itself: a row is overwritten only where  *)
(* its time is used up.                                                    *)
LEMMA PeriodsKept ==
  ASSUME TypeInv, TypeInv', PeriodInv, [Next]_vars,
         UNCHANGED paidUntil, now' >= now,
         \A a \in Accounts \ raced' :
           \/ paidUntil[a] <= now /\ ~ActivePremium(sub'[a])
           \/ /\ ActivePremium(sub'[a]) <=> ActivePremium(sub[a])
              /\ sub'[a].end = sub[a].end
              /\ sub[a].cancel => sub'[a].cancel,
         \A c \in Checkouts :
           \/ checkout'[c].pc # "upsert" \/ checkout'[c] = checkout[c]
           \/ checkout'[c].account \notin raced' => WillGiveUpNothing(c)',
         \A e \in Expirers :
           expirer'[e].pc = "publish" \/ expirer'[e].at = None
             \/ expirer'[e] = expirer[e],
         \A e \in Expirers, a \in Accounts \ raced' :
           Holds(e, a)' => Holds(e, a) \/ paidUntil[a] <= now,
         \A h \in Hooks : hook'[h].pc # "update" \/ hook'[h] = hook[h]
  PROVE  PeriodInv'
<1> USE PeriodNumbers
<1>0. now' \in Nat /\ raced \subseteq raced'
  BY TimeAssumption, HistoriesGrow DEF TypeInv, TablesOK
<1>1. ASSUME NEW a \in Accounts \ raced' PROVE Kept(a)'
  <2>1. Kept(a) /\ a \in Accounts \ raced BY <1>0 DEF PeriodInv
  <2>2. Redone(a) => Redone(a)' BY RedoneStays
  <2>3. CASE paidUntil[a] <= now /\ ~ActivePremium(sub'[a])
    BY <1>0, <2>1, <2>3 DEF Kept
  <2>4. CASE /\ ActivePremium(sub'[a]) <=> ActivePremium(sub[a])
             /\ sub'[a].end = sub[a].end
    BY <1>0, <2>1, <2>2, <2>4 DEF Kept
  <2> QED BY <2>3, <2>4
<1>2. ASSUME NEW c \in Checkouts, checkout'[c].pc = "upsert",
             checkout'[c].account \notin raced'
      PROVE  WillGiveUpNothing(c)'
  <2>1. CASE checkout'[c] = checkout[c]
    <3> DEFINE a == checkout[c].account
    <3>1. a \in Accounts \ raced'
      BY <1>2, <2>1 DEF TypeInv, CheckoutFits
    <3>2. paidUntil[a] <= now \/ sub[a].cancel
      BY <1>0, <1>2, <2>1 DEF PeriodInv, WillGiveUpNothing
    <3> HIDE DEF a
    <3>3. paidUntil'[a] <= now' \/ sub'[a].cancel
      BY <1>0, <3>1, <3>2
    <3> QED BY <2>1, <3>3 DEF WillGiveUpNothing, a
  <2> QED BY <1>2, <2>1
<1>3. ASSUME NEW e \in Expirers, NEW a \in Accounts \ raced', Holds(e, a)'
      PROVE  paidUntil'[a] <= now'
  <2>1. Holds(e, a) => paidUntil[a] <= now BY <1>0 DEF PeriodInv
  <2>2. paidUntil[a] <= now BY <1>3, <2>1
  <2> QED BY <1>0, <2>2
<1>4. ASSUME NEW h \in Hooks, hook'[h].pc = "update",
             AccountOf(hook[h].invoice)' \notin raced'
      PROVE  WillKeep(h)'
  <2> DEFINE i == hook[h].invoice
  <2>1. hook'[h] = hook[h] /\ hook[h].pc = "update" BY <1>4
  <2>2. Recorded(i) BY <2>1 DEF TypeInv, HookFits
  <2>3. \A j : Recorded(j) => AccountOf(j)' = AccountOf(j) BY AccountsKept
  <2>4. AccountOf(hook[h].invoice)' = AccountOf(i)
    BY <2>1, <2>2, <2>3 DEF AccountOf
  <2>5. WillKeep(h) BY <1>0, <1>4, <2>1, <2>4 DEF PeriodInv
  <2>6. StartOf(h)' = StartOf(h) BY <2>1, <2>4 DEF StartOf
  <2>7. Redone(AccountOf(i)) => Redone(AccountOf(i))'
    <3>1. \A a : Redone(a) => Redone(a)' BY RedoneStays
    <3>2. PICK a : a = AccountOf(i) OBVIOUS
    <3>3. Redone(a) => Redone(a)' BY <3>1
    <3>4. AccountOf(hook[h].invoice)' = a BY <2>4, <3>2
    <3> QED BY <3>2, <3>3, <3>4, <2>1
  <2> QED BY <2>1, <2>4, <2>5, <2>6, <2>7 DEF WillKeep
<1>5. \A e \in Expirers : expirer'[e].pc # "publish" => expirer'[e].at = None
  BY DEF PeriodInv
<1> QED BY <1>1, <1>2, <1>3, <1>4, <1>5 DEF PeriodInv

(* The settlement's read and write.                                        *)
LEMMA ReadKeeps ==
  ASSUME TypeInv, TypeInv', PeriodInv, NEW h \in Hooks, ReadSubscription(h)
  PROVE  PeriodInv'
<1> DEFINE a == AccountOf(hook[h].invoice)
<1> USE PeriodNumbers
<1>1. a \in Accounts BY HookAccounts DEF ReadSubscription
<1>2. /\ UNCHANGED <<now, sub, invoice, checkout, expirer, paidUntil, raced, redone>>
      /\ hook'[h].at = now /\ hook'[h].end = PeriodStart(sub[a]) + Period
      /\ hook'[h].invoice = hook[h].invoice
      /\ \A g \in Hooks : g # h => hook'[g] = hook[g]
  BY DEF ReadSubscription, TypeInv, HookRecords, rows, history, ledger
<1>3. ASSUME a \notin raced PROVE WillKeep(h)'
  <2>1. Kept(a) BY <1>1, <1>3 DEF PeriodInv
  <2>2. StartOf(h)' = IF paidUntil[a] > now THEN paidUntil[a] ELSE now
    BY <1>2 DEF StartOf, AccountOf
  <2>3. /\ StartOf(h)' \in Nat /\ PeriodStart(sub[a]) \in Nat
        /\ PeriodStart(sub[a]) >= StartOf(h)'
        /\ ~Redone(a) => PeriodStart(sub[a]) = StartOf(h)'
    <3> HIDE DEF a
    <3> QED BY <1>1, <2>1, <2>2 DEF Kept, PeriodStart
  <2>4. Redone(AccountOf(hook[h].invoice))' <=> Redone(a)
    BY <1>2 DEF Redone, AccountOf
  <2> QED BY <1>2, <2>3, <2>4 DEF WillKeep
<1>4. ASSUME NEW g \in Hooks, g # h, hook'[g].pc = "update",
             AccountOf(hook[g].invoice)' \notin raced'
      PROVE  WillKeep(g)'
  <2>1. /\ hook'[g] = hook[g] /\ hook[g].pc = "update"
        /\ AccountOf(hook[g].invoice)' = AccountOf(hook[g].invoice)
    BY <1>2, <1>4 DEF AccountOf
  <2>2. WillKeep(g) BY <1>2, <1>4, <2>1 DEF PeriodInv
  <2>3. StartOf(g)' = StartOf(g) BY <1>2, <2>1 DEF StartOf
  <2>4. Redone(AccountOf(hook[g].invoice))' <=> Redone(AccountOf(hook[g].invoice))
    BY <1>2, <2>1 DEF Redone, AccountOf
  <2> QED BY <2>1, <2>2, <2>3, <2>4 DEF WillKeep
<1>5. \A b \in Accounts \ raced' : Kept(b)'
  BY <1>2 DEF PeriodInv, Kept, Redone, AccountOf, ActivePremium
<1>6. AccountOf(hook[h].invoice)' = a
  BY <1>2 DEF AccountOf
<1>7. \A c \in Checkouts :
        checkout'[c].pc = "upsert" /\ checkout'[c].account \notin raced' =>
          WillGiveUpNothing(c)'
  BY <1>2 DEF PeriodInv, WillGiveUpNothing
<1> QED BY <1>2, <1>3, <1>4, <1>5, <1>6, <1>7 DEF PeriodInv, Holds

LEMMA ActivateKeeps ==
  ASSUME TypeInv, TypeInv', PeriodInv, NEW h \in Hooks, Activate(h),
         hook[h].invoice \notin redone => credits[hook[h].invoice] = 0
  PROVE  PeriodInv'
<1> DEFINE i == hook[h].invoice
           a == AccountOf(i)
<1> USE PeriodNumbers
<1>1. i \in Invoices /\ a \in Accounts
  BY HookAccounts DEF Activate, TypeInv, HookFits, Recorded
<1>2. /\ UNCHANGED <<now, invoice, checkout, expirer, redone>>
      /\ sub' = [sub EXCEPT ![a] = Row("premium", "active", hook[h].end, FALSE)]
      /\ paidUntil' = IF credits[i] = 0
                        THEN [paidUntil EXCEPT ![a] = StartOf(h) + Period]
                        ELSE paidUntil
      /\ hook[h].pc = "update" /\ hook'[h].pc = "complete"
      /\ \A g \in Hooks : g # h => hook'[g] = hook[g]
  BY DEF Activate, TypeInv, HookRecords, StartOf
<1>3. /\ raced \subseteq raced'
      /\ a \notin raced' => ~Held(a, h)
  BY DEF Activate, Races
<1>4. \A b \in Accounts : b # a => sub'[b] = sub[b] /\ paidUntil'[b] = paidUntil[b]
  BY <1>2 DEF TypeInv, TablesOK
<1>5. \A b : Redone(b)' <=> Redone(b)
  BY <1>2 DEF Redone, AccountOf
<1>6. ASSUME NEW b \in Accounts \ raced', b = a PROVE Kept(b)'
  <2>1. WillKeep(h) BY <1>2, <1>3, <1>6 DEF PeriodInv
  <2>2. StartOf(h) = IF paidUntil[a] > hook[h].at THEN paidUntil[a] ELSE hook[h].at
    BY DEF StartOf
  <2>3. sub'[b] = Row("premium", "active", hook[h].end, FALSE)
    BY <1>2, <1>6 DEF TypeInv, TablesOK
  <2>4. ActivePremium(sub'[b]) /\ sub'[b].end = hook[h].end
    BY <2>3 DEF Row, ActivePremium
  <2>5. paidUntil'[b] = IF credits[i] = 0 THEN StartOf(h) + Period ELSE paidUntil[a]
    BY <1>2, <1>6 DEF TypeInv, TablesOK
  <2>6. ~Redone(b) => credits[i] = 0
    BY <1>6 DEF Redone
  <2>7. /\ hook[h].end >= StartOf(h) + Period
        /\ ~Redone(b) => hook[h].end = StartOf(h) + Period
    BY <1>6, <2>1 DEF WillKeep
  <2> HIDE DEF a, i
  <2>8. /\ hook[h].end >= paidUntil'[b]
        /\ ~Redone(b) => hook[h].end = paidUntil'[b]
    BY <1>1, <2>2, <2>5, <2>6, <2>7
  <2> QED BY <1>2, <1>5, <2>4, <2>8 DEF Kept
<1>7. ASSUME NEW b \in Accounts \ raced' PROVE Kept(b)'
  <2>1. CASE b = a BY <1>6, <2>1
  <2>2. CASE b # a
    BY <1>2, <1>3, <1>4, <1>5, <1>7, <2>2 DEF PeriodInv, Kept, ActivePremium
  <2> QED BY <2>1, <2>2
<1>8. ASSUME NEW c \in Checkouts, checkout'[c].pc = "upsert",
             checkout'[c].account \notin raced'
      PROVE  WillGiveUpNothing(c)'
  <2>1. checkout[c].account \in Accounts \ raced /\ checkout[c].pc = "upsert"
    BY <1>2, <1>3, <1>8 DEF TypeInv, CheckoutFits
  <2>2. c # h BY NamesAssumption
  <2>3. checkout[c].account # a
    BY <1>2, <1>3, <1>8, <2>1, <2>2 DEF Held
  <2>4. WillGiveUpNothing(c) BY <2>1 DEF PeriodInv
  <2> QED BY <1>2, <1>4, <2>1, <2>3, <2>4 DEF WillGiveUpNothing
<1>9. ASSUME NEW e \in Expirers, NEW b \in Accounts \ raced', Holds(e, b)'
      PROVE  paidUntil'[b] <= now'
  <2>1. Holds(e, b) /\ e # h BY <1>2, <1>9, NamesAssumption DEF Holds
  <2>2. b # a BY <1>3, <1>9, <2>1 DEF Held, Holds
  <2> QED BY <1>2, <1>3, <1>4, <2>1, <2>2 DEF PeriodInv
<1>10. ASSUME NEW g \in Hooks, hook'[g].pc = "update",
              AccountOf(hook[g].invoice)' \notin raced'
       PROVE  WillKeep(g)'
  <2> DEFINE b == AccountOf(hook[g].invoice)
  <2>1. g # h /\ hook'[g] = hook[g] /\ hook[g].pc = "update" BY <1>2, <1>10
  <2>2. AccountOf(hook[g].invoice)' = b BY <1>2, <2>1 DEF AccountOf
  <2>3. b \in Accounts BY <2>1, HookAccounts
  <2>4. b # a BY <1>3, <1>10, <2>1, <2>2 DEF Held
  <2>5. WillKeep(g) BY <1>3, <1>10, <2>1, <2>2 DEF PeriodInv
  <2>6. StartOf(g)' = StartOf(g) BY <1>4, <2>1, <2>2, <2>3, <2>4 DEF StartOf
  <2>7. Redone(AccountOf(hook[g].invoice))' <=> Redone(b)
    BY <1>2, <2>1 DEF Redone, AccountOf
  <2> QED BY <1>2, <2>1, <2>5, <2>6, <2>7 DEF WillKeep
<1> QED BY <1>2, <1>7, <1>8, <1>9, <1>10 DEF PeriodInv

-----------------------------------------------------------------------------
(* An invoice that no two deliveries worked on at once, and that none left *)
(* extended and not completed, extends once: whoever finds its record      *)
(* pending is the first.                                                   *)

CreditedIsKnown(i) ==
  credits[i] > 0 =>
    \/ invoice[i].record = "completed"
    \/ \E h \in Hooks : hook[h].pc = "complete" /\ hook[h].invoice = i

PairInv ==
  \A h, g \in Hooks :
    (/\ h # g /\ hook[h].pc # "idle" /\ hook[g].pc # "idle"
     /\ hook[h].invoice = hook[g].invoice) => hook[h].invoice \in redone

OnceInv ==
  /\ \A c \in Checkouts : checkout[c].pc = "record" =>
       invoice[checkout[c].invoice].record = "none"
  /\ \A c, d \in Checkouts :
       (checkout[c].pc = "record" /\ checkout[d].pc = "record" /\ c # d) =>
          checkout[c].invoice # checkout[d].invoice
  /\ \A i \in Invoices \ redone : CreditedIsKnown(i)
  /\ \A h \in Hooks :
       (hook[h].pc \in {"read", "update"} /\ hook[h].invoice \notin redone) =>
          credits[hook[h].invoice] = 0

(* Deliveries that go on or end.                                           *)
LEMMA PairKept ==
  ASSUME PairInv, redone \subseteq redone',
         \A h \in Hooks : hook'[h].pc # "idle" =>
           hook[h].pc # "idle" /\ hook'[h].invoice = hook[h].invoice
  PROVE  PairInv'
<1> SUFFICES ASSUME NEW h \in Hooks, NEW g \in Hooks, h # g,
                    hook'[h].pc # "idle", hook'[g].pc # "idle",
                    hook'[h].invoice = hook'[g].invoice
             PROVE  hook'[h].invoice \in redone'
  BY DEF PairInv
<1> QED BY DEF PairInv

LEMMA PairStep ==
  ASSUME TypeInv, PairInv, [Next]_vars
  PROVE  PairInv'
<1> USE DEF TypeInv
<1>0. redone \subseteq redone' BY HistoriesGrow
<1>1. ASSUME NEW h \in Hooks, NEW i \in Invoices, NEW kind \in Kinds,
             BeginSettle(h, i, kind)
      PROVE  PairInv'
  <2>1. hook'[h].invoice = i /\ \A g \in Hooks : g # h => hook'[g] = hook[g]
    BY <1>1 DEF BeginSettle, IdleHook
  <2>2. \A g \in Hooks : hook[g].pc # "idle" /\ hook[g].invoice = i => i \in redone'
    BY <1>1 DEF BeginSettle
  <2> SUFFICES ASSUME NEW f \in Hooks, NEW g \in Hooks, f # g,
                      hook'[f].pc # "idle", hook'[g].pc # "idle",
                      hook'[f].invoice = hook'[g].invoice
               PROVE  hook'[f].invoice \in redone'
    BY DEF PairInv
  <2>3. CASE f = h BY <2>1, <2>2, <2>3
  <2>4. CASE g = h BY <2>1, <2>2, <2>4
  <2>5. CASE f # h /\ g # h BY <1>0, <2>1, <2>5 DEF PairInv
  <2> QED BY <2>3, <2>4, <2>5
<1>2. ASSUME NEW h \in Hooks, SettleStep(h) PROVE PairInv'
  <2>1. \A g \in Hooks : hook'[g].pc # "idle" =>
          hook[g].pc # "idle" /\ hook'[g].invoice = hook[g].invoice
    <3>1. CASE ReadSubscription(h) BY <3>1 DEF ReadSubscription, HookRecords
    <3>2. CASE Activate(h) BY <3>2 DEF Activate, HookRecords
    <3>3. CASE CompletePayment(h) BY <3>3 DEF CompletePayment, Extended, HookRecords
    <3>4. CASE PublishRenewed(h) BY <3>4 DEF PublishRenewed, IdleHook
    <3>5. CASE SettleFails(h) BY <3>5 DEF SettleFails, IdleHook
    <3> QED BY <1>2, <3>1, <3>2, <3>3, <3>4, <3>5 DEF SettleStep
  <2> QED BY <1>0, <2>1, PairKept
<1>3. CASE Crash
  <2>1. \A g \in Hooks : hook'[g].pc = "idle" BY <1>3 DEF Crash, IdleHook
  <2> QED BY <1>0, <2>1, PairKept
<1>4. CASE hook' = hook BY <1>0, <1>4, PairKept
<1>5. ASSUME NEW c \in Checkouts,
             (\E a \in Accounts : BeginCheckout(c, a)) \/ CheckoutStep(c)
      PROVE  hook' = hook
  BY <1>5 DEF BeginCheckout, CheckoutStep, UpsertRow, CreateInvoice,
     RecordPayment, CheckoutFails
<1>6. ASSUME NEW e \in Expirers, ExpireStep(e) PROVE hook' = hook
  BY <1>6 DEF ExpireStep, InsertFree, Expire, PublishExpired, ExpireFails
<1>7. ASSUME \/ \E i \in Invoices : Pay(i) \/ Confirm(i)
             \/ \E a \in Accounts : Cancel(a)
             \/ Sweep \/ Tick \/ UNCHANGED vars
             \/ \E v \in Viewers, a \in Accounts : View(v, a)
             \/ \E h \in Hooks, i \in Invoices, kind \in Kinds :
                  AnswerRepeated(h, i, kind)
      PROVE  hook' = hook
  BY <1>7 DEF Pay, Confirm, Cancel, Sweep, Tick, View, AnswerRepeated, vars, procs
<1> QED
  BY <1>1, <1>2, <1>3, <1>4, <1>5, <1>6, <1>7 DEF Next, Deliver, Kinds

(* Steps that settle nothing.                                              *)
LEMMA OnceKept ==
  ASSUME TypeInv, TypeInv', OnceInv, UNCHANGED <<credits, invoice>>,
         redone \subseteq redone',
         \A c \in Checkouts : checkout'[c].pc # "record" \/ checkout'[c] = checkout[c],
         \A h \in Hooks :
           \/ hook'[h].pc \notin {"read", "update"}
           \/ hook'[h] = hook[h]
           \/ hook'[h].invoice \notin redone' => credits[hook'[h].invoice] = 0,
         \A h \in Hooks :
           hook[h].pc = "complete" /\ hook[h].invoice \notin redone' =>
             hook'[h] = hook[h]
  PROVE  OnceInv'
<1>1. ASSUME NEW i \in Invoices \ redone' PROVE CreditedIsKnown(i)'
  <2>1. CreditedIsKnown(i) BY DEF OnceInv
  <2> QED BY <2>1 DEF CreditedIsKnown
<1>2. ASSUME NEW h \in Hooks, hook'[h].pc \in {"read", "update"},
             hook'[h].invoice \notin redone'
      PROVE  credits'[hook'[h].invoice] = 0
  BY <1>2 DEF OnceInv
<1> QED BY <1>1, <1>2 DEF OnceInv

LEMMA OnceCheckout ==
  ASSUME TypeInv, TypeInv', OnceInv, NEW c \in Checkouts, CheckoutStep(c)
  PROVE  OnceInv'
<1> USE DEF TypeInv
<1>1. CASE UpsertRow(c)
  <2>1. \A d \in Checkouts : checkout'[d].pc # "record" \/ checkout'[d] = checkout[d]
    BY <1>1 DEF UpsertRow, CheckoutRecords
  <2> QED BY <1>1, <2>1, OnceKept DEF UpsertRow, ledger
<1>2. CASE CreateInvoice(c)
  <2>1. PICK i \in Invoices :
          /\ invoice[i] = NoInvoice
          /\ invoice' = [invoice EXCEPT ![i].account = checkout[c].account,
                                        ![i].provider = "issued"]
          /\ checkout' = [checkout EXCEPT ![c].pc = "record", ![c].invoice = i]
    BY <1>2 DEF CreateInvoice
  <2>2. /\ \A j \in Invoices : invoice'[j].record = invoice[j].record
        /\ invoice[i].record = "none"
    BY <2>1 DEF TablesOK, InvoiceRecords, NoInvoice
  <2>3. /\ checkout'[c].invoice = i
        /\ \A d \in Checkouts : d # c => checkout'[d] = checkout[d]
    BY <2>1 DEF CheckoutRecords
  <2>4. \A d \in Checkouts : d # c /\ checkout[d].pc = "record" =>
          checkout[d].invoice \in Invoices /\ checkout[d].invoice # i
    BY <2>1 DEF CheckoutFits
  <2>5. UNCHANGED <<hook, credits, redone>>
    BY <1>2 DEF CreateInvoice, history, ledger
  <2>6. \A j \in Invoices : CreditedIsKnown(j) => CreditedIsKnown(j)'
    BY <2>2, <2>5 DEF CreditedIsKnown
  <2>7. /\ \A d \in Checkouts : checkout'[d].pc = "record" =>
             invoice'[checkout'[d].invoice].record = "none"
        /\ \A d, e \in Checkouts :
             (checkout'[d].pc = "record" /\ checkout'[e].pc = "record" /\ d # e) =>
                checkout'[d].invoice # checkout'[e].invoice
    <3>1. ASSUME NEW d \in Checkouts, checkout'[d].pc = "record"
          PROVE  /\ d = c => checkout'[d].invoice = i
                 /\ d # c => /\ checkout[d].pc = "record"
                             /\ checkout'[d].invoice = checkout[d].invoice
                             /\ checkout[d].invoice \in Invoices \ {i}
      BY <2>3, <2>4, <3>1
    <3>2. ASSUME NEW d \in Checkouts, checkout'[d].pc = "record"
          PROVE  invoice'[checkout'[d].invoice].record = "none"
      BY <2>1, <2>2, <3>1, <3>2 DEF OnceInv
    <3>3. ASSUME NEW d \in Checkouts, NEW e \in Checkouts, d # e,
                 checkout'[d].pc = "record", checkout'[e].pc = "record"
          PROVE  checkout'[d].invoice # checkout'[e].invoice
      BY <3>1, <3>3 DEF OnceInv
    <3> QED BY <3>2, <3>3
  <2> QED BY <2>5, <2>6, <2>7 DEF OnceInv
<1>3. CASE RecordPayment(c)
  <2> DEFINE i == checkout[c].invoice
  <2>1. i \in Invoices /\ invoice[i].record = "none" /\ checkout[c].pc = "record"
    BY <1>3 DEF RecordPayment, CheckoutFits, OnceInv
  <2>2. /\ checkout' = [checkout EXCEPT ![c] = IdleCheckout]
        /\ invoice' = [invoice EXCEPT ![i].record = "pending"]
        /\ UNCHANGED <<hook, credits, redone>>
    BY <1>3 DEF RecordPayment, history, ledger
  <2>3. \A j \in Invoices : j # i => invoice'[j] = invoice[j]
    BY <2>2 DEF TablesOK
  <2>4. /\ checkout'[c].pc = "idle"
        /\ \A d \in Checkouts : d # c => checkout'[d] = checkout[d]
    BY <2>2 DEF IdleCheckout
  <2>5. \A d \in Checkouts : d # c /\ checkout[d].pc = "record" =>
          checkout[d].invoice \in Invoices /\ checkout[d].invoice # i
    BY <2>1 DEF CheckoutFits, OnceInv
  <2>6. \A h \in Hooks : hook[h].pc = "complete" => hook[h].invoice # i
    BY <2>1 DEF HookFits, Recorded
  <2>7. ASSUME NEW j \in Invoices, CreditedIsKnown(j) PROVE CreditedIsKnown(j)'
    <3>1. CASE j = i BY <2>1, <2>2, <2>6, <2>7, <3>1 DEF CreditedIsKnown
    <3>2. CASE j # i BY <2>2, <2>3, <2>7, <3>2 DEF CreditedIsKnown
    <3> QED BY <3>1, <3>2
  <2>8. /\ \A d \in Checkouts : checkout'[d].pc = "record" =>
             invoice'[checkout'[d].invoice].record = "none"
        /\ \A d, e \in Checkouts :
             (checkout'[d].pc = "record" /\ checkout'[e].pc = "record" /\ d # e) =>
                checkout'[d].invoice # checkout'[e].invoice
    BY <2>3, <2>4, <2>5 DEF OnceInv
  <2> QED BY <2>2, <2>7, <2>8 DEF OnceInv
<1>4. CASE CheckoutFails(c)
  BY <1>4, OnceKept DEF CheckoutFails, IdleCheckout, rows, history, ledger
<1> QED BY <1>1, <1>2, <1>3, <1>4 DEF CheckoutStep

LEMMA OnceSettle ==
  ASSUME TypeInv, TypeInv', PairInv, OnceInv, NEW h \in Hooks,
         Deliver(h) \/ SettleStep(h)
  PROVE  OnceInv'
<1> USE DEF TypeInv
<1>1. ASSUME NEW i \in Invoices, NEW kind \in Kinds, BeginSettle(h, i, kind)
      PROVE  OnceInv'
  <2>1. hook[h].pc = "idle" /\ UNCHANGED <<credits, invoice, checkout>>
    BY <1>1 DEF BeginSettle, rows, ledger
  <2>2. /\ redone \subseteq redone'
        /\ \A g \in Hooks : hook[g].pc = "complete" /\ hook[g].invoice = i =>
             i \in redone'
    BY <1>1 DEF BeginSettle
  <2>3. i \notin redone' => credits[i] = 0
    BY <1>1, <2>2 DEF OnceInv, CreditedIsKnown, BeginSettle, Settleable, TablesOK
  <2>4. hook'[h].invoice = i /\ \A g \in Hooks : g # h => hook'[g] = hook[g]
    BY <1>1 DEF BeginSettle, IdleHook
  <2> QED BY <2>1, <2>2, <2>3, <2>4, OnceKept
<1>2. ASSUME NEW i \in Invoices, NEW kind \in Kinds, AnswerRepeated(h, i, kind)
      PROVE  OnceInv'
  BY <1>2, OnceKept DEF AnswerRepeated, rows, procs, history, ledger
<1>3. CASE ReadSubscription(h)
  <2>1. /\ hook'[h].invoice = hook[h].invoice /\ hook[h].pc = "read"
        /\ \A g \in Hooks : g # h => hook'[g] = hook[g]
    BY <1>3 DEF ReadSubscription, HookRecords
  <2>2. UNCHANGED <<credits, invoice, redone, checkout>>
    BY <1>3 DEF ReadSubscription, rows, history, ledger
  <2>3. hook[h].invoice \notin redone => credits[hook[h].invoice] = 0
    BY <2>1 DEF OnceInv
  <2> QED BY <2>1, <2>2, <2>3, OnceKept
<1>4. CASE Activate(h)
  <2> DEFINE i == hook[h].invoice
  <2>1. /\ hook[h].pc = "update" /\ hook'[h].pc = "complete" /\ hook'[h].invoice = i
        /\ \A g \in Hooks : g # h => hook'[g] = hook[g]
        /\ UNCHANGED <<invoice, redone, checkout>>
        /\ \A j \in Invoices : j # i => credits'[j] = credits[j]
    BY <1>4 DEF Activate, HookRecords, TablesOK
  <2>2. ASSUME NEW g \in Hooks, g # h, hook[g].pc # "idle",
               hook[g].invoice \notin redone
        PROVE  hook[g].invoice \in Invoices /\ hook[g].invoice # i
    BY <2>1, <2>2 DEF PairInv, HookFits, Recorded
  <2>3. ASSUME NEW j \in Invoices, CreditedIsKnown(j) PROVE CreditedIsKnown(j)'
    <3>1. CASE j = i BY <2>1, <3>1 DEF CreditedIsKnown
    <3>2. CASE j # i BY <2>1, <2>3, <3>2 DEF CreditedIsKnown
    <3> QED BY <3>1, <3>2
  <2>4. ASSUME NEW g \in Hooks, hook'[g].pc \in {"read", "update"},
               hook'[g].invoice \notin redone'
        PROVE  credits'[hook'[g].invoice] = 0
    <3>1. g # h /\ hook'[g] = hook[g] BY <2>1, <2>4
    <3>2. hook[g].invoice \in Invoices /\ hook[g].invoice # i
      BY <2>1, <2>2, <2>4, <3>1
    <3>3. credits[hook[g].invoice] = 0 BY <2>1, <2>4, <3>1 DEF OnceInv
    <3> QED BY <2>1, <3>1, <3>2, <3>3
  <2> QED BY <2>1, <2>3, <2>4 DEF OnceInv
<1>5. CASE CompletePayment(h)
  <2> DEFINE i == hook[h].invoice
  <2>1. Recorded(i) /\ hook[h].pc = "complete"
    BY <1>5 DEF CompletePayment, Extended, HookFits
  <2>2. /\ hook'[h].pc = "publish"
        /\ \A g \in Hooks : g # h => hook'[g] = hook[g]
        /\ UNCHANGED <<credits, redone, checkout>>
    BY <1>5 DEF CompletePayment, HookRecords, history, ledger
  <2>3. /\ invoice'[i].record = "completed"
        /\ \A j \in Invoices : j # i => invoice'[j] = invoice[j]
    BY <1>5, <2>1 DEF CompletePayment, TablesOK, InvoiceRecords, Recorded
  <2>4. ASSUME NEW j \in Invoices, CreditedIsKnown(j) PROVE CreditedIsKnown(j)'
    <3>1. CASE j = i BY <2>3, <3>1 DEF CreditedIsKnown
    <3>2. CASE j # i BY <2>2, <2>3, <2>4, <3>2, <2>1 DEF CreditedIsKnown
    <3> QED BY <3>1, <3>2
  <2>5. \A c \in Checkouts : checkout[c].pc = "record" =>
          checkout[c].invoice \in Invoices /\ checkout[c].invoice # i
    BY <2>1 DEF OnceInv, Recorded, CheckoutFits
  <2>6. \A c \in Checkouts : checkout'[c].pc = "record" =>
          invoice'[checkout'[c].invoice].record = "none"
    BY <2>2, <2>3, <2>5 DEF OnceInv
  <2>7. \A g \in Hooks :
          (hook'[g].pc \in {"read", "update"} /\ hook'[g].invoice \notin redone') =>
             credits'[hook'[g].invoice] = 0
    BY <2>2 DEF OnceInv
  <2> QED BY <2>2, <2>4, <2>6, <2>7 DEF OnceInv
<1>6. CASE PublishRenewed(h)
  <2>1. /\ hook[h].pc = "publish" /\ hook'[h].pc = "idle"
        /\ \A g \in Hooks : g # h => hook'[g] = hook[g]
        /\ UNCHANGED <<credits, invoice, redone, checkout>>
    BY <1>6 DEF PublishRenewed, IdleHook, history, ledger
  <2> QED BY <2>1, OnceKept
<1>7. CASE SettleFails(h)
  <2>1. /\ hook'[h].pc = "idle" /\ redone \subseteq redone'
        /\ \A g \in Hooks : g # h => hook'[g] = hook[g]
        /\ UNCHANGED <<credits, invoice, checkout>>
    BY <1>7 DEF SettleFails, IdleHook, ledger, rows
  <2>2. hook[h].pc = "complete" => hook[h].invoice \in redone'
    BY <1>7 DEF SettleFails, Extending
  <2> QED BY <2>1, <2>2, OnceKept
<1> QED
  BY <1>1, <1>2, <1>3, <1>4, <1>5, <1>6, <1>7 DEF Deliver, SettleStep, Kinds

LEMMA OnceStep ==
  ASSUME TypeInv, TypeInv', PairInv, OnceInv, [Next]_vars
  PROVE  OnceInv'
<1>1. ASSUME NEW c \in Checkouts, NEW a \in Accounts, BeginCheckout(c, a)
      PROVE  OnceInv'
  BY <1>1, OnceKept DEF BeginCheckout, IdleCheckout, rows, history, ledger, TypeInv
<1>2. ASSUME NEW i \in Invoices, Pay(i) \/ Confirm(i) PROVE OnceInv'
  <2>1. \A j \in Invoices : invoice'[j].record = invoice[j].record
    <3>1. PICK p : invoice' = [invoice EXCEPT ![i].provider = p]
      BY <1>2 DEF Pay, Confirm
    <3> QED BY <3>1 DEF TypeInv, TablesOK, InvoiceRecords
  <2>2. UNCHANGED <<checkout, hook, redone, credits>>
    BY <1>2 DEF Pay, Confirm, procs, history, ledger
  <2>3. \A j \in Invoices : CreditedIsKnown(j) => CreditedIsKnown(j)'
    BY <2>1, <2>2 DEF CreditedIsKnown
  <2>4. \A c \in Checkouts : checkout[c].pc = "record" =>
          checkout[c].invoice \in Invoices
    BY DEF TypeInv, CheckoutFits
  <2> QED BY <2>1, <2>2, <2>3, <2>4 DEF OnceInv
<1>3. CASE (\E a \in Accounts : Cancel(a)) \/ Sweep \/ Tick \/ UNCHANGED vars
  BY <1>3, OnceKept DEF Cancel, Sweep, Tick, vars, rows, procs, history, ledger
<1>4. CASE \E v \in Viewers, a \in Accounts : View(v, a)
  BY <1>4, OnceKept DEF View, rows, history, ledger
<1>5. ASSUME NEW e \in Expirers, ExpireStep(e) PROVE OnceInv'
  <2>1. UNCHANGED <<checkout, hook, credits, invoice, redone>>
    BY <1>5 DEF ExpireStep, InsertFree, Expire, PublishExpired, ExpireFails,
       rows, history, ledger
  <2> QED BY <2>1, OnceKept
<1>6. CASE Crash
  <2>1. /\ UNCHANGED <<credits, invoice>> /\ redone \subseteq redone'
        /\ \A c \in Checkouts : checkout'[c].pc = "idle"
        /\ \A h \in Hooks : hook'[h].pc = "idle"
    BY <1>6 DEF Crash, IdleCheckout, IdleHook, rows, ledger
  <2>2. \A h \in Hooks : hook[h].pc = "complete" => hook[h].invoice \in redone'
    BY <1>6 DEF Crash, Extending
  <2> QED BY <2>1, <2>2, OnceKept
<1> QED
  BY <1>1, <1>2, <1>3, <1>4, <1>5, <1>6, OnceCheckout, OnceSettle DEF Next

-----------------------------------------------------------------------------
LEMMA PeriodCheckout ==
  ASSUME TypeInv, TypeInv', TimeInv, PeriodInv, [Next]_vars, NEW c \in Checkouts,
         (\E a \in Accounts : BeginCheckout(c, a)) \/ CheckoutStep(c)
  PROVE  PeriodInv'
<1> USE PeriodNumbers
<1>1. ASSUME NEW a \in Accounts, BeginCheckout(c, a) PROVE PeriodInv'
  <2>1. UNCHANGED <<now, sub, paidUntil, raced, hook, expirer>>
    BY <1>1 DEF BeginCheckout, rows, history, ledger
  <2>2. /\ checkout'[c].account = a
        /\ \A d \in Checkouts : d # c => checkout'[d] = checkout[d]
    BY <1>1 DEF BeginCheckout, IdleCheckout, TypeInv
  <2>3. a \notin raced' => paidUntil[a] <= now \/ sub[a].cancel
    <3>1. a \notin raced => Kept(a) BY DEF PeriodInv
    <3>2. ~Refused(sub[a]) BY <1>1 DEF BeginCheckout
    <3> QED BY <2>1, <3>1, <3>2 DEF Kept, Refused
  <2>4. checkout'[c].account \notin raced' => WillGiveUpNothing(c)'
    BY <2>1, <2>2, <2>3 DEF WillGiveUpNothing
  <2> QED BY <2>1, <2>2, <2>4, PeriodsKept DEF Holds
<1>2. CASE UpsertRow(c)
  <2> DEFINE a == checkout[c].account
  <2>1. /\ checkout[c].pc = "upsert" /\ checkout'[c].pc = "invoice"
        /\ \A d \in Checkouts : d # c => checkout'[d] = checkout[d]
        /\ UNCHANGED <<now, paidUntil, hook, expirer>>
    BY <1>2 DEF UpsertRow, TypeInv, CheckoutRecords, ledger
  <2>2. /\ raced \subseteq raced' /\ (GivenUp(sub[a]) => a \in raced')
        /\ \A b \in Accounts :
             sub'[b] = IF b = a THEN checkout[c].row ELSE sub[b]
    BY <1>2 DEF UpsertRow, TypeInv, TablesOK
  <2>3. ~ActivePremium(checkout[c].row)
    BY <2>1 DEF TimeInv
  <2>4. ASSUME a \notin raced' PROVE paidUntil[a] <= now
    <3>1. a \in Accounts \ raced
      BY <2>1, <2>2, <2>4 DEF TypeInv, CheckoutFits
    <3>2. Kept(a) BY <3>1 DEF PeriodInv
    <3>3. paidUntil[a] <= now \/ sub[a].cancel
      BY <2>1, <3>1 DEF PeriodInv, WillGiveUpNothing
    <3> QED BY <2>2, <2>4, <3>1, <3>2, <3>3 DEF Kept, GivenUp
  <2>5. \A b \in Accounts \ raced' :
          \/ paidUntil[b] <= now /\ ~ActivePremium(sub'[b])
          \/ sub'[b] = sub[b]
    BY <2>2, <2>3, <2>4
  <2> QED BY <2>1, <2>5, PeriodsKept DEF Holds
<1>3. CASE CreateInvoice(c) \/ RecordPayment(c) \/ CheckoutFails(c)
  <2>1. /\ UNCHANGED <<now, sub, paidUntil, raced, hook, expirer>>
        /\ \A d \in Checkouts : d # c => checkout'[d] = checkout[d]
        /\ checkout'[c].pc # "upsert"
    <3>1. CASE CreateInvoice(c)
      BY <3>1 DEF CreateInvoice, history, ledger, TypeInv, CheckoutRecords
    <3>2. CASE RecordPayment(c)
      BY <3>2 DEF RecordPayment, IdleCheckout, history, ledger, TypeInv
    <3>3. CASE CheckoutFails(c)
      BY <3>3 DEF CheckoutFails, IdleCheckout, rows, history, ledger, TypeInv
    <3> QED BY <1>3, <3>1, <3>2, <3>3
  <2> QED BY <2>1, PeriodsKept DEF Holds
<1> QED BY <1>1, <1>2, <1>3 DEF CheckoutStep

LEMMA PeriodExpirer ==
  ASSUME TypeInv, TypeInv', PeriodInv, [Next]_vars,
         NEW e \in Expirers, NEW b \in Accounts,
         \/ InsertFree(e, b) \/ Expire(e, b)
         \/ PublishExpired(e, b) \/ ExpireFails(e, b)
  PROVE  PeriodInv'
<1> USE PeriodNumbers
<1>1. /\ UNCHANGED <<now, paidUntil, checkout, hook>>
      /\ raced \subseteq raced'
      /\ b \in expirer[e].todo \/ PublishExpired(e, b)
      /\ \A f \in Expirers : f # e => expirer'[f] = expirer[f]
  BY DEF InsertFree, Expire, PublishExpired, ExpireFails, Proceed, Races, TypeInv,
     history, ledger
<1>2. expirer'[e].pc = "publish" \/ expirer'[e].at = None
  BY DEF InsertFree, Expire, PublishExpired, ExpireFails, Proceed, IdleExpirer,
     TypeInv, ExpirerRecords
<1>3. ASSUME NEW a \in Accounts, Holds(e, a)' PROVE Holds(e, a)
  <2>1. CASE InsertFree(e, b)
    BY <1>3, <2>1 DEF InsertFree, IdleExpirer, Holds, TypeInv
  <2>2. CASE Expire(e, b)
    <3>1. expirer[e].at = None BY <2>2 DEF Expire, PeriodInv
    <3>2. expirer'[e].todo = expirer[e].todo
      BY <2>2 DEF Expire, TypeInv, ExpirerRecords
    <3> QED BY <1>3, <3>1, <3>2, NamesAssumption DEF Holds
  <2>3. CASE PublishExpired(e, b) \/ ExpireFails(e, b)
    <3>1. expirer'[e].todo \subseteq expirer[e].todo \ {b}
      BY <2>3 DEF PublishExpired, ExpireFails, Proceed, IdleExpirer, TypeInv,
         ExpirerRecords
    <3>2. expirer[e].at = b \/ expirer[e].at = None
      BY <2>3 DEF PublishExpired, ExpireFails, PeriodInv
    <3> QED BY <1>3, <3>1, <3>2, NamesAssumption DEF Holds
  <2> QED BY <2>1, <2>2, <2>3
<1>4. \A a \in Accounts \ raced' :
        \/ paidUntil[a] <= now /\ ~ActivePremium(sub'[a])
        \/ sub'[a] = sub[a]
  <2>1. CASE InsertFree(e, b) \/ Expire(e, b)
    <3>1. \A a \in Accounts : sub'[a] = IF a = b THEN FreeRow ELSE sub[a]
      BY <2>1 DEF InsertFree, Expire, TypeInv, TablesOK
    <3>2. Holds(e, b)
      BY <2>1, NamesAssumption DEF InsertFree, Expire, PeriodInv, Holds
    <3>3. ~ActivePremium(FreeRow) BY DEF FreeRow, Row, ActivePremium
    <3>4. b \notin raced' => paidUntil[b] <= now
      BY <1>1, <3>2 DEF PeriodInv
    <3> QED BY <3>1, <3>3, <3>4
  <2>2. CASE PublishExpired(e, b) \/ ExpireFails(e, b)
    BY <2>2 DEF PublishExpired, ExpireFails, rows
  <2> QED BY <2>1, <2>2
<1>5. \A f \in Expirers, a \in Accounts \ raced' : Holds(f, a)' => Holds(f, a)
  <2> SUFFICES ASSUME NEW f \in Expirers, NEW a \in Accounts, Holds(f, a)'
               PROVE  Holds(f, a)
    OBVIOUS
  <2>1. CASE f = e BY <1>3, <2>1
  <2>2. CASE f # e BY <1>1, <2>2 DEF Holds
  <2> QED BY <2>1, <2>2
<1> QED BY <1>1, <1>2, <1>4, <1>5, PeriodsKept

LEMMA PeriodStep ==
  ASSUME TypeInv, TypeInv', TimeInv, OnceInv, PeriodInv, [Next]_vars
  PROVE  PeriodInv'
<1> USE PeriodNumbers
<1>1. ASSUME NEW h \in Hooks, ReadSubscription(h) PROVE PeriodInv'
  BY <1>1, ReadKeeps
<1>2. ASSUME NEW h \in Hooks, Activate(h) PROVE PeriodInv'
  <2>1. hook[h].invoice \notin redone => credits[hook[h].invoice] = 0
    BY <1>2 DEF Activate, OnceInv
  <2> QED BY <1>2, <2>1, ActivateKeeps
<1>3. ASSUME NEW h \in Hooks,
             Deliver(h) \/ CompletePayment(h) \/ PublishRenewed(h) \/ SettleFails(h)
      PROVE  PeriodInv'
  <2>1. UNCHANGED <<now, paidUntil, raced, sub, checkout, expirer>>
    BY <1>3 DEF Deliver, BeginSettle, AnswerRepeated, CompletePayment,
       PublishRenewed, SettleFails, rows, procs, history, ledger
  <2>2. \A g \in Hooks : hook'[g].pc # "update" \/ hook'[g] = hook[g]
    <3>1. CASE Deliver(h)
      BY <3>1 DEF Deliver, BeginSettle, AnswerRepeated, IdleHook, procs, TypeInv
    <3>2. CASE CompletePayment(h)
      BY <3>2 DEF CompletePayment, TypeInv, HookRecords
    <3>3. CASE PublishRenewed(h) \/ SettleFails(h)
      BY <3>3 DEF PublishRenewed, SettleFails, IdleHook, TypeInv
    <3> QED BY <1>3, <3>1, <3>2, <3>3
  <2> QED BY <2>1, <2>2, PeriodsKept DEF Holds
<1>4. ASSUME NEW a \in Accounts, Cancel(a) PROVE PeriodInv'
  <2>1. UNCHANGED <<now, paidUntil, raced, checkout, hook, expirer>>
    BY <1>4 DEF Cancel, procs, history, ledger
  <2>2. \A b \in Accounts :
          /\ ActivePremium(sub'[b]) <=> ActivePremium(sub[b])
          /\ sub'[b].end = sub[b].end
          /\ sub[b].cancel => sub'[b].cancel
    BY <1>4 DEF Cancel, TypeInv, TablesOK, SubRows, ActivePremium
  <2> QED BY <2>1, <2>2, PeriodsKept DEF Holds
<1>5. ASSUME NEW a \in Accounts \ raced, Due(sub[a]) \/ sub[a] = NoRow
      PROVE  paidUntil[a] <= now
  <2>1. Kept(a) BY DEF PeriodInv
  <2> QED BY <1>5, <2>1 DEF Kept, Due, NoRow, Row, ActivePremium
<1>6. CASE Sweep
  <2>1. UNCHANGED <<now, paidUntil, raced, sub, checkout, hook>>
    BY <1>6 DEF Sweep, rows, history, ledger
  <2>2. /\ \A e \in Expirers : expirer'[e].at = None \/ expirer'[e] = expirer[e]
        /\ \A e \in Expirers, a \in Accounts :
             Holds(e, a)' => Holds(e, a) \/ Due(sub[a])
    BY <1>6 DEF Sweep, Holds, TypeInv
  <2> QED BY <1>5, <2>1, <2>2, PeriodsKept
<1>7. ASSUME NEW v \in Viewers, NEW b \in Accounts, View(v, b) PROVE PeriodInv'
  <2>1. UNCHANGED <<now, paidUntil, raced, sub, checkout, hook>>
    BY <1>7 DEF View, rows, history, ledger
  <2>2. /\ expirer'[v].todo = {b} /\ expirer'[v].at = None
        /\ \A e \in Expirers : e # v => expirer'[e] = expirer[e]
        /\ Due(sub[b]) \/ sub[b] = NoRow
    BY <1>7 DEF View, IdleExpirer, Expirers, TypeInv
  <2>3. \A e \in Expirers, a \in Accounts :
          Holds(e, a)' => Holds(e, a) \/ a = b
    BY <2>2 DEF Holds
  <2> QED BY <1>5, <2>1, <2>2, <2>3, PeriodsKept
<1>8. CASE Tick \/ UNCHANGED vars \/ (\E i \in Invoices : Pay(i) \/ Confirm(i))
  <2>1. UNCHANGED <<sub, paidUntil, raced, checkout, hook, expirer>> /\ now' >= now
    BY <1>8 DEF Tick, Pay, Confirm, vars, rows, procs, history, ledger
  <2> QED BY <2>1, PeriodsKept DEF Holds
<1>9. CASE Crash
  BY <1>9, PeriodsKept DEF Crash, IdleCheckout, IdleHook, IdleExpirer, Holds,
     rows, ledger
<1> QED
  BY <1>1, <1>2, <1>3, <1>4, <1>6, <1>7, <1>8, <1>9, PeriodCheckout, PeriodExpirer
  DEF Next, SettleStep, ExpireStep

LEMMA InitPeriods == Init => PairInv /\ OnceInv /\ PeriodInv
<1> SUFFICES ASSUME Init PROVE PairInv /\ OnceInv /\ PeriodInv OBVIOUS
<1>1. /\ \A c \in Checkouts : checkout[c].pc = "idle"
      /\ \A h \in Hooks : hook[h].pc = "idle"
      /\ \A e \in Expirers : expirer[e].todo = {} /\ expirer[e].at = None
      /\ \A i \in Invoices : credits[i] = 0
      /\ \A a \in Accounts : sub[a] = NoRow /\ paidUntil[a] = 0
      /\ now = 0
  BY DEF Init, IdleCheckout, IdleHook, IdleExpirer
<1>2. PairInv BY <1>1 DEF PairInv
<1>3. OnceInv BY <1>1 DEF OnceInv, CreditedIsKnown
<1>4. ~ActivePremium(NoRow) BY DEF NoRow, Row, ActivePremium
<1>5. PeriodInv BY <1>1, <1>4 DEF PeriodInv, Kept, Holds
<1> QED BY <1>2, <1>3, <1>5

(* Every reachable state satisfies TimeInv.                                *)
LEMMA AlwaysTimeInv == Spec => []TimeInv
<1>1. Init => TimeInv
  BY DEF Init, TimeInv, PaidFor, ActivePremium, NoRow, Row, IdleCheckout, IdleHook
<1>2. TypeInv /\ TypeInv' /\ TimeInv /\ [Next]_vars => TimeInv'
  BY TimeStep
<1> QED BY <1>1, <1>2, AlwaysTypeInv, PTL DEF Spec

(* Two deliveries of one invoice are in its history (PairInv), the others  *)
(* extend once (OnceInv), and the row ends where the payments say          *)
(* (PeriodInv).                                                            *)
LEMMA AlwaysPeriodInv == Spec => [](PairInv /\ OnceInv /\ PeriodInv)
<1>1. /\ TypeInv /\ TypeInv' /\ TimeInv /\ [Next]_vars
      /\ PairInv /\ OnceInv /\ PeriodInv
      => (PairInv /\ OnceInv /\ PeriodInv)'
  BY PairStep, OnceStep, PeriodStep
<1> QED BY <1>1, InitPeriods, AlwaysTypeInv, AlwaysTimeInv, PTL DEF Spec

(* What was paid is kept until it is used up: no checkout, sweep, status   *)
(* request, cancellation, repeated, overlapping or failing webhook and no  *)
(* crash shortens the period that the account's invoices, each counted     *)
(* once, add up to, unless a row was written between another operation's   *)
(* read and write or a checkout gave up a cancelled period.                *)
THEOREM PaidTimeAlwaysKept == Spec => []PaidTimeKept
<1>1. PeriodInv => PaidTimeKept BY DEF PeriodInv, Kept, PaidTimeKept
<1> QED BY <1>1, AlwaysPeriodInv, PTL

(* ... and the row ends exactly there: an invoice whose deliveries did not *)
(* overlap and were not cut off between the extension and the completion   *)
(* extends it once, however often its events are delivered or fail.        *)
THEOREM PaidTimeAlwaysExact == Spec => []PaidTimeExact
<1>1. PeriodInv => PaidTimeExact BY DEF PeriodInv, Kept, PaidTimeExact, Redone
<1> QED BY <1>1, AlwaysPeriodInv, PTL
=============================================================================
