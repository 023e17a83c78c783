---------------------- MODULE PeerProvisioning_proofs ----------------------
(***************************************************************************)
(* Proofs about PeerProvisioning for all values of its constants: the      *)
(* inductive invariant IInv, the uniqueness of live addresses, the         *)
(* refinement of AddressLeases, the success of a create that nobody        *)
(* overlaps, and that serial clients leave no address marked without use.  *)
(*                                                                         *)
(* Steps differ in how they touch the table of peers, so each invariant is *)
(* shown by one lemma per kind of write: a row that is (re)written by      *)
(* CreatePeer, a row that becomes active, a row that is removed.           *)
(***************************************************************************)
EXTENDS PeerProvisioning, TLAPS

WrittenRows == {p \in Peers : peers[p].status # "absent"}

(* A request, report or resync in progress names a row that can be served  *)
(* with the address it carries: requests past BITPOS hold an address of    *)
(* the subnet, and ids that reached an agent or a DELETE name rows that    *)
(* were written.  UniqueLiveAddress is not inductive without it.           *)
RowsBehindRequests ==
  /\ \A p \in WrittenRows : peers[p].bit \in Bits
  /\ \A r \in Creates :
       /\ create[r].pc # "idle" => create[r].peer \in Peers
       /\ create[r].pc \in {"setbit", "check", "insert", "release"}
            => create[r].bit \in Bits
       /\ create[r].pc \in NotifyPCs \cup {"reporting"}
            => create[r].peer \in WrittenRows
  /\ \A d \in Deletes : delete[d].pc # "idle" => delete[d].peer \in WrittenRows
  /\ resync \subseteq WrittenRows

IInv == TypeOK /\ UniqueLiveAddress /\ RowsBehindRequests

LEMMA PairShape ==
  ASSUME NEW p \in Peers
  PROVE  /\ AccountOf(p) \in Accounts /\ ServerOf(p) \in Servers
         /\ p = <<AccountOf(p), ServerOf(p)>>
BY DEF Peers, AccountOf, ServerOf

(* Writes to the request table keep its type.                              *)
LEMMA OverlapKeepsType ==
  ASSUME NEW rec \in CreateRecords
  PROVE  /\ Overlapped(rec) \in CreateRecords
         /\ Overlapped(rec).pc = rec.pc /\ Overlapped(rec).peer = rec.peer
         /\ Overlapped(rec).bit = rec.bit
BY DEF Overlapped, CreateRecords, HandlerPCs

LEMMA IdleTypes ==
  IdleCreate \in CreateRecords /\ IdleDelete \in DeleteRecords /\ AbsentRow \in Rows
BY DEF IdleCreate, IdleDelete, AbsentRow, CreateRecords, DeleteRecords, Rows,
       CreatePCs, HandlerPCs, NotifyPCs

(* IInv split along the variables: what it says of the table of peers, of  *)
(* one request record given the rows that were written, of the requests    *)
(* and of the rest.                                                        *)
TableOK ==
  /\ peers \in [Peers -> Rows]
  /\ UniqueLiveAddress
  /\ \A p \in WrittenRows : peers[p].bit \in Bits

RequestFits(rec, W) ==
  /\ rec \in CreateRecords
  /\ rec.pc # "idle" => rec.peer \in Peers
  /\ rec.pc \in {"setbit", "check", "insert", "release"} => rec.bit \in Bits
  /\ rec.pc \in NotifyPCs \cup {"reporting"} => rec.peer \in W

CreatesOK ==
  /\ create \in [Creates -> CreateRecords]
  /\ \A r \in Creates : RequestFits(create[r], WrittenRows)

OthersOK ==
  /\ bitmap \in [Servers -> SUBSET Bits]
  /\ delete \in [Deletes -> DeleteRecords]
  /\ \A d \in Deletes : delete[d].pc # "idle" => delete[d].peer \in WrittenRows
  /\ resync \subseteq WrittenRows

LEMMA IInvParts == IInv <=> TableOK /\ CreatesOK /\ OthersOK
BY DEF IInv, TypeOK, RowsBehindRequests, TableOK, CreatesOK, OthersOK, RequestFits,
       WrittenRows

-----------------------------------------------------------------------------
(* The three ways to write a row, and the steps that write none.           *)

LEMMA RewrittenRow ==
  ASSUME TableOK, NEW p \in Peers, NEW k \in Keys \cup {None}, NEW b \in Bits,
         UniqueIndexAdmits(p, b),
         peers' = [peers EXCEPT ![p] = [status |-> "pending", key |-> k, bit |-> b]]
  PROVE  TableOK' /\ WrittenRows' = WrittenRows \cup {p}
<1>1. peers' \in [Peers -> Rows]
  BY DEF TableOK, Rows
<1>2. WrittenRows' = WrittenRows \cup {p}
  BY DEF TableOK, WrittenRows
<1>3. \A q \in WrittenRows' : peers'[q].bit \in Bits
  BY <1>2 DEF TableOK, WrittenRows
<1>4. UniqueLiveAddress'
  BY DEF TableOK, UniqueLiveAddress, UniqueIndexAdmits, Live
<1> QED
  BY <1>1, <1>2, <1>3, <1>4 DEF TableOK

LEMMA ActivatedRow ==
  ASSUME TableOK, NEW p \in WrittenRows, MarkPeerActive(p)
  PROVE  TableOK' /\ WrittenRows' = WrittenRows
<1>1. CASE UniqueIndexAdmits(p, peers[p].bit)
  <2>1. peers' = [peers EXCEPT ![p].status = "active"]
    BY <1>1 DEF MarkPeerActive
  <2>2. peers' \in [Peers -> Rows] /\ WrittenRows' = WrittenRows
    BY <2>1 DEF TableOK, WrittenRows, Rows
  <2>3. \A q \in WrittenRows' : peers'[q].bit \in Bits
    BY <2>1, <2>2 DEF TableOK, WrittenRows
  <2>4. UniqueLiveAddress'
    BY <1>1, <2>1 DEF TableOK, UniqueLiveAddress, UniqueIndexAdmits, Live, WrittenRows
  <2> QED
    BY <2>2, <2>3, <2>4 DEF TableOK
<1>2. CASE ~UniqueIndexAdmits(p, peers[p].bit)
  BY <1>2 DEF MarkPeerActive, TableOK, UniqueLiveAddress, Live, WrittenRows
<1> QED
  BY <1>1, <1>2

LEMMA RemovedRow ==
  ASSUME TableOK, NEW p \in WrittenRows,
         peers' = [peers EXCEPT ![p].status = "removed"]
  PROVE  TableOK' /\ WrittenRows' = WrittenRows
<1>1. peers' \in [Peers -> Rows] /\ WrittenRows' = WrittenRows
  BY DEF TableOK, WrittenRows, Rows
<1>2. \A q \in WrittenRows' : peers'[q].bit \in Bits
  BY <1>1 DEF TableOK, WrittenRows
<1>3. UniqueLiveAddress'
  BY DEF TableOK, UniqueLiveAddress, Live, WrittenRows
<1> QED
  BY <1>1, <1>2, <1>3 DEF TableOK

LEMMA UntouchedRows ==
  ASSUME TableOK, UNCHANGED peers
  PROVE  TableOK' /\ WrittenRows' = WrittenRows
BY DEF TableOK, UniqueLiveAddress, Live, WrittenRows

-----------------------------------------------------------------------------
(* The ways to write the table of requests.                                *)

LEMMA RequestSteps ==
  ASSUME CreatesOK, WrittenRows \subseteq WrittenRows', NEW r \in Creates, NEW rec,
         RequestFits(rec, WrittenRows'),
         create' = [create EXCEPT ![r] = rec] \/ Write(r, rec)
  PROVE  CreatesOK'
<1> SUFFICES ASSUME NEW q \in Creates
             PROVE  /\ create' = [s \in Creates |-> create'[s]]
                    /\ RequestFits(create'[q], WrittenRows')
  BY DEF CreatesOK, RequestFits
<1>1. RequestFits(create[q], WrittenRows') /\ create[q] \in CreateRecords
  BY DEF CreatesOK, RequestFits
<1>2. RequestFits(Overlapped(create[q]), WrittenRows')
  BY <1>1, OverlapKeepsType DEF RequestFits
<1>3. CASE create' = [create EXCEPT ![r] = rec]
  BY <1>1, <1>3 DEF CreatesOK
<1>4. CASE Write(r, rec)
  BY <1>2, <1>4 DEF Write
<1> QED
  BY <1>3, <1>4

LEMMA RequestsOverlapped ==
  ASSUME CreatesOK, WrittenRows \subseteq WrittenRows', WriteByOther
  PROVE  CreatesOK'
<1>1. \A q \in Creates : /\ RequestFits(create[q], WrittenRows')
                         /\ create[q] \in CreateRecords
  BY DEF CreatesOK, RequestFits
<1>2. \A q \in Creates : RequestFits(Overlapped(create[q]), WrittenRows')
  BY <1>1, OverlapKeepsType DEF RequestFits
<1>3. \A q \in Creates : Overlapped(create[q]) \in CreateRecords
  BY <1>1, OverlapKeepsType
<1> QED
  BY <1>2, <1>3 DEF WriteByOther, CreatesOK

LEMMA RequestsUntouched ==
  ASSUME CreatesOK, WrittenRows \subseteq WrittenRows', UNCHANGED create
  PROVE  CreatesOK'
BY DEF CreatesOK, RequestFits

LEMMA IdleFits ==
  ASSUME NEW W
  PROVE  RequestFits(IdleCreate, W)
BY IdleTypes DEF RequestFits, IdleCreate, NotifyPCs

-----------------------------------------------------------------------------
(* A database without peers and empty bitmaps satisfy the invariant.       *)
THEOREM InitIInv == Init => IInv
<1> SUFFICES ASSUME Init PROVE IInv
  OBVIOUS
<1>1. TypeOK
  BY IdleTypes DEF Init, TypeOK
<1>2. UniqueLiveAddress
  BY DEF Init, UniqueLiveAddress, Live, AbsentRow
<1>3. RowsBehindRequests
  BY DEF Init, RowsBehindRequests, WrittenRows, AbsentRow, IdleCreate, IdleDelete, NotifyPCs
<1> QED
  BY <1>1, <1>2, <1>3 DEF IInv

(* A step of a POST /peers request preserves the invariant.                *)
LEMMA CreateStepKeeps ==
  ASSUME TableOK, CreatesOK, OthersOK, NEW r \in Creates, CreateStep(r)
  PROVE  TableOK' /\ CreatesOK' /\ OthersOK'
<1> DEFINE rec == create[r]
           KeepsRows == TableOK' /\ WrittenRows' = WrittenRows
<1>0. rec \in CreateRecords /\ RequestFits(rec, WrittenRows)
  BY DEF CreatesOK
<1>1. ASSUME NEW p \in Peers, NEW k \in Keys, Admit(r, p, k)
      PROVE  TableOK' /\ CreatesOK' /\ OthersOK'
  <2> DEFINE new == [IdleCreate EXCEPT !.pc = "bitpos", !.peer = p, !.key = k,
                                       !.old = IF Live(p) THEN peers[p] ELSE AbsentRow]
  <2>1. KeepsRows
    BY <1>1, UntouchedRows DEF Admit
  <2>2. (IF Live(p) THEN peers[p] ELSE AbsentRow) \in Rows
    BY IdleTypes DEF TableOK
  <2>3. RequestFits(new, WrittenRows')
    BY <2>2 DEF RequestFits, IdleCreate, CreateRecords, CreatePCs, HandlerPCs, NotifyPCs
  <2>4. create' = [create EXCEPT ![r] = new]
    BY <1>1 DEF Admit
  <2> HIDE DEF new
  <2>5. CreatesOK'
    BY <2>1, <2>3, <2>4, RequestSteps
  <2> QED
    BY <1>1, <2>1, <2>5 DEF Admit, OthersOK
<1>2. ASSUME FindClearBit(r)
      PROVE  TableOK' /\ CreatesOK' /\ OthersOK'
  <2>1. KeepsRows
    BY <1>2, UntouchedRows DEF FindClearBit
  <2>2. PICK b \in Bits : create' = [create EXCEPT ![r].pc = "setbit", ![r].bit = b]
    BY <1>2 DEF FindClearBit, PoolBits
  <2> DEFINE new == [rec EXCEPT !.pc = "setbit", !.bit = b]
  <2>3. RequestFits(new, WrittenRows')
    BY <1>0, <1>2 DEF RequestFits, FindClearBit, CreateRecords, CreatePCs, HandlerPCs, NotifyPCs
  <2>4. create' = [create EXCEPT ![r] = new]
    BY <1>0, <2>2 DEF CreatesOK, CreateRecords
  <2> HIDE DEF new
  <2>5. CreatesOK'
    BY <2>1, <2>3, <2>4, RequestSteps
  <2> QED
    BY <1>2, <2>1, <2>5 DEF FindClearBit, OthersOK
<1>3. ASSUME MarkBit(r)
      PROVE  TableOK' /\ CreatesOK' /\ OthersOK'
  <2> DEFINE new == [create[r] EXCEPT !.pc = "check"]
  <2>1. KeepsRows
    BY <1>3, UntouchedRows DEF MarkBit
  <2>2. RequestFits(new, WrittenRows')
    BY <1>0, <1>3 DEF RequestFits, MarkBit, CreateRecords, CreatePCs, HandlerPCs, NotifyPCs
  <2>3. CreatesOK'
    BY <1>3, <2>1, <2>2, RequestSteps DEF MarkBit
  <2>4. bitmap' \in [Servers -> SUBSET Bits]
    BY <1>0, <1>3 DEF MarkBit, OthersOK, RequestFits
  <2> QED
    BY <1>3, <2>1, <2>3, <2>4 DEF MarkBit, OthersOK
<1>4. ASSUME CandidateUsed(r)
      PROVE  TableOK' /\ CreatesOK' /\ OthersOK'
  <2> DEFINE new == [rec EXCEPT !.pc = "bitpos", !.tries = @ + 1, !.bit = None]
  <2>1. KeepsRows
    BY <1>4, UntouchedRows DEF CandidateUsed
  <2>a. rec.peer \in Peers /\ rec.tries + 1 \in Nat
    BY <1>0, <1>4 DEF RequestFits, CandidateUsed, CreateRecords
  <2>b. new \in CreateRecords
    BY <1>0, <2>a DEF CreateRecords, CreatePCs, HandlerPCs
  <2>2. RequestFits(new, WrittenRows')
    BY <1>0, <2>a, <2>b DEF RequestFits, CreateRecords, NotifyPCs
  <2>3. create' = [create EXCEPT ![r] = new]
    BY <1>0, <1>4 DEF CandidateUsed, Goto, Finish, CreatesOK, CreateRecords
  <2> HIDE DEF new
  <2>4. CreatesOK'
    BY <2>1, <2>2, <2>3, RequestSteps
  <2> QED
    BY <1>4, <2>1, <2>4 DEF CandidateUsed, OthersOK
<1>5. ASSUME CandidateFree(r)
      PROVE  TableOK' /\ CreatesOK' /\ OthersOK'
  <2> DEFINE new == [rec EXCEPT !.pc = "insert", !.tries = 0]
  <2>1. KeepsRows
    BY <1>5, UntouchedRows DEF CandidateFree
  <2>2. RequestFits(new, WrittenRows')
    BY <1>0, <1>5, <2>1 DEF RequestFits, CandidateFree, CreateRecords, CreatePCs, HandlerPCs, NotifyPCs
  <2>3. create' = [create EXCEPT ![r] = new]
    BY <1>0, <1>5 DEF CandidateFree, Goto, Finish, CreatesOK, CreateRecords
  <2> HIDE DEF new
  <2>4. CreatesOK'
    BY <2>1, <2>2, <2>3, RequestSteps
  <2> QED
    BY <1>5, <2>1, <2>4 DEF CandidateFree, OthersOK
<1>6. ASSUME GiveUp(r)
      PROVE  TableOK' /\ CreatesOK' /\ OthersOK'
  <2>1. KeepsRows
    BY <1>6, UntouchedRows DEF GiveUp
  <2>2. CreatesOK'
    BY <1>6, <2>1, IdleFits, RequestSteps DEF GiveUp, Finish
  <2> QED
    BY <1>6, <2>1, <2>2 DEF GiveUp, OthersOK
<1>7. ASSUME UniqueIndexAdmits(rec.peer, rec.bit), rec.pc = "insert", WriteRow(r)
      PROVE  TableOK' /\ WrittenRows' = WrittenRows \cup {rec.peer} /\ rec.peer \in Peers
  BY <1>0, <1>7, RewrittenRow DEF WriteRow, RequestFits, CreateRecords
<1>8. ASSUME Insert(r)
      PROVE  TableOK' /\ CreatesOK' /\ OthersOK'
  <2>1. TableOK' /\ WrittenRows' = WrittenRows \cup {rec.peer} /\ rec.peer \in Peers
    BY <1>7, <1>8 DEF Insert
  <2>2. RequestFits(FirstNotification(r), WrittenRows')
    BY <1>0, <2>1 DEF FirstNotification, Notifying, RequestFits, IdleCreate, AbsentRow, Rows,
                      CreateRecords, CreatePCs, HandlerPCs, NotifyPCs
  <2>3. CreatesOK'
    BY <1>8, <2>1, <2>2, RequestSteps DEF Insert
  <2> QED
    BY <1>8, <2>1, <2>3 DEF Insert, OthersOK
<1>9. ASSUME InsertUnacknowledged(r)
      PROVE  TableOK' /\ CreatesOK' /\ OthersOK'
  <2> DEFINE new == [create[r] EXCEPT !.pc = "release"]
  <2>1. TableOK' /\ WrittenRows' = WrittenRows \cup {rec.peer} /\ rec.peer \in Peers
    BY <1>7, <1>9 DEF InsertUnacknowledged
  <2>2. RequestFits(new, WrittenRows')
    BY <1>0, <1>9, <2>1 DEF InsertUnacknowledged, RequestFits, CreateRecords, CreatePCs, HandlerPCs, NotifyPCs
  <2>3. CreatesOK'
    BY <1>9, <2>1, <2>2, RequestSteps DEF InsertUnacknowledged
  <2> QED
    BY <1>9, <2>1, <2>3 DEF InsertUnacknowledged, OthersOK
<1>10. ASSUME DatabaseRefuses(r)
      PROVE  TableOK' /\ CreatesOK' /\ OthersOK'
  <2> DEFINE new == [rec EXCEPT !.pc = "release"]
  <2>1. KeepsRows
    BY <1>10, UntouchedRows DEF DatabaseRefuses
  <2>2. rec.pc \in {"check", "insert"}
    BY <1>10 DEF DatabaseRefuses, InsertConflict
  <2>3. RequestFits(new, WrittenRows')
    BY <1>0, <2>2 DEF RequestFits, CreateRecords, CreatePCs, HandlerPCs, NotifyPCs
  <2>4. create' = [create EXCEPT ![r] = new]
    BY <1>0, <1>10 DEF DatabaseRefuses, Goto, CreatesOK, CreateRecords
  <2> HIDE DEF new
  <2>5. CreatesOK'
    BY <2>1, <2>3, <2>4, RequestSteps
  <2> QED
    BY <1>10, <2>1, <2>5 DEF DatabaseRefuses, OthersOK
<1>11. ASSUME ReleaseCandidate(r)
      PROVE  TableOK' /\ CreatesOK' /\ OthersOK'
  <2>1. KeepsRows
    BY <1>11, UntouchedRows DEF ReleaseCandidate
  <2>2. RequestFits(IdleCreate, WrittenRows')
    BY IdleFits
  <2>3. CreatesOK'
    BY <1>11, <2>1, <2>2, RequestSteps DEF ReleaseCandidate
  <2>4. bitmap' \in [Servers -> SUBSET Bits]
    BY <1>11 DEF ReleaseCandidate, UnmarkCandidate, OthersOK
  <2> QED
    BY <1>11, <2>1, <2>3, <2>4 DEF ReleaseCandidate, OthersOK
<1>12. ASSUME Abandon(r)
      PROVE  TableOK' /\ CreatesOK' /\ OthersOK'
  <2>1. KeepsRows
    BY <1>12, UntouchedRows DEF Abandon
  <2>2. CreatesOK'
    BY <1>12, <2>1, IdleFits, RequestSteps DEF Abandon, Finish
  <2> QED
    BY <1>12, <2>1, <2>2 DEF Abandon, OthersOK
<1>13. ASSUME rec.pc \in NotifyPCs
       PROVE  RequestFits(Notifying(r, "push_add"), WrittenRows)
  BY <1>0, <1>13, IdleTypes DEF Notifying, RequestFits, IdleCreate, CreateRecords, CreatePCs, HandlerPCs, NotifyPCs
<1>14. ASSUME PushRemoveDelivered(r)
      PROVE  TableOK' /\ CreatesOK' /\ OthersOK'
  <2> DEFINE new == IF rec.old.bit # rec.bit THEN [rec EXCEPT !.pc = "free_old"]
                    ELSE Notifying(r, "push_add")
  <2>1. KeepsRows
    BY <1>14, UntouchedRows DEF PushRemoveDelivered
  <2>2. rec.pc = "push_remove"
    BY <1>14 DEF PushRemoveDelivered
  <2>3. RequestFits([rec EXCEPT !.pc = "free_old"], WrittenRows)
    BY <1>0, <2>2 DEF RequestFits, CreateRecords, CreatePCs, HandlerPCs, NotifyPCs
  <2>4. RequestFits(Notifying(r, "push_add"), WrittenRows)
    BY <1>13, <2>2 DEF NotifyPCs
  <2>5. RequestFits(new, WrittenRows')
    BY <2>1, <2>3, <2>4
  <2>6. create' = [create EXCEPT ![r] = new]
    BY <1>14 DEF PushRemoveDelivered
  <2> HIDE DEF new
  <2>7. CreatesOK'
    BY <2>1, <2>5, <2>6, RequestSteps
  <2> QED
    BY <1>14, <2>1, <2>7 DEF PushRemoveDelivered, OthersOK
<1>15. ASSUME FreeOldAddress(r)
      PROVE  TableOK' /\ CreatesOK' /\ OthersOK'
  <2>1. KeepsRows
    BY <1>15, UntouchedRows DEF FreeOldAddress
  <2>2. RequestFits(Notifying(r, "push_add"), WrittenRows')
    BY <1>13, <1>15, <2>1 DEF FreeOldAddress, NotifyPCs
  <2>3. CreatesOK'
    BY <1>15, <2>1, <2>2, RequestSteps DEF FreeOldAddress
  <2>4. bitmap' \in [Servers -> SUBSET Bits]
    BY <1>15 DEF FreeOldAddress, UnmarkOldBit, OthersOK
  <2> QED
    BY <1>15, <2>1, <2>3, <2>4 DEF FreeOldAddress, OthersOK
<1>16. ASSUME PushAddDelivered(r)
      PROVE  TableOK' /\ CreatesOK' /\ OthersOK'
  <2> DEFINE new == [rec EXCEPT !.pc = "reporting"]
  <2>1. KeepsRows
    BY <1>16, UntouchedRows DEF PushAddDelivered
  <2>2. RequestFits(new, WrittenRows')
    BY <1>0, <1>16, <2>1 DEF RequestFits, PushAddDelivered, CreateRecords, CreatePCs, HandlerPCs, NotifyPCs
  <2>3. create' = [create EXCEPT ![r] = new]
    BY <1>0, <1>16 DEF PushAddDelivered, Goto, Finish, CreatesOK, CreateRecords
  <2> HIDE DEF new
  <2>4. CreatesOK'
    BY <2>1, <2>2, <2>3, RequestSteps
  <2> QED
    BY <1>16, <2>1, <2>4 DEF PushAddDelivered, OthersOK
<1>17. ASSUME Report(r)
      PROVE  TableOK' /\ CreatesOK' /\ OthersOK'
  <2>1. rec.peer \in WrittenRows
    BY <1>0, <1>17 DEF Report, RequestFits
  <2>2. KeepsRows
    BY <1>17, <2>1, ActivatedRow DEF Report
  <2>3. CreatesOK'
    BY <1>17, <2>2, IdleFits, RequestSteps DEF Report
  <2> QED
    BY <1>17, <2>2, <2>3 DEF Report, OthersOK
<1> QED
  BY <1>1, <1>2, <1>3, <1>4, <1>5, <1>6, <1>8, <1>9, <1>10, <1>11, <1>12, <1>14, <1>15,
     <1>16, <1>17 DEF CreateStep

(* A step of a DELETE request preserves the invariant.                     *)
LEMMA DeleteStepKeeps ==
  ASSUME TableOK, CreatesOK, OthersOK, NEW d \in Deletes, DeleteStep(d)
  PROVE  TableOK' /\ CreatesOK' /\ OthersOK'
<1> DEFINE KeepsRows == TableOK' /\ WrittenRows' = WrittenRows
<1>1. ASSUME NEW p \in Peers, BeginDelete(d, p)
      PROVE  TableOK' /\ CreatesOK' /\ OthersOK'
  <2>1. KeepsRows
    BY <1>1, UntouchedRows DEF BeginDelete
  <2>2. CreatesOK'
    BY <1>1, <2>1, RequestsUntouched DEF BeginDelete
  <2>3. p \in WrittenRows /\ peers[p] \in Rows
    BY <1>1 DEF BeginDelete, WrittenRows, Live, TableOK
  <2>4. delete' \in [Deletes -> DeleteRecords]
    BY <1>1, <2>3 DEF BeginDelete, OthersOK, DeleteRecords
  <2> QED
    BY <1>1, <2>1, <2>2, <2>3, <2>4 DEF BeginDelete, OthersOK
<1>2. ASSUME MarkRemoved(d)
      PROVE  TableOK' /\ CreatesOK' /\ OthersOK'
  <2>1. delete[d].peer \in WrittenRows
    BY <1>2 DEF MarkRemoved, OthersOK
  <2>2. KeepsRows
    BY <1>2, <2>1, RemovedRow DEF MarkRemoved
  <2>3. CreatesOK'
    BY <1>2, <2>2, RequestsOverlapped DEF MarkRemoved
  <2>4. delete' \in [Deletes -> DeleteRecords]
    BY <1>2 DEF MarkRemoved, OthersOK, DeleteRecords
  <2>5. \A e \in Deletes : delete'[e].pc # "idle" => delete'[e].peer \in WrittenRows
    BY <1>2, <2>1 DEF MarkRemoved, OthersOK, DeleteRecords
  <2> QED
    BY <1>2, <2>2, <2>3, <2>4, <2>5 DEF MarkRemoved, OthersOK
<1>3. ASSUME ReleaseDeleted(d)
      PROVE  TableOK' /\ CreatesOK' /\ OthersOK'
  <2>1. KeepsRows
    BY <1>3, UntouchedRows DEF ReleaseDeleted
  <2>2. CreatesOK'
    BY <1>3, <2>1, RequestsOverlapped DEF ReleaseDeleted
  <2> QED
    BY <1>3, <2>1, <2>2, IdleTypes DEF ReleaseDeleted, OthersOK, IdleDelete
<1>4. ASSUME DeleteFails(d)
      PROVE  TableOK' /\ CreatesOK' /\ OthersOK'
  <2>1. KeepsRows
    BY <1>4, UntouchedRows DEF DeleteFails
  <2>2. CreatesOK'
    BY <1>4, <2>1, RequestsUntouched DEF DeleteFails
  <2> QED
    BY <1>4, <2>1, <2>2, IdleTypes DEF DeleteFails, OthersOK, IdleDelete
<1> QED
  BY <1>1, <1>2, <1>3, <1>4 DEF DeleteStep

(* Every statement of every request, every report and every fault keeps it.*)
THEOREM NextIInv == IInv /\ [Next]_vars => IInv'
<1> SUFFICES ASSUME TableOK, CreatesOK, OthersOK, [Next]_vars
             PROVE  TableOK' /\ CreatesOK' /\ OthersOK'
  BY DEF IInv, TypeOK, RowsBehindRequests, TableOK, CreatesOK, OthersOK, RequestFits, WrittenRows
<1> DEFINE KeepsRows == TableOK' /\ WrittenRows' = WrittenRows
<1>1. ASSUME NEW s \in Servers, CatchUp(s)
      PROVE  TableOK' /\ CreatesOK' /\ OthersOK'
  <2>1. KeepsRows
    BY <1>1, UntouchedRows DEF CatchUp
  <2>2. CreatesOK'
    BY <1>1, <2>1, RequestsUntouched DEF CatchUp
  <2>3. resync' \subseteq WrittenRows
    BY <1>1 DEF CatchUp, OthersOK, WrittenRows, Live
  <2> QED
    BY <1>1, <2>1, <2>2, <2>3 DEF CatchUp, OthersOK
<1>2. ASSUME NEW p \in Peers, ReportResync(p)
      PROVE  TableOK' /\ CreatesOK' /\ OthersOK'
  <2>1. KeepsRows
    BY <1>2, ActivatedRow DEF ReportResync, OthersOK
  <2>2. CreatesOK'
    BY <1>2, <2>1, RequestsOverlapped DEF ReportResync
  <2> QED
    BY <1>2, <2>1, <2>2 DEF ReportResync, OthersOK
<1>3. CASE RedisLoss
  <2>1. KeepsRows
    BY <1>3, UntouchedRows DEF RedisLoss
  <2>2. CreatesOK'
    BY <1>3, <2>1, RequestsOverlapped DEF RedisLoss
  <2> QED
    BY <1>3, <2>1, <2>2 DEF RedisLoss, OthersOK
<1>4. CASE Crash
  <2>1. KeepsRows
    BY <1>4, UntouchedRows DEF Crash
  <2>2. CreatesOK'
    BY <1>4, <2>1, IdleTypes, IdleFits DEF Crash, CreatesOK
  <2> QED
    BY <1>4, <2>1, <2>2, IdleTypes DEF Crash, OthersOK, IdleDelete
<1>5. CASE UNCHANGED vars
  <2>1. KeepsRows
    BY <1>5, UntouchedRows DEF vars
  <2> QED
    BY <1>5, <2>1, RequestsUntouched DEF vars, OthersOK
<1> QED
  BY <1>1, <1>2, <1>3, <1>4, <1>5, CreateStepKeeps, DeleteStepKeeps DEF Next

(* Every reachable state satisfies the inductive invariant.                *)
THEOREM Invariance == Spec => []IInv
BY InitIInv, NextIInv, PTL DEF Spec

(* The program keeps its types: no request ever carries an address outside *)
(* the subnet or a row that does not exist.                                *)
THEOREM TypeCorrect == Spec => []TypeOK
<1>1. IInv => TypeOK
  BY DEF IInv
<1> QED
  BY <1>1, Invariance, PTL

(* An address belongs to at most one live peer of a server, for any number *)
(* of accounts, servers and concurrent requests and under every fault.     *)
THEOREM AddressesUnique == Spec => []UniqueLiveAddress
<1>1. IInv => UniqueLiveAddress
  BY DEF IInv
<1> QED
  BY <1>1, Invariance, PTL

-----------------------------------------------------------------------------
(* The refinement of AddressLeases.                                        *)

Held == [s \in Servers |-> [b \in Bits |-> HolderOf(s, b)]]
HasAddress(a, s, b) == Live(<<a, s>>) /\ peers[<<a, s>>].bit = b

(* With unique live addresses, the holder of an address is the account of  *)
(* the live row that has it.                                               *)
LEMMA HolderIs ==
  ASSUME UniqueLiveAddress, NEW s \in Servers, NEW b \in Bits
  PROVE  /\ HolderOf(s, b) \in Accounts \cup {None}
         /\ \A a \in Accounts : HolderOf(s, b) = a <=> HasAddress(a, s, b)
<1>1. \A a, c \in Accounts : HasAddress(a, s, b) /\ HasAddress(c, s, b) => a = c
  BY DEF UniqueLiveAddress, HasAddress, Peers, ServerOf
<1>2. CASE \E a \in Accounts : HasAddress(a, s, b)
  <2>1. HolderOf(s, b) \in Accounts /\ HasAddress(HolderOf(s, b), s, b)
    BY <1>2 DEF HolderOf, HasAddress
  <2> QED
    BY <1>1, <2>1
<1>3. CASE ~\E a \in Accounts : HasAddress(a, s, b)
  BY <1>3, NoneAssumption DEF HolderOf, HasAddress
<1> QED
  BY <1>2, <1>3

LEMMA NextHolderIs ==
  ASSUME UniqueLiveAddress', NEW s \in Servers, NEW b \in Bits
  PROVE  /\ HolderOf(s, b)' \in Accounts \cup {None}
         /\ \A a \in Accounts : HolderOf(s, b)' = a <=> HasAddress(a, s, b)'
<1>1. \A a, c \in Accounts : HasAddress(a, s, b)' /\ HasAddress(c, s, b)' => a = c
  BY DEF UniqueLiveAddress, HasAddress, Peers, ServerOf
<1>2. CASE \E a \in Accounts : HasAddress(a, s, b)'
  <2>1. HolderOf(s, b)' \in Accounts /\ \E a \in Accounts : a = HolderOf(s, b)' /\ HasAddress(a, s, b)'
    BY <1>2 DEF HolderOf, HasAddress
  <2> QED
    BY <1>1, <2>1
<1>3. CASE ~\E a \in Accounts : HasAddress(a, s, b)'
  BY <1>3, NoneAssumption DEF HolderOf, HasAddress
<1> QED
  BY <1>2, <1>3

(* An address whose live rows stay as they are keeps its holder.           *)
LEMMA HolderStays ==
  ASSUME UniqueLiveAddress, UniqueLiveAddress', NEW s \in Servers, NEW b \in Bits,
         \A a \in Accounts : HasAddress(a, s, b)' <=> HasAddress(a, s, b)
  PROVE  HolderOf(s, b)' = HolderOf(s, b)
BY HolderIs, NextHolderIs, NoneAssumption

LEMMA HeldStays ==
  ASSUME UniqueLiveAddress, UniqueLiveAddress',
         \A p \in Peers : /\ Live(p)' <=> Live(p)
                          /\ Live(p) => peers'[p].bit = peers[p].bit
  PROVE  Held' = Held
<1>1. ASSUME NEW s \in Servers, NEW b \in Bits
      PROVE  HolderOf(s, b)' = HolderOf(s, b)
  <2>1. \A a \in Accounts : HasAddress(a, s, b)' <=> HasAddress(a, s, b)
    BY DEF HasAddress, Peers, Live
  <2> QED
    BY <2>1, HolderStays
<1> QED
  BY <1>1 DEF Held

(* Row p becomes live with address x, or stays live and moves to x.        *)
LEMMA RowAcquires ==
  ASSUME TableOK, TableOK', NEW p \in Peers, NEW row \in Rows, NEW x \in Bits,
         row.bit = x, row.status \in {"pending", "active"},
         peers' = [peers EXCEPT ![p] = row]
  PROVE  Leases!Acquire(AccountOf(p), ServerOf(p), x)
<1> DEFINE a == AccountOf(p)
           s == ServerOf(p)
<1>1. a \in Accounts /\ s \in Servers /\ p = <<a, s>>
  BY PairShape
<1>2. UniqueLiveAddress /\ UniqueLiveAddress' /\ peers \in [Peers -> Rows]
  BY DEF TableOK
<1>3. \A c \in Accounts, t \in Servers, b \in Bits :
         <<c, t>> # p => (HasAddress(c, t, b)' <=> HasAddress(c, t, b))
  BY <1>2 DEF HasAddress, Live, Peers
<1>4. \A b \in Bits : HasAddress(a, s, b)' <=> b = x
  BY <1>1, <1>2 DEF HasAddress, Live, Peers
<1> HIDE DEF a, s
<1>5. ASSUME NEW t \in Servers, NEW b \in Bits, t # s
      PROVE  HolderOf(t, b)' = HolderOf(t, b)
  BY <1>1, <1>2, <1>3, <1>5, HolderStays
<1>6. HolderOf(s, x)' = a
  BY <1>1, <1>2, <1>4, NextHolderIs
<1>7. HolderOf(s, x) \in {None, a}
  <2>1. ASSUME NEW c \in Accounts, c # a, HasAddress(c, s, x)
        PROVE  FALSE
    <3>1. HasAddress(c, s, x)' /\ HasAddress(a, s, x)'
      BY <1>1, <1>3, <1>4, <2>1
    <3> QED
      BY <1>1, <1>2, <1>6, <2>1, <3>1, NextHolderIs
  <2> QED
    BY <1>1, <1>2, <2>1, HolderIs
<1>8. ASSUME NEW b \in Bits, b # x
      PROVE  HolderOf(s, b)' = IF HolderOf(s, b) = a THEN None ELSE HolderOf(s, b)
  <2>1. HolderOf(s, b)' # a
    BY <1>1, <1>2, <1>4, <1>8, NextHolderIs
  <2>2. \A c \in Accounts : c # a => (HasAddress(c, s, b)' <=> HasAddress(c, s, b))
    BY <1>1, <1>3
  <2> QED
    BY <1>1, <1>2, <2>1, <2>2, HolderIs, NextHolderIs, NoneAssumption
<1>9. Held' = [Held EXCEPT ![s] = [[b \in Bits |-> IF Held[s][b] = a THEN None ELSE Held[s][b]]
                                      EXCEPT ![x] = a]]
  <2> DEFINE atS == [[b \in Bits |-> IF Held[s][b] = a THEN None ELSE Held[s][b]]
                       EXCEPT ![x] = a]
  <2>1. [b \in Bits |-> HolderOf(s, b)'] = atS
    BY <1>1, <1>6, <1>8 DEF Held
  <2>2. \A t \in Servers : t # s => [b \in Bits |-> HolderOf(t, b)'] = Held[t]
    BY <1>5 DEF Held
  <2>3. Held' = [t \in Servers |-> [b \in Bits |-> HolderOf(t, b)']]
    BY DEF Held
  <2>4. Held = [t \in Servers |-> Held[t]]
    BY DEF Held
  <2> HIDE DEF atS
  <2> QED
    BY <1>1, <2>1, <2>2, <2>3, <2>4 DEF atS
<1> QED
  BY <1>1, <1>7, <1>9 DEF Leases!Acquire, Leases!Without, Held, a, s

(* Row p is live no longer.                                                *)
LEMMA RowSurrenders ==
  ASSUME TableOK, TableOK', NEW p \in Peers,
         peers' = [peers EXCEPT ![p].status = "removed"]
  PROVE  Leases!Surrender(AccountOf(p), ServerOf(p))
<1> DEFINE a == AccountOf(p)
           s == ServerOf(p)
<1>1. a \in Accounts /\ s \in Servers /\ p = <<a, s>>
  BY PairShape
<1>2. UniqueLiveAddress /\ UniqueLiveAddress' /\ peers \in [Peers -> Rows]
  BY DEF TableOK
<1>3. \A c \in Accounts, t \in Servers, b \in Bits :
         <<c, t>> # p => (HasAddress(c, t, b)' <=> HasAddress(c, t, b))
  BY <1>2 DEF HasAddress, Live, Peers
<1>4. \A b \in Bits : ~HasAddress(a, s, b)'
  BY <1>1, <1>2 DEF HasAddress, Live, Peers
<1> HIDE DEF a, s
<1>5. ASSUME NEW t \in Servers, NEW b \in Bits, t # s
      PROVE  HolderOf(t, b)' = HolderOf(t, b)
  BY <1>1, <1>2, <1>3, <1>5, HolderStays
<1>6. ASSUME NEW b \in Bits
      PROVE  HolderOf(s, b)' = IF HolderOf(s, b) = a THEN None ELSE HolderOf(s, b)
  <2>1. HolderOf(s, b)' # a
    BY <1>1, <1>2, <1>4, NextHolderIs
  <2>2. \A c \in Accounts : c # a => (HasAddress(c, s, b)' <=> HasAddress(c, s, b))
    BY <1>1, <1>3
  <2> QED
    BY <1>1, <1>2, <2>1, <2>2, HolderIs, NextHolderIs, NoneAssumption
<1>7. Held' = [Held EXCEPT ![s] = [b \in Bits |-> IF Held[s][b] = a THEN None ELSE Held[s][b]]]
  BY <1>1, <1>5, <1>6 DEF Held
<1> QED
  BY <1>1, <1>7 DEF Leases!Surrender, Leases!Without, Held, a, s

LEMMA InitLeases == Init => Leases!Init
<1> SUFFICES ASSUME Init PROVE Leases!Init
  OBVIOUS
<1>1. \A p \in Peers : ~Live(p)
  BY DEF Init, Live, AbsentRow
<1>2. \A s \in Servers, b \in Bits : HolderOf(s, b) = None
  BY <1>1 DEF HolderOf, Peers
<1> QED
  BY <1>2 DEF Leases!Init

(* What a report does to the leases: nothing, or it revives a removed row. *)
LEMMA ReportLeases ==
  ASSUME TableOK, TableOK', NEW p \in WrittenRows, MarkPeerActive(p)
  PROVE  Leases!Next \/ Held' = Held
<1>1. p \in Peers /\ peers[p] \in Rows /\ peers[p].bit \in Bits
  BY DEF TableOK, WrittenRows
<1>2. CASE UniqueIndexAdmits(p, peers[p].bit) /\ ~Live(p)
  <2> DEFINE row == [peers[p] EXCEPT !.status = "active"]
  <2>1. peers' = [peers EXCEPT ![p] = row]
    BY <1>2 DEF MarkPeerActive
  <2>2. row \in Rows /\ row.bit = peers[p].bit /\ row.status = "active"
    BY <1>1 DEF Rows
  <2> HIDE DEF row
  <2>3. Leases!Acquire(AccountOf(p), ServerOf(p), peers[p].bit)
    BY <1>1, <2>1, <2>2, RowAcquires
  <2> QED
    BY <1>1, <2>3, PairShape DEF Leases!Next
<1>3. CASE UniqueIndexAdmits(p, peers[p].bit) /\ Live(p)
  <2>1. peers' = [peers EXCEPT ![p].status = "active"]
    BY <1>3 DEF MarkPeerActive
  <2>2. \A q \in Peers : /\ Live(q)' <=> Live(q)
                         /\ Live(q) => peers'[q].bit = peers[q].bit
    BY <1>1, <1>3, <2>1 DEF Live, TableOK, Rows
  <2> QED
    BY <2>2, HeldStays DEF TableOK
<1>4. CASE ~UniqueIndexAdmits(p, peers[p].bit)
  BY <1>4, HeldStays DEF MarkPeerActive, TableOK, Live
<1> QED
  BY <1>2, <1>3, <1>4

(* Every step acquires a lease, surrenders one, or leaves them alone.      *)
LEMMA NextLeases ==
  ASSUME IInv, IInv', [Next]_vars
  PROVE  Leases!Next \/ Held' = Held
<1>1. TableOK /\ CreatesOK /\ OthersOK
  BY IInvParts
<1>2. TableOK'
  BY DEF IInv, TypeOK, RowsBehindRequests, TableOK, WrittenRows
<1>3. UNCHANGED peers => Held' = Held
  BY DEF Held, HolderOf, Live
<1>4. ASSUME NEW r \in Creates, UniqueIndexAdmits(create[r].peer, create[r].bit),
             create[r].pc = "insert", WriteRow(r)
      PROVE  Leases!Next
  <2> DEFINE p == create[r].peer
             row == [status |-> "pending", key |-> create[r].key, bit |-> create[r].bit]
  <2>1. p \in Peers /\ create[r].bit \in Bits /\ row \in Rows
    BY <1>1, <1>4 DEF CreatesOK, RequestFits, CreateRecords, Rows
  <2>2. peers' = [peers EXCEPT ![p] = row]
    BY <1>4 DEF WriteRow
  <2>3. row.bit = create[r].bit /\ row.status = "pending"
    OBVIOUS
  <2> HIDE DEF row, p
  <2>4. Leases!Acquire(AccountOf(p), ServerOf(p), create[r].bit)
    BY <1>1, <1>2, <2>1, <2>2, <2>3, RowAcquires
  <2> QED
    BY <2>1, <2>4, PairShape DEF Leases!Next
<1>5. ASSUME NEW r \in Creates, Report(r)
      PROVE  Leases!Next \/ Held' = Held
  BY <1>1, <1>2, <1>5, ReportLeases DEF Report, CreatesOK, RequestFits
<1>6. ASSUME NEW p \in Peers, ReportResync(p)
      PROVE  Leases!Next \/ Held' = Held
  BY <1>1, <1>2, <1>6, ReportLeases DEF ReportResync, OthersOK
<1>7. ASSUME NEW d \in Deletes, MarkRemoved(d)
      PROVE  Leases!Next
  <2>1. delete[d].peer \in Peers
    BY <1>1, <1>7 DEF MarkRemoved, OthersOK, WrittenRows
  <2>2. Leases!Surrender(AccountOf(delete[d].peer), ServerOf(delete[d].peer))
    BY <1>1, <1>2, <1>7, <2>1, RowSurrenders DEF MarkRemoved
  <2> QED
    BY <2>1, <2>2, PairShape DEF Leases!Next
<1>8. ASSUME NEW r \in Creates, CreateStep(r)
      PROVE  Leases!Next \/ Held' = Held
  BY <1>3, <1>4, <1>5, <1>8
     DEF CreateStep, Admit, FindClearBit, MarkBit, CandidateUsed, CandidateFree, GiveUp,
         Insert, InsertUnacknowledged, DatabaseRefuses, ReleaseCandidate, Abandon,
         PushRemoveDelivered, FreeOldAddress, PushAddDelivered
<1>9. ASSUME NEW d \in Deletes, DeleteStep(d)
      PROVE  Leases!Next \/ Held' = Held
  BY <1>3, <1>7, <1>9 DEF DeleteStep, BeginDelete, ReleaseDeleted, DeleteFails
<1> QED
  BY <1>3, <1>6, <1>8, <1>9 DEF Next, CatchUp, RedisLoss, Crash, vars

(* wg-manager implements address leases: whatever is interleaved and       *)
(* whatever fails, an address changes hands only through its being free,   *)
(* and a step changes the addresses of one account at most.                *)
THEOREM ImplementsLeases == Spec => LeaseSpec
<1>1. IInv /\ IInv' /\ [Next]_vars => [Leases!Next]_Held
  BY NextLeases
<1>2. Init => Leases!Init
  BY InitLeases
<1> QED
  BY <1>1, <1>2, Invariance, PTL DEF Spec, LeaseSpec, Leases!Spec, Held

-----------------------------------------------------------------------------
(* What a step on one request leaves of the others: only their overlap     *)
(* flag, and that only goes down.                                          *)
SameRequest(q) ==
  /\ create'[q].pc = create[q].pc /\ create'[q].peer = create[q].peer
  /\ create'[q].key = create[q].key /\ create'[q].bit = create[q].bit
  /\ create'[q].old = create[q].old /\ create'[q].tries = create[q].tries
  /\ create'[q].alone => create[q].alone

Disturbed(q) == create'[q].pc \in HandlerPCs => ~create'[q].alone

LEMMA OverlapDisturbs ==
  ASSUME NEW rec \in CreateRecords
  PROVE  /\ Overlapped(rec).pc = rec.pc /\ Overlapped(rec).peer = rec.peer
         /\ Overlapped(rec).key = rec.key /\ Overlapped(rec).bit = rec.bit
         /\ Overlapped(rec).old = rec.old /\ Overlapped(rec).tries = rec.tries
         /\ Overlapped(rec).alone => rec.alone
         /\ Overlapped(rec).pc \in HandlerPCs => ~Overlapped(rec).alone
<1>1. CASE rec.pc \in HandlerPCs
  BY <1>1 DEF Overlapped, CreateRecords
<1>2. CASE rec.pc \notin HandlerPCs
  BY <1>2 DEF Overlapped
<1> QED
  BY <1>1, <1>2

LEMMA RequestEdited ==
  ASSUME CreatesOK, NEW r \in Creates, NEW rec, create' = [create EXCEPT ![r] = rec]
  PROVE  create'[r] = rec /\ \A q \in Creates \ {r} : SameRequest(q)
BY DEF CreatesOK, SameRequest

LEMMA RequestWrites ==
  ASSUME CreatesOK, NEW r \in Creates, NEW rec, Write(r, rec)
  PROVE  /\ create'[r] = rec
         /\ \A q \in Creates \ {r} : SameRequest(q) /\ Disturbed(q)
<1>1. \A q \in Creates \ {r} : create'[q] = Overlapped(create[q]) /\ create[q] \in CreateRecords
  BY DEF CreatesOK, Write
<1> QED
  BY <1>1, OverlapDisturbs DEF Write, SameRequest, Disturbed

LEMMA OtherWrites ==
  ASSUME CreatesOK, WriteByOther
  PROVE  \A q \in Creates : SameRequest(q) /\ Disturbed(q)
<1>1. \A q \in Creates : create'[q] = Overlapped(create[q]) /\ create[q] \in CreateRecords
  BY DEF CreatesOK, WriteByOther
<1> QED
  BY <1>1, OverlapDisturbs DEF SameRequest, Disturbed

LEMMA NobodyWrites ==
  ASSUME UNCHANGED create
  PROVE  \A q \in Creates : SameRequest(q)
BY DEF SameRequest

(* The steps of the allocation loop as edits of one record.                *)
LEMMA LoopEdits ==
  ASSUME CreatesOK, NEW r \in Creates
  PROVE  /\ \A b : create' = [create EXCEPT ![r].pc = "setbit", ![r].bit = b]
              => create' = [create EXCEPT ![r] = [create[r] EXCEPT !.pc = "setbit", !.bit = b]]
         /\ CandidateUsed(r)
              => create' = [create EXCEPT ![r] =
                   [create[r] EXCEPT !.pc = "bitpos", !.tries = @ + 1, !.bit = None]]
         /\ CandidateFree(r)
              => create' = [create EXCEPT ![r] =
                   [create[r] EXCEPT !.pc = "insert", !.tries = 0]]
         /\ \A pc : Goto(r, pc)
              => create' = [create EXCEPT ![r] = [create[r] EXCEPT !.pc = pc]]
<1>1. create[r] \in CreateRecords /\ create \in [Creates -> CreateRecords]
  BY DEF CreatesOK
<1>2. \A b : create' = [create EXCEPT ![r].pc = "setbit", ![r].bit = b]
              => create' = [create EXCEPT ![r] = [create[r] EXCEPT !.pc = "setbit", !.bit = b]]
  BY <1>1 DEF CreateRecords
<1>3. CandidateUsed(r)
        => create' = [create EXCEPT ![r] =
             [create[r] EXCEPT !.pc = "bitpos", !.tries = @ + 1, !.bit = None]]
  BY <1>1 DEF CandidateUsed, CreateRecords
<1>4. CandidateFree(r)
        => create' = [create EXCEPT ![r] = [create[r] EXCEPT !.pc = "insert", !.tries = 0]]
  BY <1>1 DEF CandidateFree, CreateRecords
<1>5. \A pc : Goto(r, pc)
        => create' = [create EXCEPT ![r] = [create[r] EXCEPT !.pc = pc]]
  BY <1>1 DEF Goto, CreateRecords
<1> QED
  BY <1>2, <1>3, <1>4, <1>5

-----------------------------------------------------------------------------
(* A create that nobody overlapped has marked, or found marked, every bit  *)
(* below the one it is at, one more with every attempt, and what it found  *)
(* free in the table is still free.                                        *)
LoneCreate(r) ==
  create[r].alone =>
    /\ create[r].pc = "bitpos"
         => \A c \in Nat : c < create[r].tries => c \in bitmap[ServerOf(create[r].peer)]
    /\ create[r].pc = "setbit"
         => /\ create[r].tries <= create[r].bit
            /\ \A c \in Nat : c < create[r].bit => c \in bitmap[ServerOf(create[r].peer)]
    /\ create[r].pc = "check"
         => \A c \in Nat : c <= create[r].tries => c \in bitmap[ServerOf(create[r].peer)]
    /\ create[r].pc = "insert"
         => ~IsActiveIPAssigned(ServerOf(create[r].peer), create[r].bit)

LoneCreates == \A r \in Creates : LoneCreate(r)

LEMMA LoneUndisturbed ==
  ASSUME NEW q \in Creates, LoneCreate(q), SameRequest(q),
         peers' = peers, bitmap' = bitmap
  PROVE  LoneCreate(q)'
BY DEF LoneCreate, SameRequest, IsActiveIPAssigned, Live

LEMMA LoneNoMore ==
  ASSUME NEW q \in Creates, Disturbed(q)
  PROVE  LoneCreate(q)'
BY DEF LoneCreate, Disturbed, HandlerPCs

LEMMA LoneElsewhere ==
  ASSUME NEW q \in Creates, create'[q].pc \notin {"bitpos", "setbit", "check", "insert"}
  PROVE  LoneCreate(q)'
BY DEF LoneCreate

LEMMA LoneCreateStep ==
  ASSUME CreatesOK, OthersOK, LoneCreates, NEW r \in Creates, CreateStep(r)
  PROVE  LoneCreates'
<1> DEFINE rec == create[r]
           s == ServerOf(rec.peer)
<1>0. /\ rec \in CreateRecords /\ RequestFits(rec, WrittenRows) /\ LoneCreate(r)
      /\ \A q \in Creates : LoneCreate(q)
  BY DEF CreatesOK, LoneCreates
<1>1. ASSUME NEW new, create' = [create EXCEPT ![r] = new], peers' = peers, bitmap' = bitmap,
             new.pc \notin {"bitpos", "setbit", "check", "insert"}
      PROVE  LoneCreates'
  BY <1>0, <1>1, RequestEdited, LoneUndisturbed, LoneElsewhere DEF LoneCreates
<1>2. ASSUME NEW new, Write(r, new), new.pc \notin {"bitpos", "setbit", "check", "insert"}
      PROVE  LoneCreates'
  BY <1>0, <1>2, RequestWrites, LoneNoMore, LoneElsewhere DEF LoneCreates
<1>3. ASSUME NEW p \in Peers, NEW k \in Keys, Admit(r, p, k)
      PROVE  LoneCreates'
  <2> DEFINE new == [IdleCreate EXCEPT !.pc = "bitpos", !.peer = p, !.key = k,
                                       !.old = IF Live(p) THEN peers[p] ELSE AbsentRow]
  <2>1. create' = [create EXCEPT ![r] = new] /\ peers' = peers /\ bitmap' = bitmap
    BY <1>3 DEF Admit
  <2>2. new.pc = "bitpos" /\ new.tries = 0
    BY DEF IdleCreate
  <2> HIDE DEF new
  <2>a. \A c \in Nat : ~(c < 0)
    OBVIOUS
  <2>b. create'[r] = new
    BY <2>1, RequestEdited
  <2>3. LoneCreate(r)'
    BY <2>2, <2>a, <2>b DEF LoneCreate
  <2> QED
    BY <1>0, <2>1, <2>3, RequestEdited, LoneUndisturbed DEF LoneCreates
<1>4. ASSUME FindClearBit(r)
      PROVE  LoneCreates'
  <2>1. PICK b \in Bits : /\ FirstClearBit(s, b)
                          /\ create' = [create EXCEPT ![r].pc = "setbit", ![r].bit = b]
    BY <1>4 DEF FindClearBit, PoolBits
  <2> DEFINE new == [rec EXCEPT !.pc = "setbit", !.bit = b]
  <2>2. create' = [create EXCEPT ![r] = new] /\ peers' = peers /\ bitmap' = bitmap
    BY <1>4, <2>1, LoopEdits DEF FindClearBit
  <2>3. /\ new.pc = "setbit" /\ new.tries = rec.tries /\ new.bit = b /\ new.peer = rec.peer
        /\ new.alone = rec.alone
    BY <1>0 DEF CreateRecords
  <2>4. b \in Nat /\ b \notin bitmap[s] /\ \A c \in Nat : c < b => c \in bitmap[s]
    BY <2>1, BoundsAssumption DEF FirstClearBit, Bits
  <2>5. rec.pc = "bitpos" /\ rec.tries \in Nat
    BY <1>0, <1>4 DEF FindClearBit, CreateRecords
  <2>6. rec.alone => rec.tries <= b
    BY <1>0, <2>4, <2>5 DEF LoneCreate
  <2> HIDE DEF new
  <2>7. create'[r] = new
    BY <2>2, RequestEdited
  <2>8. LoneCreate(r)'
    BY <2>2, <2>3, <2>4, <2>6, <2>7 DEF LoneCreate
  <2> QED
    BY <1>0, <2>2, <2>8, RequestEdited, LoneUndisturbed DEF LoneCreates
<1>5. ASSUME MarkBit(r)
      PROVE  LoneCreates'
  <2> DEFINE new == [create[r] EXCEPT !.pc = "check"]
  <2>1. Write(r, new) /\ bitmap' = [bitmap EXCEPT ![s] = @ \cup {rec.bit}] /\ rec.pc = "setbit"
    BY <1>5 DEF MarkBit
  <2>2. /\ new.pc = "check" /\ new.tries = rec.tries /\ new.peer = rec.peer
        /\ new.alone = rec.alone
    BY <1>0 DEF CreateRecords
  <2>3. s \in Servers /\ rec.bit \in Nat /\ rec.tries \in Nat
    BY <1>0, <2>1, PairShape, BoundsAssumption DEF RequestFits, CreateRecords, Bits
  <2>4. bitmap'[s] = bitmap[s] \cup {rec.bit}
    BY <2>1, <2>3 DEF OthersOK
  <2>5. rec.alone => \A c \in Nat : c <= rec.tries => c \in bitmap'[s]
    BY <1>0, <2>1, <2>3, <2>4 DEF LoneCreate
  <2> HIDE DEF new
  <2>6. create'[r] = new
    BY <2>1, RequestWrites
  <2>7. LoneCreate(r)'
    BY <2>2, <2>5, <2>6 DEF LoneCreate
  <2> QED
    BY <2>1, <2>7, RequestWrites, LoneNoMore DEF LoneCreates
<1>6. ASSUME CandidateUsed(r)
      PROVE  LoneCreates'
  <2> DEFINE new == [rec EXCEPT !.pc = "bitpos", !.tries = @ + 1, !.bit = None]
  <2>1. /\ create' = [create EXCEPT ![r] = new] /\ peers' = peers /\ bitmap' = bitmap
        /\ rec.pc = "check"
    BY <1>6, LoopEdits DEF CandidateUsed
  <2>2. /\ new.pc = "bitpos" /\ new.tries = rec.tries + 1 /\ new.peer = rec.peer
        /\ new.alone = rec.alone /\ rec.tries \in Nat
    BY <1>0 DEF CreateRecords
  <2> HIDE DEF new
  <2>3. create'[r] = new
    BY <2>1, RequestEdited
  <2>4. \A c \in Nat : c < rec.tries + 1 => c <= rec.tries
    BY <2>2
  <2>5. LoneCreate(r)'
    BY <1>0, <2>1, <2>2, <2>3, <2>4 DEF LoneCreate
  <2> QED
    BY <1>0, <2>1, <2>5, RequestEdited, LoneUndisturbed DEF LoneCreates
<1>7. ASSUME CandidateFree(r)
      PROVE  LoneCreates'
  <2> DEFINE new == [rec EXCEPT !.pc = "insert", !.tries = 0]
  <2>1. /\ create' = [create EXCEPT ![r] = new] /\ peers' = peers /\ bitmap' = bitmap
        /\ ~IsActiveIPAssigned(s, rec.bit)
    BY <1>7, LoopEdits DEF CandidateFree
  <2>2. new.pc = "insert" /\ new.peer = rec.peer /\ new.bit = rec.bit
    BY <1>0 DEF CreateRecords
  <2> HIDE DEF new
  <2>3. create'[r] = new
    BY <2>1, RequestEdited
  <2>4. LoneCreate(r)'
    BY <2>1, <2>2, <2>3 DEF LoneCreate, IsActiveIPAssigned, Live
  <2> QED
    BY <1>0, <2>1, <2>4, RequestEdited, LoneUndisturbed DEF LoneCreates
<1>8. ASSUME GiveUp(r) \/ Abandon(r)
      PROVE  LoneCreates'
  <2>1. IdleCreate.pc = "idle"
    BY DEF IdleCreate
  <2> QED
    BY <1>1, <1>8, <2>1 DEF GiveUp, Abandon, Finish
<1>9. ASSUME Insert(r)
      PROVE  LoneCreates'
  <2>1. FirstNotification(r).pc \in {"push_remove", "push_add"}
    BY <1>0 DEF FirstNotification, Notifying, IdleCreate, CreateRecords
  <2> QED
    BY <1>2, <1>9, <2>1 DEF Insert
<1>10. ASSUME InsertUnacknowledged(r)
       PROVE  LoneCreates'
  <2>1. [create[r] EXCEPT !.pc = "release"].pc = "release"
    BY <1>0 DEF CreateRecords
  <2> QED
    BY <1>2, <1>10, <2>1 DEF InsertUnacknowledged
<1>11. ASSUME DatabaseRefuses(r)
       PROVE  LoneCreates'
  <2> DEFINE new == [create[r] EXCEPT !.pc = "release"]
  <2>1. new.pc = "release"
    BY <1>0 DEF CreateRecords
  <2>2. create' = [create EXCEPT ![r] = new] /\ peers' = peers /\ bitmap' = bitmap
    BY <1>11, LoopEdits DEF DatabaseRefuses
  <2> HIDE DEF new
  <2> QED
    BY <1>1, <2>1, <2>2
<1>12. ASSUME PushAddDelivered(r)
       PROVE  LoneCreates'
  <2> DEFINE new == [create[r] EXCEPT !.pc = "reporting"]
  <2>1. new.pc = "reporting"
    BY <1>0 DEF CreateRecords
  <2>2. create' = [create EXCEPT ![r] = new] /\ peers' = peers /\ bitmap' = bitmap
    BY <1>12, LoopEdits DEF PushAddDelivered
  <2> HIDE DEF new
  <2> QED
    BY <1>1, <2>1, <2>2
<1>13. Notifying(r, "push_add").pc = "push_add"
  BY DEF Notifying, IdleCreate
<1>14. ASSUME PushRemoveDelivered(r)
       PROVE  LoneCreates'
  <2> DEFINE new == IF rec.old.bit # rec.bit THEN [rec EXCEPT !.pc = "free_old"]
                    ELSE Notifying(r, "push_add")
  <2>1. new.pc \in {"free_old", "push_add"}
    BY <1>0, <1>13 DEF CreateRecords
  <2>2. create' = [create EXCEPT ![r] = new] /\ peers' = peers /\ bitmap' = bitmap
    BY <1>14 DEF PushRemoveDelivered
  <2> HIDE DEF new
  <2> QED
    BY <1>1, <2>1, <2>2
<1>15. ASSUME FreeOldAddress(r)
       PROVE  LoneCreates'
  BY <1>2, <1>13, <1>15 DEF FreeOldAddress
<1>16. ASSUME ReleaseCandidate(r) \/ Report(r)
       PROVE  LoneCreates'
  <2>1. IdleCreate.pc = "idle"
    BY DEF IdleCreate
  <2> QED
    BY <1>2, <1>16, <2>1 DEF ReleaseCandidate, Report
<1> QED
  BY <1>3, <1>4, <1>5, <1>6, <1>7, <1>8, <1>9, <1>10, <1>11, <1>12, <1>14, <1>15, <1>16
     DEF CreateStep

LEMMA LoneStep ==
  ASSUME IInv, LoneCreates, [Next]_vars
  PROVE  LoneCreates'
<1>0. CreatesOK /\ OthersOK /\ \A q \in Creates : LoneCreate(q)
  BY IInvParts DEF LoneCreates
<1>1. ASSUME NEW d \in Deletes, DeleteStep(d)
      PROVE  LoneCreates'
  <2>1. CASE (\E p \in Peers : BeginDelete(d, p)) \/ DeleteFails(d)
    BY <1>0, <2>1, NobodyWrites, LoneUndisturbed DEF BeginDelete, DeleteFails, LoneCreates
  <2>2. CASE MarkRemoved(d) \/ ReleaseDeleted(d)
    BY <1>0, <2>2, OtherWrites, LoneNoMore DEF MarkRemoved, ReleaseDeleted, LoneCreates
  <2> QED
    BY <1>1, <2>1, <2>2 DEF DeleteStep
<1>2. CASE (\E s \in Servers : CatchUp(s)) \/ UNCHANGED vars
  BY <1>0, <1>2, NobodyWrites, LoneUndisturbed DEF CatchUp, vars, LoneCreates
<1>3. CASE (\E p \in Peers : ReportResync(p)) \/ RedisLoss
  BY <1>0, <1>3, OtherWrites, LoneNoMore DEF ReportResync, RedisLoss, LoneCreates
<1>4. CASE Crash
  <2>1. \A q \in Creates : create'[q].pc \in {"idle", "reporting"}
    BY <1>4 DEF Crash, IdleCreate
  <2> QED
    BY <2>1, LoneElsewhere DEF LoneCreates
<1> QED
  BY <1>0, <1>1, <1>2, <1>3, <1>4, LoneCreateStep DEF Next

(* TryLimit attempts reach every address: CreatePeer makes 254 of them for *)
(* the 254 bits of a subnet.  A create without company gives up only when  *)
(* every address is marked, and never meets the unique index.              *)
THEOREM UndisturbedCreatesSucceed ==
  ASSUME TryLimit > LastBit
  PROVE  Spec => UndisturbedCreateSucceeds
<1>1. Init => LoneCreates
  BY DEF Init, LoneCreates, LoneCreate, IdleCreate
<1>2. IInv /\ LoneCreates /\ [Next]_vars => LoneCreates'
  BY LoneStep
<1>3. ASSUME IInv, LoneCreates, NEW r \in Creates, create[r].alone, GiveUp(r) \/ InsertConflict(r)
      PROVE  ~SomeAddressIsFree(ServerOf(create[r].peer))
  <2> DEFINE s == ServerOf(create[r].peer)
  <2>0. CreatesOK /\ LoneCreate(r) /\ create[r].tries \in Nat
    BY <1>3, IInvParts DEF LoneCreates, CreatesOK, CreateRecords
  <2>1. CASE create[r].pc = "bitpos" /\ GiveUp(r)
    BY <2>1 DEF GiveUp, NoAddressLeft, PoolBits, SomeAddressIsFree
  <2>2. CASE create[r].pc = "check" /\ GiveUp(r)
    <3>1. create[r].tries + 1 >= TryLimit
      BY <2>2 DEF GiveUp, NoAddressLeft
    <3>2. \A c \in Bits : c \in Nat /\ c <= create[r].tries
      BY <2>0, <3>1, BoundsAssumption DEF Bits
    <3> QED
      BY <1>3, <2>0, <2>2, <3>2 DEF LoneCreate, SomeAddressIsFree
  <2>3. CASE InsertConflict(r)
    BY <1>3, <2>0, <2>3 DEF InsertConflict, UniqueIndexAdmits, LoneCreate, IsActiveIPAssigned
  <2> QED
    BY <1>3, <2>1, <2>2, <2>3 DEF GiveUp, NoAddressLeft
<1>4. IInv /\ LoneCreates /\ [Next]_vars
        => [\A r \in Creates : (create[r].alone /\ (GiveUp(r) \/ InsertConflict(r)))
               => ~SomeAddressIsFree(ServerOf(create[r].peer))]_vars
  BY <1>3
<1> QED
  BY <1>1, <1>2, <1>4, Invariance, PTL DEF Spec, UndisturbedCreateSucceeds

-----------------------------------------------------------------------------
(* Where marked addresses are: with clients that wait for their answers    *)
(* and generate a key per connection, and the faults below excluded.       *)

(* The conditions that NoLeakAtRest is stated for: a reply that is lost, a *)
(* push that fails, a cancelled context or a crash leaves an address       *)
(* marked, and a late report revives a row without marking one.            *)
LeakingFaults == {"crash", "cancel", "push_fail", "lost_commit", "late_report"}
CarefulClients ==
  SerialClients /\ FreshKeys /\ Faults \cap LeakingFaults = {}

CreateOn(r, a) == create[r].pc \in HandlerPCs /\ AccountOf(create[r].peer) = a
DeleteOn(d, a) == delete[d].pc # "idle" /\ AccountOf(delete[d].peer) = a

(* An account has one request in progress.                                 *)
OneRequest ==
  /\ \A r, q \in Creates, a \in Accounts : CreateOn(r, a) /\ CreateOn(q, a) => r = q
  /\ \A d, e \in Deletes, a \in Accounts : DeleteOn(d, a) /\ DeleteOn(e, a) => d = e
  /\ \A r \in Creates, d \in Deletes, a \in Accounts : ~(CreateOn(r, a) /\ DeleteOn(d, a))

(* What a request read of its row before it writes that row still holds:   *)
(* a create knows the address it will supersede, under another key, and a  *)
(* delete the one that it will release.                                    *)
CreateKnows(r) ==
  (create[r].pc \in HandlerPCs /\ Live(create[r].peer))
     => /\ create[r].old.status # "absent"
        /\ create[r].old.key # create[r].key
        /\ create[r].old.bit = peers[create[r].peer].bit
DeleteKnows(d) ==
  delete[d].pc = "remove" => delete[d].old.bit = peers[delete[d].peer].bit
RowsKnown == (\A r \in Creates : CreateKnows(r)) /\ (\A d \in Deletes : DeleteKnows(d))

(* The request has marked b and has not inserted it, or superseded the row *)
(* that had b and will release it.                                         *)
Carries(r, s, b) ==
  /\ ServerOf(create[r].peer) = s
  /\ \/ create[r].pc \in {"check", "insert", "release"} /\ create[r].bit = b
     \/ create[r].pc = "push_remove" /\ create[r].old.bit = b /\ create[r].bit # b
     \/ create[r].pc = "free_old" /\ create[r].old.bit = b
Returns(d, s, b) ==
  delete[d].pc = "release" /\ ServerOf(delete[d].peer) = s /\ delete[d].old.bit = b

Accounted(s, b) ==
  \/ IsActiveIPAssigned(s, b)
  \/ \E r \in Creates : Carries(r, s, b)
  \/ \E d \in Deletes : Returns(d, s, b)
MarksAccounted == \A s \in Servers : \A b \in bitmap[s] : Accounted(s, b)

LeakInv == OneRequest /\ RowsKnown /\ MarksAccounted

(* A step that starts no request leaves each one as it was or closer to    *)
(* its end.                                                                *)
CreateGoesOn(q) ==
  create'[q].pc \in HandlerPCs
    => /\ create[q].pc \in HandlerPCs
       /\ create'[q].peer = create[q].peer
       /\ create'[q].key = create[q].key
       /\ create'[q].old = create[q].old
DeleteGoesOn(e) ==
  delete'[e].pc # "idle"
    => /\ delete[e].pc # "idle"
       /\ delete'[e].peer = delete[e].peer
       /\ delete'[e].old = delete[e].old
       /\ delete'[e].pc = "remove" => delete[e].pc = "remove"

LEMMA OneRequestStays ==
  ASSUME OneRequest, \A q \in Creates : CreateGoesOn(q), \A e \in Deletes : DeleteGoesOn(e)
  PROVE  OneRequest'
<1>1. \A q \in Creates, a \in Accounts : CreateOn(q, a)' => CreateOn(q, a)
  BY DEF CreateOn, CreateGoesOn
<1>2. \A e \in Deletes, a \in Accounts : DeleteOn(e, a)' => DeleteOn(e, a)
  BY DEF DeleteOn, DeleteGoesOn
<1> QED
  BY <1>1, <1>2 DEF OneRequest

(* Row p keeps its address and does not become live.                       *)
RowGoesOn(p) ==
  /\ peers'[p].status \in {"pending", "active"} => Live(p)
  /\ peers'[p].bit = peers[p].bit

LEMMA CreateStillKnows ==
  ASSUME NEW q \in Creates, CreateKnows(q), CreateGoesOn(q),
         create'[q].pc \in HandlerPCs => RowGoesOn(create[q].peer)
  PROVE  CreateKnows(q)'
<1> SUFFICES ASSUME create'[q].pc \in HandlerPCs, Live(create[q].peer)'
             PROVE  /\ create'[q].old.status # "absent"
                    /\ create'[q].old.key # create'[q].key
                    /\ create'[q].old.bit = peers'[create'[q].peer].bit
  BY DEF CreateKnows, Live, HandlerPCs
<1>1. /\ create[q].pc \in HandlerPCs /\ create'[q].peer = create[q].peer
      /\ create'[q].key = create[q].key /\ create'[q].old = create[q].old
  BY DEF CreateGoesOn
<1>2. Live(create[q].peer) /\ peers'[create[q].peer].bit = peers[create[q].peer].bit
  BY <1>1 DEF RowGoesOn, Live
<1> QED
  BY <1>1, <1>2 DEF CreateKnows

LEMMA DeleteStillKnows ==
  ASSUME NEW e \in Deletes, DeleteKnows(e), DeleteGoesOn(e),
         delete'[e].pc = "remove" => RowGoesOn(delete[e].peer)
  PROVE  DeleteKnows(e)'
BY DEF DeleteKnows, DeleteGoesOn, RowGoesOn

LEMMA RowsStillKnown ==
  ASSUME IInv, RowsKnown, \A q \in Creates : CreateGoesOn(q),
         \A e \in Deletes : DeleteGoesOn(e), \A p \in Peers : RowGoesOn(p)
  PROVE  RowsKnown'
<1>1. \A q \in Creates : create[q].pc \in HandlerPCs => create[q].peer \in Peers
  BY IInvParts DEF CreatesOK, RequestFits, HandlerPCs
<1>2. \A e \in Deletes : delete[e].pc # "idle" => delete[e].peer \in Peers
  BY IInvParts DEF OthersOK, WrittenRows
<1>3. \A q \in Creates : CreateKnows(q)'
  BY <1>1, CreateStillKnows DEF RowsKnown, CreateGoesOn
<1>4. \A e \in Deletes : DeleteKnows(e)'
  BY <1>2, DeleteStillKnows DEF RowsKnown, DeleteGoesOn
<1> QED
  BY <1>3, <1>4 DEF RowsKnown

(* No address loses the row or the request that accounts for it.           *)
AccountsStay(s, b) ==
  /\ IsActiveIPAssigned(s, b) => Accounted(s, b)'
  /\ \A r \in Creates : Carries(r, s, b) => Accounted(s, b)'
  /\ \A d \in Deletes : Returns(d, s, b) => Accounted(s, b)'

LEMMA MarksStay ==
  ASSUME MarksAccounted,
         \A s \in Servers : \A b \in bitmap'[s] :
            Accounted(s, b)' \/ (b \in bitmap[s] /\ AccountsStay(s, b))
  PROVE  MarksAccounted'
BY Zenon DEF MarksAccounted, Accounted, AccountsStay

LEMMA AssignedStays ==
  ASSUME NEW s \in Servers, NEW b, IsActiveIPAssigned(s, b),
         \A p \in Peers : Live(p) => Live(p)' /\ peers'[p].bit = peers[p].bit
  PROVE  Accounted(s, b)'
<1>1. IsActiveIPAssigned(s, b)'
  BY DEF IsActiveIPAssigned
<1> QED
  BY <1>1 DEF Accounted

LEMMA CarrierStays ==
  ASSUME NEW s \in Servers, NEW b, NEW q \in Creates, Carries(q, s, b), SameRequest(q)
  PROVE  Accounted(s, b)'
<1>1. Carries(q, s, b)'
  BY DEF Carries, SameRequest
<1> QED
  BY <1>1 DEF Accounted

LEMMA ReturnerStays ==
  ASSUME NEW s \in Servers, NEW b, NEW e \in Deletes, Returns(e, s, b), delete'[e] = delete[e]
  PROVE  Accounted(s, b)'
<1>1. Returns(e, s, b)'
  BY DEF Returns
<1> QED
  BY <1>1 DEF Accounted

LEMMA SameGoesOn ==
  ASSUME NEW q \in Creates, SameRequest(q)
  PROVE  CreateGoesOn(q)
BY DEF CreateGoesOn, SameRequest

LEMMA DeletesUntouched ==
  ASSUME UNCHANGED delete
  PROVE  \A e \in Deletes : DeleteGoesOn(e)
BY DEF DeleteGoesOn

(* The rows that are live, and their addresses, are what they were.        *)
RowsSteady == \A p \in Peers : RowGoesOn(p) /\ (Live(p) => Live(p)')

LEMMA RowsUntouched ==
  ASSUME UNCHANGED peers
  PROVE  RowsSteady
BY DEF RowsSteady, RowGoesOn, Live

LEMMA ActivatingSteady ==
  ASSUME IInv, NEW p \in Peers, Live(p), MarkPeerActive(p)
  PROVE  RowsSteady
<1>1. peers \in [Peers -> Rows]
  BY IInvParts DEF TableOK
<1>2. \A q \in Peers : /\ peers'[q].bit = peers[q].bit
                       /\ peers'[q].status = peers[q].status \/ (q = p /\ peers'[q].status = "active")
  BY <1>1 DEF MarkPeerActive, Rows
<1> QED
  BY <1>2 DEF RowsSteady, RowGoesOn, Live

(* Steps that leave the rows alone, edit one create and take no bit away   *)
(* from anybody: what is left to show is about that request alone.         *)
LEMMA RequestMoves ==
  ASSUME NEW r \in Creates, NEW new, IInv, LeakInv,
         create' = [create EXCEPT ![r] = new] \/ Write(r, new),
         RowsSteady, delete' = delete,
         CreateGoesOn(r),
         \A s \in Servers : \A b \in bitmap'[s] : b \in bitmap[s] \/ Accounted(s, b)',
         \A s \in Servers : \A b \in bitmap'[s] : Carries(r, s, b) => Accounted(s, b)'
  PROVE  LeakInv'
<1>0. CreatesOK
  BY IInvParts
<1>1. \A q \in Creates \ {r} : SameRequest(q)
  BY <1>0, RequestEdited, RequestWrites
<1>2. \A q \in Creates : CreateGoesOn(q)
  BY <1>1, SameGoesOn
<1>3. OneRequest'
  BY <1>2, OneRequestStays, DeletesUntouched DEF LeakInv
<1>4. RowsKnown'
  BY <1>2, RowsStillKnown, DeletesUntouched DEF LeakInv, RowsSteady
<1>5. ASSUME NEW s \in Servers, NEW b \in bitmap'[s]
      PROVE  Accounted(s, b)' \/ (b \in bitmap[s] /\ AccountsStay(s, b))
  <2>1. IsActiveIPAssigned(s, b) => Accounted(s, b)'
    BY AssignedStays DEF RowsSteady, RowGoesOn
  <2>2. \A q \in Creates : Carries(q, s, b) => Accounted(s, b)'
    BY <1>1, <1>5, CarrierStays
  <2>3. \A e \in Deletes : Returns(e, s, b) => Accounted(s, b)'
    BY ReturnerStays
  <2> QED
    BY <1>5, <2>1, <2>2, <2>3 DEF AccountsStay
<1>6. MarksAccounted'
  BY <1>5, MarksStay DEF LeakInv
<1> QED
  BY <1>3, <1>4, <1>6 DEF LeakInv

(* A step of a create other than its first statement and its insert.       *)
LEMMA CreateMoves ==
  ASSUME NEW r \in Creates, CarefulClients, IInv, LeakInv,
         \/ FindClearBit(r) \/ MarkBit(r) \/ CandidateUsed(r) \/ CandidateFree(r)
         \/ GiveUp(r) \/ DatabaseRefuses(r) \/ ReleaseCandidate(r) \/ Abandon(r)
         \/ PushRemoveDelivered(r) \/ FreeOldAddress(r) \/ PushAddDelivered(r) \/ Report(r)
  PROVE  LeakInv'
<1> DEFINE rec == create[r]
           t == ServerOf(rec.peer)
<1>0. /\ rec \in CreateRecords /\ RequestFits(rec, WrittenRows)
      /\ CreatesOK /\ OthersOK /\ TableOK
  BY IInvParts DEF CreatesOK
<1>i. IdleCreate.pc = "idle" /\ Notifying(r, "push_add").pc = "push_add"
  BY DEF Notifying, IdleCreate
<1>1. ASSUME NEW new, create' = [create EXCEPT ![r] = new], peers' = peers,
             delete' = delete, bitmap' = bitmap, CreateGoesOn(r),
             \A s \in Servers : \A b \in bitmap[s] : Carries(r, s, b) => Accounted(s, b)'
      PROVE  LeakInv'
  BY <1>1, RequestMoves, RowsUntouched
<1>2. CASE FindClearBit(r)
  <2>1. PICK b \in Bits : create' = [create EXCEPT ![r].pc = "setbit", ![r].bit = b]
    BY <1>2 DEF FindClearBit, PoolBits
  <2> DEFINE new == [rec EXCEPT !.pc = "setbit", !.bit = b]
  <2>2. create' = [create EXCEPT ![r] = new]
    BY <1>0, <2>1, LoopEdits
  <2>3. create'[r] = new
    BY <1>0, <2>2, RequestEdited
  <2>4. rec.pc = "bitpos" /\ peers' = peers /\ delete' = delete /\ bitmap' = bitmap
    BY <1>2 DEF FindClearBit
  <2>5. CreateGoesOn(r)
    BY <1>0, <2>3, <2>4 DEF CreateGoesOn, CreateRecords, HandlerPCs
  <2>6. \A s, c : ~Carries(r, s, c)
    BY <2>4 DEF Carries
  <2> HIDE DEF new
  <2> QED
    BY <1>1, <2>2, <2>4, <2>5, <2>6
<1>3. CASE MarkBit(r)
  <2> DEFINE new == [create[r] EXCEPT !.pc = "check"]
  <2>1. /\ Write(r, new) /\ bitmap' = [bitmap EXCEPT ![t] = @ \cup {rec.bit}]
        /\ rec.pc = "setbit" /\ peers' = peers /\ delete' = delete
    BY <1>3 DEF MarkBit
  <2>2. create'[r] = new
    BY <1>0, <2>1, RequestWrites
  <2>3. CreateGoesOn(r)
    BY <1>0, <2>1, <2>2 DEF CreateGoesOn, CreateRecords, HandlerPCs
  <2>4. \A s, b : ~Carries(r, s, b)
    BY <2>1 DEF Carries
  <2>5. \A s \in Servers : \A b \in bitmap'[s] : b \in bitmap[s] \/ (s = t /\ b = rec.bit)
    BY <1>0, <2>1 DEF OthersOK
  <2>7. \A s \in Servers : \A b \in bitmap'[s] : b \in bitmap[s] \/ Accounted(s, b)'
    <3> SUFFICES ASSUME NEW s \in Servers, NEW b \in bitmap'[s], b \notin bitmap[s]
                 PROVE  Accounted(s, b)'
      OBVIOUS
    <3>1. s = t /\ b = rec.bit
      BY <2>5
    <3>2. Carries(r, s, b)'
      BY <1>0, <2>2, <3>1 DEF Carries, CreateRecords
    <3> QED
      BY <3>2 DEF Accounted
  <2> HIDE DEF new
  <2> QED
    BY <2>1, <2>3, <2>4, <2>7, RequestMoves, RowsUntouched
<1>4. CASE CandidateUsed(r)
  <2> DEFINE new == [rec EXCEPT !.pc = "bitpos", !.tries = @ + 1, !.bit = None]
  <2>1. create' = [create EXCEPT ![r] = new]
    BY <1>0, <1>4, LoopEdits
  <2>2. create'[r] = new
    BY <1>0, <2>1, RequestEdited
  <2>3. /\ rec.pc = "check" /\ peers' = peers /\ delete' = delete /\ bitmap' = bitmap
        /\ IsActiveIPAssigned(t, rec.bit)
    BY <1>4 DEF CandidateUsed
  <2>4. CreateGoesOn(r)
    BY <1>0, <2>2, <2>3 DEF CreateGoesOn, CreateRecords, HandlerPCs
  <2>5. \A s \in Servers : \A b : Carries(r, s, b) => IsActiveIPAssigned(s, b)
    BY <2>3 DEF Carries
  <2>6. \A s \in Servers : \A b : Carries(r, s, b) => Accounted(s, b)'
    BY <2>3, <2>5, AssignedStays, RowsUntouched DEF RowsSteady, RowGoesOn
  <2> HIDE DEF new
  <2> QED
    BY <1>1, <2>1, <2>3, <2>4, <2>6
<1>5. CASE CandidateFree(r)
  <2> DEFINE new == [rec EXCEPT !.pc = "insert", !.tries = 0]
  <2>1. create' = [create EXCEPT ![r] = new]
    BY <1>0, <1>5, LoopEdits
  <2>2. create'[r] = new
    BY <1>0, <2>1, RequestEdited
  <2>3. rec.pc = "check" /\ peers' = peers /\ delete' = delete /\ bitmap' = bitmap
    BY <1>5 DEF CandidateFree
  <2>4. CreateGoesOn(r)
    BY <1>0, <2>2, <2>3 DEF CreateGoesOn, CreateRecords, HandlerPCs
  <2>5. \A s \in Servers : \A b : Carries(r, s, b) => Carries(r, s, b)'
    BY <1>0, <2>2, <2>3 DEF Carries, CreateRecords
  <2> HIDE DEF new
  <2> QED
    BY <1>1, <2>1, <2>3, <2>4, <2>5 DEF Accounted
<1>6. CASE GiveUp(r)
  <2>1. create' = [create EXCEPT ![r] = IdleCreate]
    BY <1>6 DEF GiveUp, Finish
  <2>2. create'[r] = IdleCreate
    BY <1>0, <2>1, RequestEdited
  <2>3. /\ peers' = peers /\ delete' = delete /\ bitmap' = bitmap
        /\ \/ rec.pc = "bitpos"
           \/ rec.pc = "check" /\ IsActiveIPAssigned(t, rec.bit)
    BY <1>6 DEF GiveUp, NoAddressLeft
  <2>4. CreateGoesOn(r)
    BY <1>i, <2>2 DEF CreateGoesOn, HandlerPCs
  <2>5. \A s \in Servers : \A b : Carries(r, s, b) => IsActiveIPAssigned(s, b)
    BY <2>3 DEF Carries
  <2>6. \A s \in Servers : \A b : Carries(r, s, b) => Accounted(s, b)'
    BY <2>3, <2>5, AssignedStays, RowsUntouched DEF RowsSteady, RowGoesOn
  <2> QED
    BY <1>1, <2>1, <2>3, <2>4, <2>6
<1>7. CASE DatabaseRefuses(r)
  <2> DEFINE new == [rec EXCEPT !.pc = "release"]
  <2>1. create' = [create EXCEPT ![r] = new]
    BY <1>0, <1>7, LoopEdits DEF DatabaseRefuses
  <2>2. create'[r] = new
    BY <1>0, <2>1, RequestEdited
  <2>3. rec.pc \in {"check", "insert"} /\ peers' = peers /\ delete' = delete /\ bitmap' = bitmap
    BY <1>7 DEF DatabaseRefuses, InsertConflict
  <2>4. CreateGoesOn(r)
    BY <1>0, <2>2, <2>3 DEF CreateGoesOn, CreateRecords, HandlerPCs
  <2>5. \A s \in Servers : \A b : Carries(r, s, b) => Carries(r, s, b)'
    BY <1>0, <2>2, <2>3 DEF Carries, CreateRecords
  <2> HIDE DEF new
  <2> QED
    BY <1>1, <2>1, <2>3, <2>4, <2>5 DEF Accounted
<1>8. CASE ReleaseCandidate(r)
  <2>1. /\ Write(r, IdleCreate) /\ rec.pc = "release" /\ peers' = peers /\ delete' = delete
        /\ bitmap' = [bitmap EXCEPT ![t] = @ \ {rec.bit}]
    BY <1>8 DEF ReleaseCandidate, UnmarkCandidate
  <2>2. create'[r] = IdleCreate
    BY <1>0, <2>1, RequestWrites
  <2>3. CreateGoesOn(r)
    BY <1>i, <2>2 DEF CreateGoesOn, HandlerPCs
  <2>4. \A s \in Servers : \A b \in bitmap'[s] : b \in bitmap[s] /\ ~(s = t /\ b = rec.bit)
    BY <1>0, <2>1 DEF OthersOK
  <2>5. \A s \in Servers : \A b \in bitmap'[s] : ~Carries(r, s, b)
    BY <2>1, <2>4 DEF Carries
  <2> QED
    BY <2>1, <2>3, <2>4, <2>5, RequestMoves, RowsUntouched
<1>9. CASE Abandon(r)
  <2>1. create' = [create EXCEPT ![r] = IdleCreate]
    BY <1>9 DEF Abandon, Finish
  <2>2. create'[r] = IdleCreate
    BY <1>0, <2>1, RequestEdited
  <2>3. rec.pc = "reporting" /\ peers' = peers /\ delete' = delete /\ bitmap' = bitmap
    BY <1>9 DEF Abandon, CarefulClients, LeakingFaults
  <2>4. CreateGoesOn(r)
    BY <1>i, <2>2 DEF CreateGoesOn, HandlerPCs
  <2>5. \A s, b : ~Carries(r, s, b)
    BY <2>3 DEF Carries
  <2> QED
    BY <1>1, <2>1, <2>3, <2>4, <2>5
<1>10. CASE PushRemoveDelivered(r)
  <2> DEFINE new == IF rec.old.bit # rec.bit THEN [rec EXCEPT !.pc = "free_old"]
                    ELSE Notifying(r, "push_add")
  <2>1. create' = [create EXCEPT ![r] = new]
    BY <1>10 DEF PushRemoveDelivered
  <2>2. create'[r] = new
    BY <1>0, <2>1, RequestEdited
  <2>3. rec.pc = "push_remove" /\ peers' = peers /\ delete' = delete /\ bitmap' = bitmap
    BY <1>10 DEF PushRemoveDelivered
  <2>4. new.pc \in {"free_old", "push_add"}
    BY <1>0, <1>i DEF CreateRecords
  <2>5. CreateGoesOn(r)
    BY <2>2, <2>4 DEF CreateGoesOn, HandlerPCs
  <2>6. ASSUME rec.old.bit # rec.bit
        PROVE  new.pc = "free_old" /\ new.old = rec.old /\ new.peer = rec.peer
    BY <1>0, <2>6 DEF CreateRecords
  <2>7. \A s \in Servers : \A b : Carries(r, s, b) => Carries(r, s, b)'
    BY <2>2, <2>3, <2>6 DEF Carries
  <2> HIDE DEF new
  <2> QED
    BY <1>1, <2>1, <2>3, <2>5, <2>7 DEF Accounted
<1>11. CASE FreeOldAddress(r)
  <2>1. /\ Write(r, Notifying(r, "push_add")) /\ rec.pc = "free_old"
        /\ peers' = peers /\ delete' = delete
        /\ bitmap' = [bitmap EXCEPT ![t] = @ \ {rec.old.bit}]
    BY <1>11 DEF FreeOldAddress, UnmarkOldBit
  <2>2. create'[r] = Notifying(r, "push_add")
    BY <1>0, <2>1, RequestWrites
  <2>3. CreateGoesOn(r)
    BY <1>i, <2>2 DEF CreateGoesOn, HandlerPCs
  <2>4. \A s \in Servers : \A b \in bitmap'[s] : b \in bitmap[s] /\ ~(s = t /\ b = rec.old.bit)
    BY <1>0, <2>1 DEF OthersOK
  <2>5. \A s \in Servers : \A b \in bitmap'[s] : ~Carries(r, s, b)
    BY <2>1, <2>4 DEF Carries
  <2> QED
    BY <2>1, <2>3, <2>4, <2>5, RequestMoves, RowsUntouched
<1>12. CASE PushAddDelivered(r)
  <2> DEFINE new == [rec EXCEPT !.pc = "reporting"]
  <2>1. create' = [create EXCEPT ![r] = new]
    BY <1>0, <1>12, LoopEdits DEF PushAddDelivered
  <2>a. create'[r] = new
    BY <1>0, <2>1, RequestEdited
  <2>2. create'[r].pc = "reporting"
    BY <1>0, <2>a DEF CreateRecords
  <2>3. rec.pc = "push_add" /\ peers' = peers /\ delete' = delete /\ bitmap' = bitmap
    BY <1>12 DEF PushAddDelivered
  <2>4. CreateGoesOn(r)
    BY <2>2 DEF CreateGoesOn, HandlerPCs
  <2>5. \A s, b : ~Carries(r, s, b)
    BY <2>3 DEF Carries
  <2> HIDE DEF new
  <2> QED
    BY <1>1, <2>1, <2>3, <2>4, <2>5
<1>13. CASE Report(r)
  <2>1. /\ Write(r, IdleCreate) /\ rec.pc = "reporting" /\ delete' = delete /\ bitmap' = bitmap
        /\ MarkPeerActive(rec.peer) /\ Live(rec.peer)
    BY <1>13 DEF Report, ReportMayArrive, CarefulClients, LeakingFaults
  <2>2. create'[r] = IdleCreate
    BY <1>0, <2>1, RequestWrites
  <2>3. CreateGoesOn(r)
    BY <1>i, <2>2 DEF CreateGoesOn, HandlerPCs
  <2>4. \A s, b : ~Carries(r, s, b)
    BY <2>1 DEF Carries
  <2>5. rec.peer \in Peers
    BY <1>0, <2>1 DEF RequestFits
  <2>6. RowsSteady
    BY <2>1, <2>5, ActivatingSteady
  <2> QED
    BY <2>1, <2>3, <2>4, <2>6, RequestMoves
<1> QED
  BY <1>2, <1>3, <1>4, <1>5, <1>6, <1>7, <1>8, <1>9, <1>10, <1>11, <1>12, <1>13

(* A serial client sends its request when it has none, with a fresh key:   *)
(* the row that the request reads is the one it will replace.              *)
LEMMA CreateEnters ==
  ASSUME NEW r \in Creates, NEW p \in Peers, NEW k \in Keys,
         CarefulClients, IInv, LeakInv, Admit(r, p, k)
  PROVE  LeakInv'
<1> DEFINE new == [IdleCreate EXCEPT !.pc = "bitpos", !.peer = p, !.key = k,
                                     !.old = IF Live(p) THEN peers[p] ELSE AbsentRow]
<1>0. CreatesOK /\ TableOK /\ OthersOK /\ OneRequest /\ RowsKnown /\ MarksAccounted
  BY IInvParts DEF LeakInv
<1>1. /\ create' = [create EXCEPT ![r] = new] /\ create[r].pc = "idle"
      /\ peers' = peers /\ delete' = delete /\ bitmap' = bitmap
  BY DEF Admit
<1>2. /\ new.pc = "bitpos" /\ new.peer = p /\ new.key = k
      /\ new.old = IF Live(p) THEN peers[p] ELSE AbsentRow
  BY DEF IdleCreate
<1> HIDE DEF new
<1>3. create'[r] = new /\ \A q \in Creates \ {r} : SameRequest(q)
  BY <1>0, <1>1, RequestEdited
<1>4. /\ \A q \in Creates : ~CreateOn(q, AccountOf(p))
      /\ \A d \in Deletes : ~DeleteOn(d, AccountOf(p))
  BY DEF Admit, ClientMaySend, AwaitsAnswer, CreateOn, DeleteOn, CarefulClients
<1>5. peers[p].key # k
  BY PairShape DEF Admit, CarefulClients
<1>6. OneRequest'
  <2>1. \A q \in Creates, a \in Accounts :
          CreateOn(q, a)' => CreateOn(q, a) \/ (q = r /\ a = AccountOf(p))
    BY <1>2, <1>3 DEF CreateOn, SameRequest
  <2>2. \A d \in Deletes, a \in Accounts : DeleteOn(d, a)' <=> DeleteOn(d, a)
    BY <1>1 DEF DeleteOn
  <2> QED
    BY <1>0, <1>4, <2>1, <2>2 DEF OneRequest
<1>7. RowsKnown'
  <2>1. \A q \in Creates \ {r} : CreateKnows(q)'
    BY <1>0, <1>1, <1>3 DEF RowsKnown, CreateKnows, SameRequest, Live
  <2>2. CreateKnows(r)'
    BY <1>1, <1>2, <1>3, <1>5 DEF CreateKnows, Live
  <2>3. \A d \in Deletes : DeleteKnows(d)'
    BY <1>0, <1>1 DEF RowsKnown, DeleteKnows
  <2> QED
    BY <2>1, <2>2, <2>3 DEF RowsKnown
<1>8. MarksAccounted'
  <2>1. ASSUME NEW s \in Servers, NEW b \in bitmap[s]
        PROVE  AccountsStay(s, b)
    <3>1. \A q \in Creates : Carries(q, s, b) => Accounted(s, b)'
      <4>1. ~Carries(r, s, b)
        BY <1>1 DEF Carries
      <4> QED
        BY <1>3, <4>1, CarrierStays
    <3>2. IsActiveIPAssigned(s, b) => Accounted(s, b)'
      BY <1>1, AssignedStays, RowsUntouched DEF RowsSteady, RowGoesOn
    <3>3. \A d \in Deletes : Returns(d, s, b) => Accounted(s, b)'
      BY <1>1, ReturnerStays
    <3> QED
      BY <3>1, <3>2, <3>3 DEF AccountsStay
  <2> QED
    BY <1>0, <1>1, <2>1, MarksStay
<1> QED
  BY <1>6, <1>7, <1>8 DEF LeakInv

(* The row that a create replaces passes its address on to the create's    *)
(* goroutine, which will release it.                                       *)
LEMMA CreateInserts ==
  ASSUME NEW r \in Creates, IInv, LeakInv, Insert(r)
  PROVE  LeakInv'
<1> DEFINE rec == create[r]
           p == rec.peer
           new == FirstNotification(r)
<1>0. /\ CreatesOK /\ TableOK /\ OthersOK /\ OneRequest /\ RowsKnown /\ MarksAccounted
      /\ rec \in CreateRecords /\ RequestFits(rec, WrittenRows) /\ peers \in [Peers -> Rows]
  BY IInvParts DEF LeakInv, CreatesOK, TableOK
<1>1. /\ Write(r, new) /\ rec.pc = "insert" /\ delete' = delete /\ bitmap' = bitmap
      /\ peers' = [peers EXCEPT ![p] = [status |-> "pending", key |-> rec.key, bit |-> rec.bit]]
  BY DEF Insert, WriteRow
<1>2. p \in Peers /\ CreateOn(r, AccountOf(p)) /\ AccountOf(p) \in Accounts
  BY <1>0, <1>1, PairShape DEF RequestFits, CreateOn, HandlerPCs
<1>3. create'[r] = new /\ \A q \in Creates \ {r} : SameRequest(q)
  BY <1>0, <1>1, RequestWrites
<1>4. /\ new.pc \in {"push_remove", "push_add"}
      /\ rec.old.status # "absent" /\ rec.old.key # rec.key
           => /\ new.pc = "push_remove" /\ new.old = rec.old
              /\ new.peer = p /\ new.bit = rec.bit
  BY <1>0 DEF FirstNotification, Notifying, IdleCreate, CreateRecords
<1>5. /\ peers'[p].status = "pending" /\ peers'[p].bit = rec.bit
      /\ \A q \in Peers : q # p => peers'[q] = peers[q]
  BY <1>0, <1>1, <1>2
<1>6. \A q \in Creates : CreateGoesOn(q)
  <2>1. CreateGoesOn(r)
    BY <1>3, <1>4 DEF CreateGoesOn, HandlerPCs
  <2> QED
    BY <1>3, <2>1, SameGoesOn
<1>7. OneRequest'
  BY <1>0, <1>1, <1>6, OneRequestStays, DeletesUntouched
<1>8. RowsKnown'
  <2>1. ASSUME NEW q \in Creates
        PROVE  CreateKnows(q)'
    <3>1. create'[q].pc \in HandlerPCs => q # r /\ create[q].pc \in HandlerPCs
      BY <1>3, <1>4, <1>6 DEF CreateGoesOn, HandlerPCs
    <3>2. create'[q].pc \in HandlerPCs => create[q].peer \in Peers /\ create[q].peer # p
      BY <1>0, <1>2, <3>1 DEF OneRequest, CreateOn, CreatesOK, RequestFits, HandlerPCs
    <3>3. create'[q].pc \in HandlerPCs => RowGoesOn(create[q].peer)
      BY <1>5, <3>2 DEF RowGoesOn, Live
    <3> QED
      BY <1>0, <1>6, <3>3, CreateStillKnows DEF RowsKnown
  <2>2. ASSUME NEW e \in Deletes
        PROVE  DeleteKnows(e)'
    <3>1. delete'[e].pc = "remove" => delete[e].peer \in Peers /\ delete[e].peer # p
      BY <1>0, <1>1, <1>2 DEF OneRequest, DeleteOn, OthersOK, WrittenRows
    <3>2. delete'[e].pc = "remove" => RowGoesOn(delete[e].peer)
      BY <1>5, <3>1 DEF RowGoesOn, Live
    <3> QED
      BY <1>0, <1>1, <3>2, DeletesUntouched, DeleteStillKnows DEF RowsKnown
  <2> QED
    BY <2>1, <2>2 DEF RowsKnown
<1>9. MarksAccounted'
  <2>1. ASSUME NEW s \in Servers, NEW b \in bitmap[s]
        PROVE  AccountsStay(s, b)
    <3>1. ASSUME s = ServerOf(p), b = rec.bit
          PROVE  Accounted(s, b)'
      <4>1. IsActiveIPAssigned(s, b)'
        BY <1>2, <1>5, <3>1 DEF IsActiveIPAssigned, Live
      <4> QED
        BY <4>1 DEF Accounted
    <3>2. Carries(r, s, b) => Accounted(s, b)'
      BY <1>1, <3>1 DEF Carries
    <3>3. \A q \in Creates : Carries(q, s, b) => Accounted(s, b)'
      BY <1>3, <3>2, CarrierStays
    <3>4. \A d \in Deletes : Returns(d, s, b) => Accounted(s, b)'
      BY <1>1, ReturnerStays
    <3>5. ASSUME NEW q \in Peers, ServerOf(q) = s, Live(q), peers[q].bit = b
          PROVE  Accounted(s, b)'
      <4>1. CASE q # p
        <5>1. IsActiveIPAssigned(s, b)'
          BY <1>5, <3>5, <4>1 DEF IsActiveIPAssigned, Live
        <5> QED
          BY <5>1 DEF Accounted
      <4>2. CASE q = p /\ b # rec.bit
        <5>1. /\ rec.old.status # "absent" /\ rec.old.key # rec.key /\ rec.old.bit = b
          BY <1>0, <1>1, <3>5, <4>2 DEF RowsKnown, CreateKnows, HandlerPCs
        <5>2. Carries(r, s, b)'
          BY <1>3, <1>4, <3>5, <4>2, <5>1 DEF Carries
        <5> QED
          BY <5>2 DEF Accounted
      <4> QED
        BY <3>1, <3>5, <4>1, <4>2
    <3>6. IsActiveIPAssigned(s, b) => Accounted(s, b)'
      BY <3>5 DEF IsActiveIPAssigned
    <3> QED
      BY <3>3, <3>4, <3>6 DEF AccountsStay
  <2> QED
    BY <1>0, <1>1, <2>1, MarksStay
<1> QED
  BY <1>7, <1>8, <1>9 DEF LeakInv

(* A delete hands the address of its row on to its own release.            *)
LEMMA DeleteMoves ==
  ASSUME NEW d \in Deletes, CarefulClients, IInv, LeakInv, DeleteStep(d)
  PROVE  LeakInv'
<1>0. /\ CreatesOK /\ TableOK /\ OthersOK /\ OneRequest /\ RowsKnown /\ MarksAccounted
      /\ peers \in [Peers -> Rows] /\ delete \in [Deletes -> DeleteRecords]
  BY IInvParts DEF LeakInv, TableOK, OthersOK
<1>1. ASSUME NEW p \in Peers, BeginDelete(d, p)
      PROVE  LeakInv'
  <2>1. /\ delete' = [delete EXCEPT ![d] = [pc |-> "remove", peer |-> p, old |-> peers[p]]]
        /\ delete[d].pc = "idle" /\ peers' = peers /\ create' = create /\ bitmap' = bitmap
    BY <1>1 DEF BeginDelete
  <2>2. /\ delete'[d] = [pc |-> "remove", peer |-> p, old |-> peers[p]]
        /\ \A e \in Deletes : e # d => delete'[e] = delete[e]
    BY <1>0, <2>1
  <2>3. /\ \A q \in Creates : ~CreateOn(q, AccountOf(p))
        /\ \A e \in Deletes : ~DeleteOn(e, AccountOf(p))
    BY <1>1 DEF BeginDelete, ClientMaySend, AwaitsAnswer, CreateOn, DeleteOn, CarefulClients
  <2>4. OneRequest'
    <3>1. \A e \in Deletes, a \in Accounts :
            DeleteOn(e, a)' => DeleteOn(e, a) \/ (e = d /\ a = AccountOf(p))
      BY <2>2 DEF DeleteOn
    <3>2. \A q \in Creates, a \in Accounts : CreateOn(q, a)' <=> CreateOn(q, a)
      BY <2>1 DEF CreateOn
    <3> QED
      BY <1>0, <2>3, <3>1, <3>2 DEF OneRequest
  <2>5. RowsKnown'
    <3>1. \A q \in Creates : CreateKnows(q)'
      BY <1>0, <2>1 DEF RowsKnown, CreateKnows, Live
    <3>2. \A e \in Deletes : DeleteKnows(e)'
      BY <1>0, <2>1, <2>2 DEF RowsKnown, DeleteKnows
    <3> QED
      BY <3>1, <3>2 DEF RowsKnown
  <2>6. ASSUME NEW s \in Servers, NEW b \in bitmap[s]
        PROVE  AccountsStay(s, b)
    <3>1. IsActiveIPAssigned(s, b) => Accounted(s, b)'
      BY <2>1, AssignedStays, RowsUntouched DEF RowsSteady, RowGoesOn
    <3>2. \A q \in Creates : Carries(q, s, b) => Accounted(s, b)'
      BY <2>1, NobodyWrites, CarrierStays
    <3>3. ~Returns(d, s, b)
      BY <2>1 DEF Returns
    <3>4. \A e \in Deletes : Returns(e, s, b) => Accounted(s, b)'
      BY <2>2, <3>3, ReturnerStays
    <3> QED
      BY <3>1, <3>2, <3>4 DEF AccountsStay
  <2> QED
    BY <1>0, <2>1, <2>4, <2>5, <2>6, MarksStay DEF LeakInv
<1>2. CASE MarkRemoved(d)
  <2> DEFINE p == delete[d].peer
  <2>1. /\ peers' = [peers EXCEPT ![p].status = "removed"] /\ delete[d].pc = "remove"
        /\ delete' = [delete EXCEPT ![d].pc = "release"] /\ WriteByOther /\ bitmap' = bitmap
    BY <1>2 DEF MarkRemoved
  <2>2. /\ delete'[d].pc = "release" /\ delete'[d].peer = p /\ delete'[d].old = delete[d].old
        /\ \A e \in Deletes : e # d => delete'[e] = delete[e]
    BY <1>0, <2>1 DEF DeleteRecords
  <2>3. \A q \in Creates : SameRequest(q)
    BY <1>0, <2>1, OtherWrites
  <2>4. p \in Peers /\ peers[p].bit = delete[d].old.bit
    BY <1>0, <2>1 DEF OthersOK, WrittenRows, RowsKnown, DeleteKnows
  <2>5. /\ peers'[p].status = "removed" /\ peers'[p].bit = peers[p].bit
        /\ \A q \in Peers : q # p => peers'[q] = peers[q]
    BY <1>0, <2>1, <2>4 DEF Rows
  <2>6. (\A q \in Creates : CreateGoesOn(q)) /\ (\A e \in Deletes : DeleteGoesOn(e))
    BY <2>1, <2>2, <2>3, SameGoesOn DEF DeleteGoesOn
  <2>7. \A q \in Peers : RowGoesOn(q)
    BY <2>5 DEF RowGoesOn, Live
  <2>8. OneRequest' /\ RowsKnown'
    BY <1>0, <2>6, <2>7, OneRequestStays, RowsStillKnown
  <2>9. ASSUME NEW s \in Servers, NEW b \in bitmap[s]
        PROVE  AccountsStay(s, b)
    <3>1. \A q \in Creates : Carries(q, s, b) => Accounted(s, b)'
      BY <2>3, CarrierStays
    <3>2. ~Returns(d, s, b)
      BY <2>1 DEF Returns
    <3>3. \A e \in Deletes : Returns(e, s, b) => Accounted(s, b)'
      BY <2>2, <3>2, ReturnerStays
    <3>4. ASSUME NEW q \in Peers, ServerOf(q) = s, Live(q), peers[q].bit = b
          PROVE  Accounted(s, b)'
      <4>1. CASE q # p
        <5>1. IsActiveIPAssigned(s, b)'
          BY <2>5, <3>4, <4>1 DEF IsActiveIPAssigned, Live
        <5> QED
          BY <5>1 DEF Accounted
      <4>2. CASE q = p
        <5>1. Returns(d, s, b)'
          BY <2>2, <2>4, <3>4, <4>2 DEF Returns
        <5> QED
          BY <5>1 DEF Accounted
      <4> QED
        BY <4>1, <4>2
    <3>5. IsActiveIPAssigned(s, b) => Accounted(s, b)'
      BY <3>4 DEF IsActiveIPAssigned
    <3> QED
      BY <3>1, <3>3, <3>5 DEF AccountsStay
  <2> QED
    BY <1>0, <2>1, <2>8, <2>9, MarksStay DEF LeakInv
<1>3. CASE ReleaseDeleted(d) \/ DeleteFails(d)
  <2>1. /\ peers' = peers /\ delete' = [delete EXCEPT ![d] = IdleDelete]
        /\ \A q \in Creates : SameRequest(q)
    BY <1>0, <1>3, OtherWrites, NobodyWrites DEF ReleaseDeleted, DeleteFails
  <2>2. /\ delete'[d].pc = "idle"
        /\ \A e \in Deletes : e # d => delete'[e] = delete[e]
    BY <1>0, <2>1 DEF IdleDelete
  <2>3. (\A q \in Creates : CreateGoesOn(q)) /\ (\A e \in Deletes : DeleteGoesOn(e))
    BY <2>1, <2>2, SameGoesOn DEF DeleteGoesOn
  <2>4. OneRequest' /\ RowsKnown'
    BY <1>0, <2>1, <2>3, OneRequestStays, RowsStillKnown, RowsUntouched DEF RowsSteady
  <2>5. \A s \in Servers : \A b \in bitmap'[s] : b \in bitmap[s] /\ ~Returns(d, s, b)
    <3>1. CASE ReleaseDeleted(d)
      BY <1>0, <3>1 DEF ReleaseDeleted, OthersOK, Returns
    <3>2. CASE DeleteFails(d)
      BY <3>2 DEF DeleteFails, CarefulClients, LeakingFaults, Returns
    <3> QED
      BY <1>3, <3>1, <3>2
  <2>6. ASSUME NEW s \in Servers, NEW b \in bitmap'[s]
        PROVE  AccountsStay(s, b)
    <3>1. IsActiveIPAssigned(s, b) => Accounted(s, b)'
      BY <2>1, AssignedStays, RowsUntouched DEF RowsSteady, RowGoesOn
    <3>2. \A q \in Creates : Carries(q, s, b) => Accounted(s, b)'
      BY <2>1, CarrierStays
    <3>3. \A e \in Deletes : Returns(e, s, b) => Accounted(s, b)'
      BY <2>2, <2>5, ReturnerStays
    <3> QED
      BY <3>1, <3>2, <3>3 DEF AccountsStay
  <2> QED
    BY <1>0, <2>4, <2>5, <2>6, MarksStay DEF LeakInv
<1> QED
  BY <1>1, <1>2, <1>3 DEF DeleteStep

(* Reports after a catch-up, catch-ups and the loss of the bitmaps.        *)
LEMMA OthersMove ==
  ASSUME CarefulClients, IInv, LeakInv,
         \/ \E s \in Servers : CatchUp(s)
         \/ \E p \in Peers : ReportResync(p)
         \/ RedisLoss
         \/ UNCHANGED vars
  PROVE  LeakInv'
<1>0. CreatesOK /\ OneRequest /\ RowsKnown /\ MarksAccounted
  BY IInvParts DEF LeakInv
<1>1. delete' = delete /\ \A q \in Creates : SameRequest(q)
  BY <1>0, OtherWrites, NobodyWrites DEF CatchUp, ReportResync, RedisLoss, vars
<1>2. RowsSteady
  <2>1. CASE \E p \in Peers : ReportResync(p)
    BY <2>1, ActivatingSteady DEF ReportResync, ReportMayArrive, CarefulClients, LeakingFaults
  <2>2. CASE UNCHANGED peers
    BY <2>2, RowsUntouched
  <2> QED
    BY <2>1, <2>2 DEF CatchUp, RedisLoss, vars
<1>3. \A s \in Servers : bitmap'[s] \subseteq bitmap[s]
  BY DEF CatchUp, ReportResync, RedisLoss, vars
<1>4. (\A q \in Creates : CreateGoesOn(q)) /\ (\A e \in Deletes : DeleteGoesOn(e))
  BY <1>1, SameGoesOn, DeletesUntouched
<1>5. OneRequest' /\ RowsKnown'
  BY <1>0, <1>2, <1>4, OneRequestStays, RowsStillKnown DEF RowsSteady
<1>6. ASSUME NEW s \in Servers, NEW b \in bitmap'[s]
      PROVE  AccountsStay(s, b)
  <2>1. IsActiveIPAssigned(s, b) => Accounted(s, b)'
    BY <1>2, AssignedStays DEF RowsSteady, RowGoesOn
  <2>2. \A q \in Creates : Carries(q, s, b) => Accounted(s, b)'
    BY <1>1, CarrierStays
  <2>3. \A e \in Deletes : Returns(e, s, b) => Accounted(s, b)'
    BY <1>1, ReturnerStays
  <2> QED
    BY <2>1, <2>2, <2>3 DEF AccountsStay
<1>7. MarksAccounted'
  BY <1>0, <1>3, <1>6, MarksStay
<1> QED
  BY <1>5, <1>7 DEF LeakInv

LEMMA LeakStep ==
  ASSUME CarefulClients, IInv, LeakInv, [Next]_vars
  PROVE  LeakInv'
<1>1. ~Crash /\ \A r \in Creates : ~InsertUnacknowledged(r)
  BY DEF Crash, InsertUnacknowledged, CarefulClients, LeakingFaults
<1>2. ASSUME NEW r \in Creates, CreateStep(r)
      PROVE  LeakInv'
  BY <1>1, <1>2, CreateMoves, CreateEnters, CreateInserts DEF CreateStep
<1> QED
  BY <1>1, <1>2, DeleteMoves, OthersMove DEF Next

LEMMA InitLeakInv == Init => LeakInv
<1> SUFFICES ASSUME Init PROVE LeakInv
  OBVIOUS
<1>1. /\ \A r \in Creates : create[r].pc = "idle"
      /\ \A d \in Deletes : delete[d].pc = "idle"
      /\ \A s \in Servers : bitmap[s] = {}
  BY DEF Init, IdleCreate, IdleDelete
<1> QED
  BY <1>1 DEF LeakInv, OneRequest, CreateOn, DeleteOn, RowsKnown, CreateKnows, DeleteKnows,
              MarksAccounted, HandlerPCs

(* Every address that a serial client's requests mark ends up in a live    *)
(* row or is released again, by CreatePeer on its error paths, by its      *)
(* goroutine for the row it replaced, or by DeletePeer: when nobody is     *)
(* under way, what is marked is in use.                                    *)
THEOREM NeverLeaksAtRest ==
  ASSUME CarefulClients
  PROVE  Spec => []NoLeakAtRest
<1>1. IInv /\ LeakInv /\ [Next]_vars => LeakInv'
  BY LeakStep
<1>2. LeakInv => NoLeakAtRest
  BY DEF LeakInv, MarksAccounted, Accounted, NoLeakAtRest, AtRest, Carries, Returns
<1> QED
  BY <1>1, <1>2, InitLeakInv, Invariance, PTL DEF Spec
=============================================================================
