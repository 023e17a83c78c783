-------------------------- MODULE PeerProvisioning --------------------------
(***************************************************************************)
(* wg-manager's control of VPN peers: POST /peers (CreatePeer), DELETE     *)
(* /peers/{id} (DeletePeer) and the agents' /peers/applied                 *)
(* (MarkPeerActive), over the peers table of PostgreSQL and the address    *)
(* bitmaps of Redis.                                                       *)
(*                                                                         *)
(* Every request is a process.  Each statement it sends to PostgreSQL or   *)
(* Redis is one atomic step, and between two statements any other request  *)
(* may run: the code holds no lock and opens no transaction.  AllocateIP   *)
(* is two Redis commands, hence two steps.                                 *)
(*                                                                         *)
(* A bit of the bitmap and the address it stands for (host octet bit + 2)  *)
(* are identified.  An account has one row per server (UNIQUE(account_id,  *)
(* server_id)) and rows are never deleted, so a row is named by its        *)
(* account and its server.                                                 *)
(***************************************************************************)
EXTENDS Naturals, FiniteSets

CONSTANTS
  Accounts,       \* account ids
  Servers,        \* online VPN servers, one per region a client may ask for
  Keys,           \* WireGuard public keys a client may present
  Creates,        \* concurrent POST /peers requests
  Deletes,        \* concurrent DELETE /peers/{id} requests
  LastBit,        \* last usable bit of a server's bitmap (253 in the code)
  TryLimit,       \* attempts of CreatePeer's allocation loop (254 in the code)
  DeviceLimit,    \* DeviceLimit[a]: MaxDevices of a's tier
  Faults,         \* the faults that may happen in this instance
  SerialClients,  \* TRUE: an account sends its next request after the answer
  FreshKeys,      \* TRUE: a client presents a key that its rows do not hold
  None            \* no value

FaultKinds == {"redis_loss", "crash", "db_error", "lost_commit", "cancel",
               "push_fail", "report_lost", "late_report", "reconnect"}

ASSUME FaultsAssumption == Faults \subseteq FaultKinds
ASSUME BoundsAssumption ==
  LastBit \in Nat /\ TryLimit \in Nat \ {0} /\ DeviceLimit \in [Accounts -> Nat]
ASSUME FlagsAssumption == SerialClients \in BOOLEAN /\ FreshKeys \in BOOLEAN
ASSUME NoneAssumption == None \notin Nat /\ None \notin Keys
                         /\ None \notin Accounts /\ None \notin (Accounts \X Servers)

VARIABLES
  peers,      \* the peers table: peers[<<a, s>>] is a's row on server s
  bitmap,     \* Redis: bitmap[s] is the set of bits set for server s
  create,     \* create[r]: progress of POST /peers request r
  delete,     \* delete[d]: progress of DELETE /peers/{id} request d
  resync      \* rows an agent re-applied after a stream catch-up, report due

vars == <<peers, bitmap, create, delete, resync>>

Bits == 0..LastBit
Peers == Accounts \X Servers
AccountOf(p) == p[1]
ServerOf(p) == p[2]

AbsentRow == [status |-> "absent", key |-> None, bit |-> None]
IdleCreate == [pc |-> "idle", peer |-> None, key |-> None, bit |-> None,
               tries |-> 0, old |-> AbsentRow, alone |-> TRUE]
IdleDelete == [pc |-> "idle", peer |-> None, old |-> AbsentRow]

Rows == [status : {"absent", "pending", "active", "removed"},
         key : Keys \cup {None}, bit : Bits \cup {None}]

(* pcs before the response is sent, and pcs of the goroutine after it.     *)
HandlerPCs == {"bitpos", "setbit", "check", "insert", "release"}
NotifyPCs == {"push_remove", "free_old", "push_add"}
CreatePCs == HandlerPCs \cup NotifyPCs \cup {"idle", "reporting"}

-----------------------------------------------------------------------------
(* The database.                                                           *)

(* status IN ('pending', 'active'); no code writes 'failed', so this is    *)
(* also status != 'removed', the filter of ListPeersByAccount and GetPeer. *)
Live(p) == peers[p].status \in {"pending", "active"}

PendingOnly(p) == peers[p].status = "pending"

(* The partial unique index on (server_id, assigned_ip): row p may be live *)
(* with address b.                                                         *)
IndexOnPendingRows(p, b) ==
  \A q \in Peers : (q # p /\ ServerOf(q) = ServerOf(p) /\ PendingOnly(q))
                      => peers[q].bit # b
UniqueIndexAdmits(p, b) ==
  \A q \in Peers : (q # p /\ ServerOf(q) = ServerOf(p) /\ Live(q))
                      => peers[q].bit # b

(* IsActiveIPAssigned: some live row of server s has address b.            *)
AssignedToActiveRow(s, b) ==
  \E q \in Peers : ServerOf(q) = s /\ peers[q].status = "active" /\ peers[q].bit = b
IsActiveIPAssigned(s, b) ==
  \E q \in Peers : ServerOf(q) = s /\ Live(q) /\ peers[q].bit = b

(* CheckCreatePeer; a refused request changes nothing.                     *)
Devices(a) == {s \in Servers : Live(<<a, s>>)}
PlanAdmits(a) == Cardinality(Devices(a)) < DeviceLimit[a]

(* Redis.  BITPOS key 0 is the lowest bit that is not set; AllocateIP      *)
(* refuses one past the last host of the subnet.                           *)
PoolPastTheEnd == 0..(LastBit + 1)
PoolBits == Bits
FirstClearBit(s, b) == b \notin bitmap[s] /\ \A c \in 0..(b - 1) : c \in bitmap[s]

-----------------------------------------------------------------------------
(* Request bookkeeping.                                                    *)

Goto(r, pc) == create' = [create EXCEPT ![r].pc = pc]
Finish(r) == create' = [create EXCEPT ![r] = IdleCreate]

(* History: a write to peers or bitmaps by another actor overlaps the      *)
(* creates that are not answered yet, which are then no longer alone.      *)
Overlapped(rec) ==
  IF rec.pc \in HandlerPCs THEN [rec EXCEPT !.alone = FALSE] ELSE rec
Write(r, rec) ==
  create' = [q \in Creates |-> IF q = r THEN rec ELSE Overlapped(create[q])]
WriteByOther == create' = [q \in Creates |-> Overlapped(create[q])]

(* What the requests of account a in progress say to a serial client.      *)
AwaitsAnswer(a) ==
  \/ \E r \in Creates : /\ create[r].pc \in HandlerPCs
                        /\ AccountOf(create[r].peer) = a
  \/ \E d \in Deletes : /\ delete[d].pc # "idle"
                        /\ AccountOf(delete[d].peer) = a

ClientMaySend(a) == SerialClients => ~AwaitsAnswer(a)

-----------------------------------------------------------------------------
(* CreatePeer.                                                             *)

(* ListPeersByAccount, CheckCreatePeer and SelectServer, none of which     *)
(* writes: the request keeps the row it will replace, if that is live.     *)
Admit(r, p, k) ==
  /\ create[r].pc = "idle"
  /\ ClientMaySend(AccountOf(p))
  /\ FreshKeys => \A s \in Servers : peers[<<AccountOf(p), s>>].key # k
  /\ PlanAdmits(AccountOf(p))
  /\ create' = [create EXCEPT ![r] =
                  [IdleCreate EXCEPT !.pc = "bitpos", !.peer = p, !.key = k,
                                     !.old = IF Live(p) THEN peers[p] ELSE AbsentRow]]
  /\ UNCHANGED <<peers, bitmap, delete, resync>>

(* AllocateIP, first command.                                              *)
FindClearBit(r) ==
  /\ create[r].pc = "bitpos"
  /\ \E b \in PoolBits : /\ FirstClearBit(ServerOf(create[r].peer), b)
                         /\ create' = [create EXCEPT ![r].pc = "setbit", ![r].bit = b]
  /\ UNCHANGED <<peers, bitmap, delete, resync>>

(* AllocateIP, second command.                                             *)
MarkBit(r) ==
  /\ create[r].pc = "setbit"
  /\ bitmap' = [bitmap EXCEPT ![ServerOf(create[r].peer)] = @ \cup {create[r].bit}]
  /\ Write(r, [create[r] EXCEPT !.pc = "check"])
  /\ UNCHANGED <<peers, delete, resync>>

(* The candidate belongs to a live row: it stays marked, try the next one. *)
CandidateUsed(r) ==
  /\ create[r].pc = "check"
  /\ IsActiveIPAssigned(ServerOf(create[r].peer), create[r].bit)
  /\ create[r].tries + 1 < TryLimit
  /\ create' = [create EXCEPT ![r].pc = "bitpos", ![r].tries = @ + 1, ![r].bit = None]
  /\ UNCHANGED <<peers, bitmap, delete, resync>>

(* "no available IPs": every bit is set, or the last attempt met a live    *)
(* row's address too.                                                      *)
NoAddressLeft(r) ==
  \/ /\ create[r].pc = "bitpos"
     /\ PoolBits \subseteq bitmap[ServerOf(create[r].peer)]
  \/ /\ create[r].pc = "check"
     /\ IsActiveIPAssigned(ServerOf(create[r].peer), create[r].bit)
     /\ create[r].tries + 1 >= TryLimit

GiveUp(r) ==
  /\ NoAddressLeft(r)
  /\ Finish(r)
  /\ UNCHANGED <<peers, bitmap, delete, resync>>

CandidateFree(r) ==
  /\ create[r].pc = "check"
  /\ ~IsActiveIPAssigned(ServerOf(create[r].peer), create[r].bit)
  /\ create' = [create EXCEPT ![r].pc = "insert", ![r].tries = 0]
  /\ UNCHANGED <<peers, bitmap, delete, resync>>

(* The goroutine starts: it removes the superseded key first, if any.      *)
Notifying(r, pc) == [IdleCreate EXCEPT !.pc = pc, !.peer = create[r].peer]
FirstNotification(r) ==
  IF create[r].old.status # "absent" /\ create[r].old.key # create[r].key
  THEN [create[r] EXCEPT !.pc = "push_remove", !.key = None, !.alone = TRUE]
  ELSE Notifying(r, "push_add")

(* INSERT ... ON CONFLICT (account_id, server_id) DO UPDATE.               *)
WriteRow(r) ==
  peers' = [peers EXCEPT ![create[r].peer] =
              [status |-> "pending", key |-> create[r].key, bit |-> create[r].bit]]

Insert(r) ==
  /\ create[r].pc = "insert"
  /\ UniqueIndexAdmits(create[r].peer, create[r].bit)
  /\ WriteRow(r)
  /\ Write(r, FirstNotification(r))
  /\ UNCHANGED <<bitmap, delete, resync>>

(* The index rejects the row, or the check or the insert fails without     *)
(* effect: CreatePeer releases the bit and fails.                          *)
InsertConflict(r) ==
  /\ create[r].pc = "insert"
  /\ ~UniqueIndexAdmits(create[r].peer, create[r].bit)

DatabaseRefuses(r) ==
  /\ \/ InsertConflict(r)
     \/ "db_error" \in Faults /\ create[r].pc \in {"check", "insert"}
  /\ Goto(r, "release")
  /\ UNCHANGED <<peers, bitmap, delete, resync>>

(* The insert commits but its answer is lost: the code sees an error.      *)
InsertUnacknowledged(r) ==
  /\ "lost_commit" \in Faults
  /\ create[r].pc = "insert"
  /\ UniqueIndexAdmits(create[r].peer, create[r].bit)
  /\ WriteRow(r)
  /\ Write(r, [create[r] EXCEPT !.pc = "release"])
  /\ UNCHANGED <<bitmap, delete, resync>>

(* ReleaseIP on an error path.                                             *)
UnmarkCandidate(r) ==
  bitmap' = [bitmap EXCEPT ![ServerOf(create[r].peer)] = @ \ {create[r].bit}]

ReleaseCandidate(r) ==
  /\ create[r].pc = "release"
  /\ UnmarkCandidate(r)
  /\ Write(r, IdleCreate)
  /\ UNCHANGED <<peers, delete, resync>>

(* The request ends where it is.  Its client hung up: the context is       *)
(* cancelled and every further call fails, the release included.  A push   *)
(* failed three times: the goroutine gives up, the old address stays       *)
(* marked.  The agent's report is lost.                                    *)
Abandon(r) ==
  /\ \/ "cancel" \in Faults /\ create[r].pc \in HandlerPCs
     \/ "push_fail" \in Faults /\ create[r].pc \in {"push_remove", "push_add"}
     \/ "report_lost" \in Faults /\ create[r].pc = "reporting"
  /\ Finish(r)
  /\ UNCHANGED <<peers, bitmap, delete, resync>>

-----------------------------------------------------------------------------
(* The goroutine that CreatePeer starts.                                   *)

(* The agent was told to drop the old key; its address is then released if *)
(* the new row has another one.                                            *)
PushRemoveDelivered(r) ==
  /\ create[r].pc = "push_remove"
  /\ create' = [create EXCEPT ![r] = IF create[r].old.bit # create[r].bit
                                     THEN [create[r] EXCEPT !.pc = "free_old"]
                                     ELSE Notifying(r, "push_add")]
  /\ UNCHANGED <<peers, bitmap, delete, resync>>

KeepOldBit(r) == UNCHANGED bitmap
UnmarkOldBit(r) ==
  bitmap' = [bitmap EXCEPT ![ServerOf(create[r].peer)] = @ \ {create[r].old.bit}]

FreeOldAddress(r) ==
  /\ create[r].pc = "free_old"
  /\ UnmarkOldBit(r)
  /\ Write(r, Notifying(r, "push_add"))
  /\ UNCHANGED <<peers, delete, resync>>

(* The agent got the ADD and will report the row's id as applied.          *)
PushAddDelivered(r) ==
  /\ create[r].pc = "push_add"
  /\ Goto(r, "reporting")
  /\ UNCHANGED <<peers, bitmap, delete, resync>>

-----------------------------------------------------------------------------
(* Agents.                                                                 *)

(* UpdatePeerStatus(id, 'active') has no condition on the current status;  *)
(* the unique index may still refuse it.                                   *)
MarkPeerActive(p) ==
  peers' = IF UniqueIndexAdmits(p, peers[p].bit)
           THEN [peers EXCEPT ![p].status = "active"] ELSE peers

ReportMayArrive(p) == "late_report" \in Faults \/ Live(p)

Report(r) ==
  /\ create[r].pc = "reporting"
  /\ ReportMayArrive(create[r].peer)
  /\ MarkPeerActive(create[r].peer)
  /\ Write(r, IdleCreate)
  /\ UNCHANGED <<bitmap, delete, resync>>

(* A reconnecting agent is sent the live rows of its server again, and     *)
(* reports each of them again.                                             *)
CatchUp(s) ==
  /\ "reconnect" \in Faults
  /\ resync' = resync \cup {p \in Peers : ServerOf(p) = s /\ Live(p)}
  /\ UNCHANGED <<peers, bitmap, create, delete>>

ReportResync(p) ==
  /\ p \in resync
  /\ ReportMayArrive(p)
  /\ MarkPeerActive(p)
  /\ resync' = resync \ {p}
  /\ WriteByOther
  /\ UNCHANGED <<bitmap, delete>>

-----------------------------------------------------------------------------
(* DeletePeer.                                                             *)

(* GetPeer: the request keeps the row as it is now.                        *)
BeginDelete(d, p) ==
  /\ delete[d].pc = "idle"
  /\ ClientMaySend(AccountOf(p))
  /\ Live(p)
  /\ delete' = [delete EXCEPT ![d] = [pc |-> "remove", peer |-> p, old |-> peers[p]]]
  /\ UNCHANGED <<peers, bitmap, create, resync>>

(* UPDATE ... SET status = 'removed' WHERE id and account_id.              *)
MarkRemoved(d) ==
  /\ delete[d].pc = "remove"
  /\ peers' = [peers EXCEPT ![delete[d].peer].status = "removed"]
  /\ delete' = [delete EXCEPT ![d].pc = "release"]
  /\ WriteByOther
  /\ UNCHANGED <<bitmap, resync>>

(* ReleaseIP of the address the row had when the request read it.          *)
ReleaseDeleted(d) ==
  /\ delete[d].pc = "release"
  /\ bitmap' = [bitmap EXCEPT ![ServerOf(delete[d].peer)] = @ \ {delete[d].old.bit}]
  /\ delete' = [delete EXCEPT ![d] = IdleDelete]
  /\ WriteByOther
  /\ UNCHANGED <<peers, resync>>

(* A database error, or a client that hung up, ends the request early.     *)
DeleteFails(d) ==
  /\ \/ "db_error" \in Faults /\ delete[d].pc = "remove"
     \/ "cancel" \in Faults /\ delete[d].pc \in {"remove", "release"}
  /\ delete' = [delete EXCEPT ![d] = IdleDelete]
  /\ UNCHANGED <<peers, bitmap, create, resync>>

-----------------------------------------------------------------------------
(* The environment.                                                        *)

RedisLoss ==
  /\ "redis_loss" \in Faults
  /\ bitmap' = [s \in Servers |-> {}]
  /\ WriteByOther
  /\ UNCHANGED <<peers, delete, resync>>

(* wg-manager stops; reports already on their way reach its successor.     *)
Crash ==
  /\ "crash" \in Faults
  /\ create' = [r \in Creates |-> IF create[r].pc = "reporting" THEN create[r]
                                  ELSE IdleCreate]
  /\ delete' = [d \in Deletes |-> IdleDelete]
  /\ UNCHANGED <<peers, bitmap, resync>>

-----------------------------------------------------------------------------
Init ==
  /\ peers = [p \in Peers |-> AbsentRow]
  /\ bitmap = [s \in Servers |-> {}]
  /\ create = [r \in Creates |-> IdleCreate]
  /\ delete = [d \in Deletes |-> IdleDelete]
  /\ resync = {}

CreateStep(r) ==
  \/ \E p \in Peers, k \in Keys : Admit(r, p, k)
  \/ FindClearBit(r) \/ MarkBit(r) \/ CandidateUsed(r) \/ CandidateFree(r)
  \/ GiveUp(r) \/ Insert(r) \/ InsertUnacknowledged(r)
  \/ DatabaseRefuses(r) \/ ReleaseCandidate(r) \/ Abandon(r)
  \/ PushRemoveDelivered(r) \/ FreeOldAddress(r) \/ PushAddDelivered(r)
  \/ Report(r)

DeleteStep(d) ==
  \/ \E p \in Peers : BeginDelete(d, p)
  \/ MarkRemoved(d) \/ ReleaseDeleted(d) \/ DeleteFails(d)

Next ==
  \/ \E r \in Creates : CreateStep(r)
  \/ \E d \in Deletes : DeleteStep(d)
  \/ \E s \in Servers : CatchUp(s)
  \/ \E p \in Peers : ReportResync(p)
  \/ RedisLoss
  \/ Crash

Spec == Init /\ [][Next]_vars

-----------------------------------------------------------------------------
(* Properties.                                                             *)

(* Type invariant.  A request past BITPOS carries an address of the        *)
(* subnet, which is what its insert or its release will use.               *)
CreateRecords ==
  [pc : CreatePCs, peer : Peers \cup {None}, key : Keys \cup {None},
   bit : Bits \cup {None}, tries : Nat, old : Rows, alone : BOOLEAN]
DeleteRecords ==
  [pc : {"idle", "remove", "release"}, peer : Peers \cup {None}, old : Rows]

TypeOK ==
  /\ peers \in [Peers -> Rows]
  /\ bitmap \in [Servers -> SUBSET Bits]
  /\ create \in [Creates -> CreateRecords]
  /\ delete \in [Deletes -> DeleteRecords]
  /\ resync \subseteq Peers

(* No two peers that a server may be serving share an address, whatever    *)
(* the bitmap lost, whoever raced with whom and whichever report came late *)
(* ("Redis is an allocation accelerator, not the source of truth").        *)
UniqueLiveAddress ==
  \A p, q \in Peers :
     (p # q /\ ServerOf(p) = ServerOf(q) /\ Live(p) /\ Live(q))
        => peers[p].bit # peers[q].bit

SomeAddressIsFree(s) ==
  \E b \in Bits : b \notin bitmap[s] /\ ~IsActiveIPAssigned(s, b)

(* A request that no other writer overlapped is answered "no available     *)
(* IPs" or meets the unique index only when every address of the server is *)
(* marked or in use: checking candidates against PostgreSQL makes up for a *)
(* lost bitmap, and 254 attempts are enough to get past the stale bits.    *)
UndisturbedCreateSucceeds ==
  [][\A r \in Creates :
       (create[r].alone /\ (GiveUp(r) \/ InsertConflict(r)))
          => ~SomeAddressIsFree(ServerOf(create[r].peer))]_vars

AtRest ==
  /\ \A r \in Creates : create[r].pc \in {"idle", "reporting"}
  /\ \A d \in Deletes : delete[d].pc = "idle"

(* When nobody is in the middle of anything, a marked address is the       *)
(* address of a live peer: the release paths of CreatePeer, of its         *)
(* goroutine and of DeletePeer lose no address between them.  Checked for  *)
(* clients that wait for answers and generate a key per connection, with   *)
(* no push, cancellation or crash in the way.                              *)
NoLeakAtRest ==
  AtRest => \A s \in Servers : \A b \in bitmap[s] : IsActiveIPAssigned(s, b)

(* The refinement mapping: b belongs to the account whose live row has it. *)
HolderOf(s, b) ==
  IF \E a \in Accounts : Live(<<a, s>>) /\ peers[<<a, s>>].bit = b
  THEN CHOOSE a \in Accounts : Live(<<a, s>>) /\ peers[<<a, s>>].bit = b
  ELSE None

Leases == INSTANCE AddressLeases
            WITH Addresses <- Bits, Nobody <- None,
                 holder <- [s \in Servers |-> [b \in Bits |-> HolderOf(s, b)]]

(* The table of peers implements address leases: whatever is interleaved   *)
(* and whatever fails, CreatePeer, DeletePeer and the agents' reports pass *)
(* an address on only after it was free.                                   *)
LeaseSpec == Leases!Spec
=============================================================================
