---------------------------- MODULE PeerDelivery ----------------------------
(***************************************************************************)
(* How the peers of one VPN server get from the peers table into its       *)
(* kernel: the goroutines of CreatePeer and DeletePeer push updates with   *)
(* three attempts, the hub fans them out to the subscribed event streams,  *)
(* a stream starts with a catch-up from the table, and the agent applies   *)
(* what it reads to wg0 and reports it.                                    *)
(*                                                                         *)
(* A WireGuard key is presented at most once: clients generate one per     *)
(* connection.  Addresses are left to PeerProvisioning.                    *)
(***************************************************************************)
EXTENDS Naturals, Sequences, FiniteSets

CONSTANTS
  Accounts,    \* account ids; an account's row on this server is named by it
  Keys,        \* WireGuard public keys, each presented once
  Requests,    \* POST /peers and DELETE /peers/{id} requests, their goroutines
  Streams,     \* GET /agents/peers/stream handlers in wg-manager
  BufferSize,  \* capacity of a subscriber's channel (32 in the code)
  PushTries,   \* attempts of pushWithBackoff (3 in the code)
  Faults,      \* the faults that may happen in this instance
  FaultLimit,  \* how many of them at most (bound)
  None         \* no value

FaultKinds == {"break", "half_open", "manager_crash", "reboot", "list_error",
               "netlink_error", "report_lost"}

ASSUME FaultsAssumption == Faults \subseteq FaultKinds /\ FaultLimit \in Nat
ASSUME SizesAssumption == BufferSize \in Nat \ {0} /\ PushTries \in Nat \ {0}
ASSUME AccountsAssumption == IsFiniteSet(Accounts)
ASSUME NoneAssumption == None \notin Keys /\ None \notin Accounts /\ None \notin Streams

VARIABLES
  peers,    \* peers[a]: status and key of account a's row
  request,  \* request[t]: progress of request t and of its goroutine
  stream,   \* stream[c]: progress of handler c and the channel the hub gave it
  current,  \* the handler the agent is connected to
  wire,     \* updates written to the current stream, not yet applied
  wg0,      \* keys that are peers of the kernel interface
  route,    \* the key whose allowed IPs hold 0.0.0.0/0
  reports,  \* ids of applied peers, on their way to /agents/peers/applied
  faults,   \* faults that happened
  owner,    \* history: the account that presented a key
  retired,  \* history: keys that DELETE took away
  missed    \* history: keys whose ADD will not come down the current stream

managerVars == <<peers, request, stream>>
agentVars == <<current, wire, wg0, route>>
vars == <<managerVars, agentVars, reports, faults, owner, retired, missed>>

Live(a) == peers[a].status \in {"pending", "active"}

(* The key account a was answered last, unless a DELETE took it away.      *)
Wanted(a, k) == Live(a) /\ peers[a].key = k /\ k \notin retired

Add(a, k) == [action |-> "ADD", peer |-> a, key |-> k]
Remove(a, k) == [action |-> "REMOVE", peer |-> a, key |-> k]

IdleRequest == [pc |-> "idle", peer |-> None, old |-> None, new |-> None, tries |-> 0]
FreeStream == [state |-> "free", buf |-> << >>]

Fault(kind) == kind \in Faults /\ faults < FaultLimit /\ faults' = faults + 1

(* The catch-up of the agent's stream was sent: it will carry nothing      *)
(* older that it did not carry.                                            *)
CaughtUp == current # None /\ stream[current].state \in {"listed", "subscribed"}

-----------------------------------------------------------------------------
(* Requests, up to the database write that starts the goroutine.           *)

(* ListPeersByAccount: the row to be superseded, if it is live.            *)
BeginCreate(t, a, k) ==
  /\ request[t].pc = "idle" /\ owner[k] = None
  /\ owner' = [owner EXCEPT ![k] = a]
  /\ request' = [request EXCEPT ![t] =
                   [pc |-> "insert", peer |-> a, new |-> k, tries |-> 0,
                    old |-> IF Live(a) THEN peers[a].key ELSE None]]
  /\ UNCHANGED <<peers, stream, agentVars, reports, faults, retired, missed>>

(* The superseded key is removed before the new one is added.              *)
SkipRemove(t) == "push_add"
FirstPush(t) == IF request[t].old # None THEN "push_remove" ELSE "push_add"

Insert(t) ==
  /\ request[t].pc = "insert"
  /\ peers' = [peers EXCEPT ![request[t].peer] =
                 [status |-> "pending", key |-> request[t].new]]
  /\ request' = [request EXCEPT ![t].pc = FirstPush(t)]
  /\ UNCHANGED <<stream, agentVars, reports, faults, owner, retired, missed>>

BeginDelete(t, a) ==
  /\ request[t].pc = "idle" /\ Live(a)
  /\ request' = [request EXCEPT ![t] =
                   [pc |-> "delete", peer |-> a, new |-> None, tries |-> 0,
                    old |-> peers[a].key]]
  /\ UNCHANGED <<peers, stream, agentVars, reports, faults, owner, retired, missed>>

(* The row is removed whatever key it has by now; the goroutine takes the  *)
(* key the request read.                                                   *)
MarkRemoved(t) ==
  /\ request[t].pc = "delete"
  /\ peers' = [peers EXCEPT ![request[t].peer].status = "removed"]
  /\ retired' = retired \cup {peers[request[t].peer].key}
  /\ request' = [request EXCEPT ![t].pc = "push_remove"]
  /\ UNCHANGED <<stream, agentVars, reports, faults, owner, missed>>

-----------------------------------------------------------------------------
(* The goroutine: pushWithBackoff over Hub.Publish.                        *)

Update(t) ==
  IF request[t].pc = "push_remove" THEN Remove(request[t].peer, request[t].old)
                                   ELSE Add(request[t].peer, request[t].new)

Subscribers == {c \in Streams : stream[c].state = "subscribed"}
Receivers == {c \in Subscribers : Len(stream[c].buf) < BufferSize}

NextPush(t) ==
  IF request[t].pc = "push_remove" /\ request[t].new # None
  THEN [request[t] EXCEPT !.pc = "push_add", !.tries = 0]
  ELSE IdleRequest

(* Publish returns true when some subscriber took the update.              *)
PushAccepted(t) ==
  /\ request[t].pc \in {"push_remove", "push_add"}
  /\ Receivers # {}
  /\ stream' = [c \in Streams |-> IF c \in Receivers
                                  THEN [stream[c] EXCEPT !.buf = Append(@, Update(t))]
                                  ELSE stream[c]]
  /\ request' = [request EXCEPT ![t] = NextPush(t)]
  /\ missed' = IF request[t].pc = "push_add" /\ CaughtUp /\ current \notin Receivers
               THEN missed \cup {request[t].new} ELSE missed
  /\ UNCHANGED <<peers, agentVars, reports, faults, owner, retired>>

PushRetried(t) ==
  /\ request[t].pc \in {"push_remove", "push_add"}
  /\ Receivers = {}
  /\ request[t].tries + 1 < PushTries
  /\ request' = [request EXCEPT ![t].tries = @ + 1]
  /\ UNCHANGED <<peers, stream, agentVars, reports, faults, owner, retired, missed>>

(* Every attempt failed.  A REMOVE that failed takes its ADD with it.      *)
PushGivenUp(t) ==
  /\ request[t].pc \in {"push_remove", "push_add"}
  /\ Receivers = {}
  /\ request[t].tries + 1 >= PushTries
  /\ request' = [request EXCEPT ![t] = IdleRequest]
  /\ missed' = IF CaughtUp THEN missed \cup ({request[t].new} \ {None}) ELSE missed
  /\ UNCHANGED <<peers, stream, agentVars, reports, faults, owner, retired>>

-----------------------------------------------------------------------------
(* handlePeerStream.                                                       *)

Connect(c) ==
  /\ current = None /\ stream[c].state = "free"
  /\ current' = c
  /\ stream' = [stream EXCEPT ![c].state = "accepted"]
  /\ UNCHANGED <<peers, request, wire, wg0, route, reports, faults, owner, retired, missed>>

(* The live rows of the server, as ADDs, in some order.                    *)
PendingRows == {a \in Accounts : peers[a].status = "pending"}
LiveRows == {a \in Accounts : Live(a)}
Listings == {q \in [1..Cardinality(LiveRows) -> LiveRows] :
               {q[i] : i \in DOMAIN q} = LiveRows}

CatchUp(c) ==
  /\ stream[c].state = "accepted"
  /\ stream' = [stream EXCEPT ![c].state = "listed"]
  /\ IF c = current
     THEN /\ \E q \in Listings :
               wire' = wire \o [i \in DOMAIN q |-> Add(q[i], peers[q[i]].key)]
          /\ missed' = {}
     ELSE UNCHANGED <<wire, missed>>
  /\ UNCHANGED <<peers, request, current, wg0, route, reports, faults, owner, retired>>

(* The query fails: the handler logs it and goes on without a catch-up.    *)
CatchUpFails(c) ==
  /\ stream[c].state = "accepted"
  /\ Fault("list_error")
  /\ stream' = [stream EXCEPT ![c].state = "listed"]
  /\ missed' = IF c = current THEN {peers[a].key : a \in LiveRows} ELSE missed
  /\ UNCHANGED <<peers, request, agentVars, reports, owner, retired>>

Subscribe(c) ==
  /\ stream[c].state = "listed"
  /\ stream' = [stream EXCEPT ![c].state = "subscribed"]
  /\ UNCHANGED <<peers, request, agentVars, reports, faults, owner, retired, missed>>

(* What a handler writes after its agent went away reaches nobody.         *)
Forward(c) ==
  /\ stream[c].state = "subscribed" /\ stream[c].buf # << >>
  /\ stream' = [stream EXCEPT ![c].buf = Tail(@)]
  /\ wire' = IF c = current THEN Append(wire, Head(stream[c].buf)) ELSE wire
  /\ UNCHANGED <<peers, request, current, wg0, route, reports, faults, owner, retired, missed>>

(* The handler learns that its agent is gone, and unsubscribes.            *)
Disconnected(c) ==
  /\ c # current /\ stream[c].state # "free"
  /\ stream' = [stream EXCEPT ![c] = FreeStream]
  /\ UNCHANGED <<peers, request, agentVars, reports, faults, owner, retired, missed>>

-----------------------------------------------------------------------------
(* The agent: streamLoop, handlePeerUpdate, and the kernel behind it.      *)

(* ADD sets the peer's allowed IPs to 0.0.0.0/0, which the kernel takes    *)
(* from the peer that had it.                                              *)
ApplyAdd ==
  /\ current # None /\ wire # << >> /\ Head(wire).action = "ADD"
  /\ wire' = Tail(wire)
  /\ wg0' = wg0 \cup {Head(wire).key}
  /\ route' = Head(wire).key
  /\ reports' = reports \cup {Head(wire).peer}
  /\ UNCHANGED <<managerVars, current, faults, owner, retired, missed>>

ApplyRemove ==
  /\ current # None /\ wire # << >> /\ Head(wire).action = "REMOVE"
  /\ wire' = Tail(wire)
  /\ wg0' = wg0 \ {Head(wire).key}
  /\ route' = IF route = Head(wire).key THEN None ELSE route
  /\ UNCHANGED <<managerVars, current, reports, faults, owner, retired, missed>>

(* Configuring the device fails or times out: logged, never tried again.   *)
ApplyFails ==
  /\ current # None /\ wire # << >>
  /\ Fault("netlink_error")
  /\ wire' = Tail(wire)
  /\ missed' = IF Head(wire).action = "ADD" THEN missed \cup {Head(wire).key} ELSE missed
  /\ UNCHANGED <<managerVars, current, wg0, route, reports, owner, retired>>

(* MarkPeerActive, on whatever the row holds by now.                       *)
ReportArrives(a) ==
  /\ a \in reports
  /\ reports' = reports \ {a}
  /\ peers' = [peers EXCEPT ![a].status = "active"]
  /\ UNCHANGED <<request, stream, agentVars, faults, owner, retired, missed>>

ReportLost(a) ==
  /\ a \in reports
  /\ Fault("report_lost")
  /\ reports' = reports \ {a}
  /\ UNCHANGED <<managerVars, agentVars, owner, retired, missed>>

-----------------------------------------------------------------------------
(* Failures.                                                               *)

(* The agent's end of the stream: what it had not applied is dropped.      *)
EndOfStream == current' = None /\ wire' = << >>

(* Both ends see the connection break.                                     *)
Break ==
  /\ current # None /\ Fault("break")
  /\ stream' = [stream EXCEPT ![current] = FreeStream]
  /\ EndOfStream
  /\ UNCHANGED <<peers, request, wg0, route, reports, owner, retired, missed>>

(* Only the agent does; the handler stays subscribed for a while.          *)
HalfOpen ==
  /\ current # None /\ Fault("half_open")
  /\ EndOfStream
  /\ UNCHANGED <<managerVars, wg0, route, reports, owner, retired, missed>>

(* The VPN host restarts, with an empty wg0.                               *)
Reboot ==
  /\ Fault("reboot")
  /\ EndOfStream
  /\ wg0' = {} /\ route' = None
  /\ UNCHANGED <<managerVars, reports, owner, retired, missed>>

(* wg-manager restarts: its requests, goroutines and hub are gone.         *)
ManagerCrash ==
  /\ Fault("manager_crash")
  /\ request' = [t \in Requests |-> IdleRequest]
  /\ stream' = [c \in Streams |-> FreeStream]
  /\ EndOfStream
  /\ UNCHANGED <<peers, wg0, route, reports, owner, retired, missed>>

-----------------------------------------------------------------------------
Init ==
  /\ peers = [a \in Accounts |-> [status |-> "absent", key |-> None]]
  /\ request = [t \in Requests |-> IdleRequest]
  /\ stream = [c \in Streams |-> FreeStream]
  /\ current = None /\ wire = << >> /\ wg0 = {} /\ route = None
  /\ reports = {} /\ faults = 0
  /\ owner = [k \in Keys |-> None] /\ retired = {} /\ missed = {}

Client ==
  \E t \in Requests, a \in Accounts :
     (\E k \in Keys : BeginCreate(t, a, k)) \/ BeginDelete(t, a)

RequestStep(t) ==
  Insert(t) \/ MarkRemoved(t) \/ PushAccepted(t) \/ PushRetried(t) \/ PushGivenUp(t)

StreamStep(c) ==
  CatchUp(c) \/ CatchUpFails(c) \/ Subscribe(c) \/ Forward(c) \/ Disconnected(c)

AgentStep == (\E c \in Streams : Connect(c)) \/ ApplyAdd \/ ApplyRemove \/ ApplyFails

ReportStep(a) == ReportArrives(a) \/ ReportLost(a)

Failure == Break \/ HalfOpen \/ Reboot \/ ManagerCrash

Next ==
  \/ Client
  \/ \E t \in Requests : RequestStep(t)
  \/ \E c \in Streams : StreamStep(c)
  \/ AgentStep
  \/ \E a \in Accounts : ReportStep(a)
  \/ Failure

Spec == Init /\ [][Next]_vars

(* Goroutines, handlers and the agent's loop run whenever they can; the    *)
(* agent dials again after five seconds, for ever.  Clients and failures   *)
(* owe nothing.                                                            *)
Fairness ==
  /\ \A t \in Requests : WF_vars(RequestStep(t))
  /\ \A c \in Streams : WF_vars(StreamStep(c))
  /\ WF_vars(AgentStep)

FairSpec == Spec /\ Fairness

-----------------------------------------------------------------------------
(* Properties.                                                             *)

Updates == [action : {"ADD", "REMOVE"}, peer : Accounts, key : Keys]

(* Type invariant: every update names a peer and a key, a channel keeps    *)
(* its capacity, and a goroutine its attempts.                             *)
TypeOK ==
  /\ peers \in [Accounts -> [status : {"absent", "pending", "active", "removed"},
                             key : Keys \cup {None}]]
  /\ request \in [Requests -> [pc : {"idle", "insert", "delete", "push_remove", "push_add"},
                               peer : Accounts \cup {None}, old : Keys \cup {None},
                               new : Keys \cup {None}, tries : 0..(PushTries - 1)]]
  /\ stream \in [Streams -> [state : {"free", "accepted", "listed", "subscribed"},
                             buf : Seq(Updates)]]
  /\ \A c \in Streams : Len(stream[c].buf) <= BufferSize
  /\ current \in Streams \cup {None} /\ wire \in Seq(Updates)
  /\ wg0 \subseteq Keys /\ route \in wg0 \cup {None}
  /\ reports \subseteq Accounts /\ faults \in 0..FaultLimit
  /\ owner \in [Keys -> Accounts \cup {None}]
  /\ retired \subseteq Keys /\ missed \subseteq Keys

Carries(seq, u) == \E i \in DOMAIN seq : seq[i] = u
OnItsWay(u) == Carries(wire, u) \/ Carries(stream[current].buf, u)

StillPushing(k) ==
  \E t \in Requests : request[t].new = k /\ request[t].pc \in {"push_remove", "push_add"}

(* No peer is lost without a trace: once the agent's stream has sent its   *)
(* catch-up, a key that an account was given is on wg0, on its way there,  *)
(* still being pushed, or its push was given up, taken by a stale stream,  *)
(* or refused by the kernel while this very stream was up.  Breaks,        *)
(* restarts and what they drop need no excuse: the next catch-up covers    *)
(* them, whichever way they interleave with inserts and pushes.            *)
NotLost ==
  CaughtUp => \A a \in Accounts, k \in Keys :
                Wanted(a, k) => \/ k \in wg0 \cup missed
                                \/ OnItsWay(Add(a, k))
                                \/ StillPushing(k)

(* A peer is served in the end, or is no longer wanted, or its push        *)
(* failed after the catch-up of the stream that is up.                     *)
EventuallyServed ==
  \A a \in Accounts, k \in Keys :
     Wanted(a, k) ~> (~Wanted(a, k) \/ k \in wg0 \/ (CaughtUp /\ k \in missed))

MissedSome(a) == \E k \in missed : owner[k] = a

(* "Remove the superseded key first so a reconnect is an actual            *)
(* replacement": as long as nothing failed, wg0 never has two keys of an   *)
(* account, deleted keys and accounts with a push that was given up apart. *)
(* One request process: the goroutine ends before the next request.        *)
OneKeyPerAccount ==
  \A k, l \in wg0 \ retired :
     (faults = 0 /\ owner[k] = owner[l] /\ ~MissedSome(owner[k])) => k = l
=============================================================================
