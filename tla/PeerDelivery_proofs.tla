------------------------ MODULE PeerDelivery_proofs ------------------------
(***************************************************************************)
(* Proofs about PeerDelivery for any accounts, keys, requests, streams,    *)
(* channel capacity and faults: an update that takes a key away names a    *)
(* key no account uses, and no wanted key is lost without a trace.  While  *)
(* the requests of each account follow one another, wg0 has no two keys of *)
(* an account before a first failure.                                      *)
(***************************************************************************)
EXTENDS PeerDelivery, FiniteSetTheorems, TLAPS

(* What sequences carry.                                                   *)
LEMMA CarriesAppend ==
  ASSUME NEW S, NEW q \in Seq(S), NEW u \in S
  PROVE  /\ Append(q, u) \in Seq(S) /\ Len(Append(q, u)) = Len(q) + 1
         /\ \A v : Carries(Append(q, u), v) <=> Carries(q, v) \/ v = u
<1>1. Append(q, u) \in Seq(S) /\ Len(Append(q, u)) = Len(q) + 1 OBVIOUS
<1>2. \A k \in DOMAIN q : k \in DOMAIN Append(q, u) /\ Append(q, u)[k] = q[k]
  OBVIOUS
<1>3. Len(q) + 1 \in DOMAIN Append(q, u) /\ Append(q, u)[Len(q) + 1] = u
  OBVIOUS
<1>4. \A k \in DOMAIN Append(q, u) : k \in DOMAIN q \/ k = Len(q) + 1
  OBVIOUS
<1> QED BY <1>1, <1>2, <1>3, <1>4, Zenon DEF Carries

LEMMA CarriesTail ==
  ASSUME NEW S, NEW q \in Seq(S), q # << >>
  PROVE  /\ Head(q) \in S /\ Tail(q) \in Seq(S) /\ Len(Tail(q)) <= Len(q)
         /\ \A v : Carries(q, v) <=> Carries(Tail(q), v) \/ v = Head(q)
<1>1. Head(q) \in S /\ Tail(q) \in Seq(S) /\ Len(Tail(q)) <= Len(q) OBVIOUS
<1>2. 1 \in DOMAIN q /\ q[1] = Head(q) OBVIOUS
<1>3. \A k \in DOMAIN Tail(q) : k + 1 \in DOMAIN q /\ q[k + 1] = Tail(q)[k]
  OBVIOUS
<1>4. \A k \in DOMAIN q : k = 1 \/ (k - 1 \in DOMAIN Tail(q) /\ q[k] = Tail(q)[k - 1])
  OBVIOUS
<1> QED BY <1>1, <1>2, <1>3, <1>4, Zenon DEF Carries

LEMMA CarriesConcat ==
  ASSUME NEW S, NEW q \in Seq(S), NEW r \in Seq(S)
  PROVE  /\ q \o r \in Seq(S)
         /\ \A v : Carries(q \o r, v) <=> Carries(q, v) \/ Carries(r, v)
<1>1. q \o r \in Seq(S) OBVIOUS
<1>2. \A k \in DOMAIN q : k \in DOMAIN (q \o r) /\ (q \o r)[k] = q[k]
  OBVIOUS
<1>3. \A k \in DOMAIN r :
        Len(q) + k \in DOMAIN (q \o r) /\ (q \o r)[Len(q) + k] = r[k]
  OBVIOUS
<1>4. \A k \in DOMAIN (q \o r) :
        \/ k \in DOMAIN q
        \/ k - Len(q) \in DOMAIN r /\ (q \o r)[k] = r[k - Len(q)]
  OBVIOUS
<1> QED BY <1>1, <1>2, <1>3, <1>4, Zenon DEF Carries

LEMMA CarriesNone == \A v : ~Carries(<< >>, v)
BY DEF Carries

LEMMA CarriedType ==
  ASSUME NEW S, NEW q \in Seq(S), NEW v, Carries(q, v)
  PROVE  v \in S
BY DEF Carries

-----------------------------------------------------------------------------
(* Types.  A goroutine that pushes has the keys that its updates name, and *)
(* a live row has a key.                                                   *)

Rows == [status : {"absent", "pending", "active", "removed"},
         key : Keys \cup {None}]
RequestRecords ==
  [pc : {"idle", "insert", "delete", "push_remove", "push_add"},
   peer : Accounts \cup {None}, old : Keys \cup {None},
   new : Keys \cup {None}, tries : 0..(PushTries - 1)]
StreamRecords == [state : {"free", "accepted", "listed", "subscribed"},
                  buf : Seq(Updates)]

Known(a) == peers[a].key \in Keys

RowsOK ==
  /\ peers \in [Accounts -> Rows]
  /\ \A a \in Accounts : peers[a].status # "absent" <=> Known(a)

HistoryOK ==
  /\ reports \subseteq Accounts /\ faults \in 0..FaultLimit
  /\ owner \in [Keys -> Accounts \cup {None}]
  /\ retired \subseteq Keys /\ missed \subseteq Keys

RequestFits(t) ==
  /\ request[t].pc # "idle" => request[t].peer \in Accounts
  /\ request[t].pc \in {"delete", "push_remove", "push_add"} => Known(request[t].peer)
  /\ request[t].pc \in {"insert", "push_add"} => request[t].new \in Keys
  /\ request[t].pc \in {"delete", "push_remove"} => request[t].old \in Keys

RequestsOK ==
  /\ request \in [Requests -> RequestRecords]
  /\ \A t \in Requests : RequestFits(t)

StreamsOK ==
  /\ stream \in [Streams -> StreamRecords]
  /\ \A c \in Streams : Len(stream[c].buf) <= BufferSize

AgentOK ==
  /\ current \in Streams \cup {None} /\ wire \in Seq(Updates)
  /\ wg0 \subseteq Keys /\ route \in wg0 \cup {None}

InFlight(u) == Carries(wire, u) \/ \E c \in Streams : Carries(stream[c].buf, u)

FlightOK ==
  /\ \A a \in reports : Known(a)
  /\ \A u : InFlight(u) => Known(u.peer)

TypeInv == RowsOK /\ HistoryOK /\ RequestsOK /\ StreamsOK /\ AgentOK /\ FlightOK

LEMMA TypeInvIsTypeOK == TypeInv => TypeOK
BY DEF TypeInv, TypeOK, RowsOK, HistoryOK, RequestsOK, StreamsOK, AgentOK, Rows,
       RequestRecords, StreamRecords

LEMMA TypeInit == Init => TypeInv
<1> SUFFICES ASSUME Init PROVE TypeInv OBVIOUS
<1>1. RowsOK BY NoneAssumption DEF Init, RowsOK, Rows, Known
<1>2. HistoryOK BY FaultsAssumption DEF Init, HistoryOK
<1>3. RequestsOK
  BY SizesAssumption DEF Init, RequestsOK, RequestFits, RequestRecords, IdleRequest
<1>4. StreamsOK BY SizesAssumption DEF Init, StreamsOK, StreamRecords, FreeStream
<1>5. AgentOK BY DEF Init, AgentOK
<1>6. \A u : ~InFlight(u) BY CarriesNone DEF Init, InFlight, FreeStream
<1>7. FlightOK BY <1>6 DEF Init, FlightOK
<1> QED BY <1>1, <1>2, <1>3, <1>4, <1>5, <1>7 DEF TypeInv

(* The update a goroutine is about to push.                                *)
LEMMA UpdateType ==
  ASSUME TypeInv, NEW t \in Requests, request[t].pc \in {"push_remove", "push_add"}
  PROVE  /\ Update(t) \in Updates /\ Known(Update(t).peer)
         /\ Update(t).action = "REMOVE" => request[t].pc = "push_remove"
                                           /\ Update(t).key = request[t].old
         /\ request[t].pc = "push_add" =>
              Update(t) = Add(request[t].peer, request[t].new)
BY DEF TypeInv, RequestsOK, RequestFits, RequestRecords, Update, Updates, Add, Remove

(* What the catch-up writes: the live rows and nothing else.               *)
LEMMA ListingType ==
  ASSUME TypeInv, NEW q \in Listings
  PROVE  LET adds == [i \in DOMAIN q |-> Add(q[i], peers[q[i]].key)]
         IN /\ adds \in Seq(Updates)
            /\ \A u : Carries(adds, u) <=>
                        \E a \in Accounts : Live(a) /\ u = Add(a, peers[a].key)
<1> DEFINE adds == [i \in DOMAIN q |-> Add(q[i], peers[q[i]].key)]
<1>1. IsFiniteSet(LiveRows)
  BY AccountsAssumption, FS_Subset DEF LiveRows
<1>2. Cardinality(LiveRows) \in Nat BY <1>1, FS_CardinalityType
<1>3. DOMAIN q = 1..Cardinality(LiveRows) BY DEF Listings
<1>4. \A i \in DOMAIN q : q[i] \in LiveRows BY DEF Listings
<1>5. \A a \in LiveRows : \E i \in DOMAIN q : q[i] = a BY DEF Listings
<1>6. \A a \in LiveRows : a \in Accounts /\ Live(a) /\ peers[a].key \in Keys
  BY DEF LiveRows, Live, TypeInv, RowsOK, Known
<1>7. \A i \in DOMAIN q : adds[i] \in Updates BY <1>4, <1>6 DEF Add, Updates
<1>8. adds \in [1..Cardinality(LiveRows) -> Updates] BY <1>3, <1>7
<1>9. adds \in Seq(Updates) BY <1>2, <1>8
<1>10. \A a \in Accounts : Live(a) => a \in LiveRows BY DEF LiveRows
<1>11. DOMAIN adds = DOMAIN q OBVIOUS
<1>12. \A u : Carries(adds, u) <=> \E i \in DOMAIN q : u = Add(q[i], peers[q[i]].key)
  BY <1>11 DEF Carries
<1>13. \A u : Carries(adds, u) <=>
               \E a \in Accounts : Live(a) /\ u = Add(a, peers[a].key)
  BY <1>12, <1>4, <1>5, <1>6, <1>10, Zenon
<1> QED BY <1>9, <1>13

-----------------------------------------------------------------------------
(* The rows: a step inserts the key of a request, removes a row, reports   *)
(* one, or leaves the table alone.                                         *)

RowsStep ==
  \/ UNCHANGED <<peers, retired>>
  \/ \E t \in Requests : Insert(t) \/ MarkRemoved(t)
  \/ \E a \in Accounts : ReportArrives(a)

LEMMA RowsChange == [Next]_vars => RowsStep /\ retired \subseteq retired'
<1>1. [Next]_vars => RowsStep
  BY Zenon DEF RowsStep, Next, Client, BeginCreate, BeginDelete, RequestStep, PushAccepted,
     PushRetried, PushGivenUp, StreamStep, CatchUp, CatchUpFails, Subscribe, Forward,
     Disconnected, AgentStep, Connect, ApplyAdd, ApplyRemove, ApplyFails, ReportStep,
     ReportLost, Failure, Break, HalfOpen, Reboot, ManagerCrash, vars, managerVars
<1>2. RowsStep => retired \subseteq retired'
  BY DEF RowsStep, Insert, MarkRemoved, ReportArrives
<1> QED BY <1>1, <1>2

LEMMA RowsStay ==
  ASSUME TypeInv, [Next]_vars
  PROVE  RowsOK' /\ \A a \in Accounts : Known(a) => Known(a)'
<1>1. RowsStep BY RowsChange
<1>2. CASE UNCHANGED <<peers, retired>> BY <1>2 DEF TypeInv, RowsOK, Known
<1>3. ASSUME NEW t \in Requests, Insert(t)
      PROVE  RowsOK' /\ \A a \in Accounts : Known(a) => Known(a)'
  BY <1>3 DEF Insert, TypeInv, RowsOK, Rows, Known, RequestsOK, RequestFits
<1>4. ASSUME NEW t \in Requests, MarkRemoved(t)
      PROVE  RowsOK' /\ \A a \in Accounts : Known(a) => Known(a)'
  BY <1>4 DEF MarkRemoved, TypeInv, RowsOK, Rows, Known, RequestsOK, RequestFits
<1>5. ASSUME NEW a \in Accounts, ReportArrives(a)
      PROVE  RowsOK' /\ \A b \in Accounts : Known(b) => Known(b)'
  BY <1>5 DEF ReportArrives, TypeInv, RowsOK, Rows, Known, FlightOK, HistoryOK
<1> QED BY <1>1, <1>2, <1>3, <1>4, <1>5, Zenon DEF RowsStep

(* The requests.                                                           *)
LEMMA RequestsStay ==
  ASSUME TypeInv, [Next]_vars
  PROVE  RequestsOK'
<1>0. \A a \in Accounts : Known(a) => Known(a)' BY RowsStay
<1>u. ASSUME UNCHANGED request PROVE RequestsOK'
  BY <1>0, <1>u DEF TypeInv, RequestsOK, RequestFits, RequestRecords
<1>1. ASSUME NEW t \in Requests, NEW a \in Accounts, NEW k \in Keys, BeginCreate(t, a, k)
      PROVE  RequestsOK'
  BY <1>0, <1>1, SizesAssumption
     DEF BeginCreate, TypeInv, RequestsOK, RequestFits, RequestRecords, RowsOK, Rows, Known
<1>2. ASSUME NEW t \in Requests, NEW a \in Accounts, BeginDelete(t, a)
      PROVE  RequestsOK'
  <2>1. request' = [request EXCEPT ![t] = [pc |-> "delete", peer |-> a,
                      old |-> peers[a].key, new |-> None, tries |-> 0]]
    BY <1>2 DEF BeginDelete
  <2>2. Known(a) BY <1>2 DEF BeginDelete, Live, TypeInv, RowsOK
  <2> QED BY <1>0, <2>1, <2>2, SizesAssumption
        DEF TypeInv, RequestsOK, RequestFits, RequestRecords, Known
<1>3. ASSUME NEW t \in Requests, Insert(t) PROVE RequestsOK'
  <2>1. /\ request[t].peer \in Accounts /\ request[t].new \in Keys
        /\ request[t].old \in Keys \cup {None}
    BY <1>3 DEF Insert, TypeInv, RequestsOK, RequestFits, RequestRecords
  <2>2. Known(request[t].peer)'
    BY <1>3, <2>1 DEF Insert, TypeInv, RowsOK, Known
  <2>3. FirstPush(t) \in {"push_remove", "push_add"}
        /\ (FirstPush(t) = "push_remove" => request[t].old \in Keys)
    BY <2>1 DEF FirstPush
  <2>4. request' = [request EXCEPT ![t].pc = FirstPush(t)] BY <1>3 DEF Insert
  <2>5. /\ request' \in [Requests -> RequestRecords]
        /\ request'[t].pc = FirstPush(t) /\ request'[t].peer = request[t].peer
        /\ request'[t].old = request[t].old /\ request'[t].new = request[t].new
        /\ \A r \in Requests \ {t} : request'[r] = request[r]
    BY <2>3, <2>4 DEF TypeInv, RequestsOK, RequestRecords
  <2>6. RequestFits(t)' BY <2>1, <2>2, <2>3, <2>5 DEF RequestFits
  <2>7. \A r \in Requests : RequestFits(r) /\ request[r] \in RequestRecords
    BY DEF TypeInv, RequestsOK
  <2>8. ASSUME NEW r \in Requests \ {t} PROVE RequestFits(r)'
    BY <1>0, <2>5, <2>7 DEF RequestFits
  <2> QED BY <2>5, <2>6, <2>8 DEF RequestsOK
<1>4. ASSUME NEW t \in Requests, MarkRemoved(t) PROVE RequestsOK'
  <2>1. request' = [request EXCEPT ![t].pc = "push_remove"] /\ request[t].pc = "delete"
    BY <1>4 DEF MarkRemoved
  <2> QED BY <1>0, <2>1 DEF TypeInv, RequestsOK, RequestFits, RequestRecords
<1>5. ASSUME NEW t \in Requests, PushAccepted(t) PROVE RequestsOK'
  <2>1. request' = [request EXCEPT ![t] = NextPush(t)]
        /\ request[t].pc \in {"push_remove", "push_add"}
    BY <1>5 DEF PushAccepted
  <2>2. CASE request[t].pc = "push_remove" /\ request[t].new # None
    <3>1. request[t] \in RequestRecords /\ RequestFits(t) BY DEF TypeInv, RequestsOK
    <3>2. NextPush(t) = [pc |-> "push_add", peer |-> request[t].peer,
                         old |-> request[t].old, new |-> request[t].new, tries |-> 0]
      BY <2>2, <3>1 DEF NextPush, RequestRecords
    <3> QED BY <1>0, <2>1, <2>2, <3>1, <3>2, SizesAssumption
          DEF TypeInv, RequestsOK, RequestFits, RequestRecords
  <2>3. CASE ~(request[t].pc = "push_remove" /\ request[t].new # None)
    <3>1. NextPush(t) = IdleRequest BY <2>3 DEF NextPush
    <3> QED BY <1>0, <2>1, <3>1, SizesAssumption
          DEF TypeInv, RequestsOK, RequestFits, RequestRecords, IdleRequest
  <2> QED BY <2>2, <2>3
<1>6. ASSUME NEW t \in Requests, PushRetried(t) PROVE RequestsOK'
  BY <1>0, <1>6, SizesAssumption
     DEF PushRetried, TypeInv, RequestsOK, RequestFits, RequestRecords
<1>7. ASSUME NEW t \in Requests, PushGivenUp(t) PROVE RequestsOK'
  BY <1>0, <1>7, SizesAssumption
     DEF PushGivenUp, TypeInv, RequestsOK, RequestFits, RequestRecords, IdleRequest
<1>8. ASSUME ManagerCrash PROVE RequestsOK'
  BY <1>8, SizesAssumption
     DEF ManagerCrash, RequestsOK, RequestFits, RequestRecords, IdleRequest
<1>9. ASSUME \/ \E c \in Streams : StreamStep(c) \/ Connect(c)
             \/ ApplyAdd \/ ApplyRemove \/ ApplyFails
             \/ \E a \in Accounts : ReportStep(a)
             \/ Break \/ HalfOpen \/ Reboot \/ UNCHANGED vars
      PROVE  UNCHANGED request
  BY <1>9, Zenon DEF StreamStep, CatchUp, CatchUpFails, Subscribe, Forward, Disconnected,
       Connect, ApplyAdd, ApplyRemove, ApplyFails, ReportStep, ReportArrives, ReportLost,
       Break, HalfOpen, Reboot, vars, managerVars
<1> QED
  BY <1>u, <1>1, <1>2, <1>3, <1>4, <1>5, <1>6, <1>7, <1>8, <1>9, Zenon
     DEF Next, Client, RequestStep, AgentStep, Failure

-----------------------------------------------------------------------------
(* Channels and the wire: what a step puts on its way is what a goroutine  *)
(* pushes or what the catch-up lists.                                      *)

Pushing(t) == request[t].pc \in {"push_remove", "push_add"}
Sent(u) ==
  \/ \E t \in Requests : Pushing(t) /\ u = Update(t)
  \/ \E a \in Accounts : Live(a) /\ u = Add(a, peers[a].key)

Flows == /\ StreamsOK' /\ AgentOK'
         /\ \A u : InFlight(u)' => InFlight(u) \/ Sent(u)

LEMMA FlowPushed ==
  ASSUME TypeInv, NEW t \in Requests, PushAccepted(t) PROVE Flows
<1>1. /\ Pushing(t) /\ Update(t) \in Updates
      /\ UNCHANGED <<current, wire, wg0, route>>
  BY UpdateType DEF PushAccepted, Pushing, agentVars
<1>2. ASSUME NEW c \in Streams
      PROVE  /\ stream'[c].state = stream[c].state /\ stream'[c] \in StreamRecords
             /\ stream'[c].buf = IF c \in Receivers THEN Append(stream[c].buf, Update(t))
                                                    ELSE stream[c].buf
  <2>1. stream[c] \in StreamRecords BY DEF TypeInv, StreamsOK
  <2>2. CASE c \in Receivers
    <3>1. stream'[c] = [stream[c] EXCEPT !.buf = Append(stream[c].buf, Update(t))]
      BY <2>2 DEF PushAccepted
    <3>2. Append(stream[c].buf, Update(t)) \in Seq(Updates)
      BY <1>1, <2>1 DEF StreamRecords
    <3> QED BY <2>1, <2>2, <3>1, <3>2 DEF StreamRecords
  <2>3. CASE c \notin Receivers BY <2>1, <2>3 DEF PushAccepted
  <2> QED BY <2>2, <2>3
<1>3. DOMAIN stream' = Streams /\ stream' = [c \in Streams |-> stream'[c]]
  BY DEF PushAccepted
<1>4. ASSUME NEW c \in Streams
      PROVE  /\ Len(stream'[c].buf) <= BufferSize
             /\ \A v : Carries(stream'[c].buf, v) =>
                         Carries(stream[c].buf, v) \/ v = Update(t)
  <2>1. stream[c].buf \in Seq(Updates) /\ Len(stream[c].buf) <= BufferSize
    BY DEF TypeInv, StreamsOK, StreamRecords
  <2>2. CASE c \in Receivers
    <3>1. Len(stream[c].buf) < BufferSize BY <2>2 DEF Receivers
    <3>2. Len(stream[c].buf) \in Nat BY <2>1
    <3>3. Len(stream[c].buf) + 1 <= BufferSize BY <3>1, <3>2, SizesAssumption
    <3>4. stream'[c].buf = Append(stream[c].buf, Update(t)) BY <1>2, <2>2
    <3>5. Len(stream'[c].buf) <= BufferSize BY <1>1, <2>1, <3>3, <3>4, CarriesAppend
    <3>6. \A v : Carries(stream'[c].buf, v) => Carries(stream[c].buf, v) \/ v = Update(t)
      BY <1>1, <2>1, <3>4, CarriesAppend
    <3> QED BY <3>5, <3>6
  <2>3. CASE c \notin Receivers BY <1>2, <2>1, <2>3
  <2> QED BY <2>2, <2>3
<1>5. StreamsOK' BY <1>2, <1>3, <1>4 DEF StreamsOK
<1>6. AgentOK' BY <1>1 DEF TypeInv, AgentOK
<1>7. \A u : InFlight(u)' => InFlight(u) \/ u = Update(t)
  BY <1>1, <1>4, Zenon DEF InFlight
<1> QED BY <1>1, <1>5, <1>6, <1>7, Zenon DEF Flows, Sent

(* A stream whose handler only changes its state.                          *)
LEMMA FlowState ==
  ASSUME TypeInv, NEW c \in Streams,
         NEW s \in {"accepted", "listed", "subscribed"},
         stream' = [stream EXCEPT ![c].state = s]
  PROVE  StreamsOK' /\ \A d \in Streams : stream'[d].buf = stream[d].buf
BY DEF TypeInv, StreamsOK, StreamRecords

LEMMA FlowFree ==
  ASSUME TypeInv, NEW c \in Streams, stream' = [stream EXCEPT ![c] = FreeStream]
  PROVE  StreamsOK' /\ \A d \in Streams : \A v : Carries(stream'[d].buf, v) =>
                                                   Carries(stream[d].buf, v)
<1>1. FreeStream \in StreamRecords /\ FreeStream.buf = << >> /\ Len(FreeStream.buf) = 0
  BY DEF FreeStream, StreamRecords
<1>2. StreamsOK' BY <1>1, SizesAssumption DEF TypeInv, StreamsOK
<1>3. \A d \in Streams : stream'[d].buf = << >> \/ stream'[d].buf = stream[d].buf
  BY <1>1 DEF TypeInv, StreamsOK
<1> QED BY <1>2, <1>3, CarriesNone

LEMMA FlowCatchUp ==
  ASSUME TypeInv, NEW c \in Streams, CatchUp(c) PROVE Flows
<1>1. StreamsOK' /\ \A d \in Streams : stream'[d].buf = stream[d].buf
  BY FlowState DEF CatchUp
<1>2. CASE c = current
  <2>1. PICK q \in Listings :
          wire' = wire \o [i \in DOMAIN q |-> Add(q[i], peers[q[i]].key)]
    BY <1>2, Zenon DEF CatchUp
  <2> DEFINE adds == [i \in DOMAIN q |-> Add(q[i], peers[q[i]].key)]
  <2>2. /\ adds \in Seq(Updates)
        /\ \A u : Carries(adds, u) <=> \E a \in Accounts : Live(a) /\ u = Add(a, peers[a].key)
    BY ListingType
  <2>3. wire \in Seq(Updates) BY DEF TypeInv, AgentOK
  <2>4. wire' = wire \o adds BY <2>1
  <2> HIDE DEF adds
  <2>5. wire' \in Seq(Updates)
        /\ \A u : Carries(wire', u) <=> Carries(wire, u) \/ Carries(adds, u)
    BY <2>2, <2>3, <2>4, CarriesConcat
  <2>6. AgentOK' BY <2>5 DEF CatchUp, TypeInv, AgentOK
  <2>7. \A u : InFlight(u)' => InFlight(u) \/ Sent(u)
    BY <1>1, <2>2, <2>5, Zenon DEF InFlight, Sent
  <2> QED BY <1>1, <2>6, <2>7 DEF Flows
<1>3. CASE c # current
  <2>1. AgentOK' /\ wire' = wire BY <1>3 DEF CatchUp, TypeInv, AgentOK
  <2> QED BY <1>1, <2>1, Zenon DEF Flows, InFlight
<1> QED BY <1>2, <1>3

LEMMA FlowForward ==
  ASSUME TypeInv, NEW c \in Streams, Forward(c) PROVE Flows
<1>1. /\ stream[c] \in StreamRecords /\ stream[c].buf \in Seq(Updates)
      /\ stream[c].buf # << >> /\ Len(stream[c].buf) <= BufferSize
      /\ wire \in Seq(Updates)
  BY DEF Forward, TypeInv, StreamsOK, StreamRecords, AgentOK
<1>2. /\ Head(stream[c].buf) \in Updates /\ Tail(stream[c].buf) \in Seq(Updates)
      /\ Len(Tail(stream[c].buf)) <= Len(stream[c].buf)
      /\ \A v : Carries(stream[c].buf, v) <=>
                  Carries(Tail(stream[c].buf), v) \/ v = Head(stream[c].buf)
  BY <1>1, CarriesTail
<1>3. /\ stream' \in [Streams -> StreamRecords]
      /\ stream'[c].buf = Tail(stream[c].buf)
      /\ \A d \in Streams \ {c} : stream'[d] = stream[d]
  BY <1>1, <1>2 DEF Forward, TypeInv, StreamsOK, StreamRecords
<1>4. StreamsOK'
  <2>1. ASSUME NEW d \in Streams PROVE Len(stream'[d].buf) <= BufferSize
    <3>1. CASE d = c
      <4>1. Len(stream[c].buf) \in Nat /\ Len(Tail(stream[c].buf)) \in Nat
        BY <1>1, <1>2
      <4>2. Len(Tail(stream[c].buf)) <= BufferSize
        BY <1>1, <1>2, <4>1, SizesAssumption
      <4> QED BY <1>3, <3>1, <4>2
    <3>2. CASE d # c BY <1>3, <3>2 DEF TypeInv, StreamsOK
    <3> QED BY <3>1, <3>2
  <2> QED BY <1>3, <2>1 DEF StreamsOK
<1>5. /\ wire' \in Seq(Updates)
      /\ \A v : Carries(wire', v) => Carries(wire, v) \/ v = Head(stream[c].buf)
  <2>1. CASE c = current
    <3>1. wire' = Append(wire, Head(stream[c].buf)) BY <2>1 DEF Forward
    <3> QED BY <1>1, <1>2, <3>1, CarriesAppend
  <2>2. CASE c # current BY <1>1, <2>2 DEF Forward
  <2> QED BY <2>1, <2>2
<1>6. AgentOK' BY <1>5 DEF Forward, TypeInv, AgentOK
<1>7. \A d \in Streams : \A v : Carries(stream'[d].buf, v) => Carries(stream[d].buf, v)
  BY <1>2, <1>3
<1>8. \A u : InFlight(u)' => InFlight(u)
  BY <1>2, <1>5, <1>7, Zenon DEF InFlight
<1> QED BY <1>4, <1>6, <1>8 DEF Flows

(* The agent takes the head of the wire.                                   *)
LEMMA FlowTaken ==
  ASSUME TypeInv, wire # << >>, wire' = Tail(wire), UNCHANGED <<stream, current>>,
         wg0' \subseteq Keys, route' \in wg0' \cup {None}
  PROVE  Flows
<1>1. wire' \in Seq(Updates) /\ \A v : Carries(wire', v) => Carries(wire, v)
  BY CarriesTail DEF TypeInv, AgentOK
<1>2. AgentOK' BY <1>1 DEF TypeInv, AgentOK
<1>3. StreamsOK' BY DEF TypeInv, StreamsOK
<1>4. \A u : InFlight(u)' => InFlight(u) BY <1>1, Zenon DEF InFlight
<1> QED BY <1>2, <1>3, <1>4 DEF Flows

LEMMA Flow == ASSUME TypeInv, [Next]_vars PROVE Flows
<1>h. /\ wire # << >> => Head(wire).key \in Keys
      /\ wg0 \subseteq Keys /\ route \in wg0 \cup {None}
  <2>1. wire \in Seq(Updates) /\ wg0 \subseteq Keys /\ route \in wg0 \cup {None}
    BY DEF TypeInv, AgentOK
  <2>2. wire # << >> => Head(wire) \in Updates BY <2>1
  <2>3. \A u \in Updates : u.key \in Keys BY DEF Updates
  <2> QED BY <2>1, <2>2, <2>3
<1>u. ASSUME UNCHANGED <<stream, current, wire, wg0, route>> PROVE Flows
  <2>1. StreamsOK' /\ AgentOK' BY <1>u DEF TypeInv, StreamsOK, AgentOK
  <2> QED BY <1>u, <2>1, Zenon DEF Flows, InFlight
<1>1. ASSUME NEW c \in Streams, Connect(c) PROVE Flows
  <2>1. StreamsOK' /\ \A d \in Streams : stream'[d].buf = stream[d].buf
    BY <1>1, FlowState DEF Connect
  <2>2. AgentOK' /\ wire' = wire BY <1>1 DEF Connect, TypeInv, AgentOK
  <2> QED BY <2>1, <2>2, Zenon DEF Flows, InFlight
<1>2. ASSUME NEW c \in Streams, CatchUpFails(c) \/ Subscribe(c) PROVE Flows
  <2>1. StreamsOK' /\ \A d \in Streams : stream'[d].buf = stream[d].buf
    BY <1>2, FlowState DEF CatchUpFails, Subscribe
  <2>2. AgentOK' /\ wire' = wire
    BY <1>2 DEF CatchUpFails, Subscribe, agentVars, TypeInv, AgentOK
  <2> QED BY <2>1, <2>2, Zenon DEF Flows, InFlight
<1>3. ASSUME NEW c \in Streams, Disconnected(c) PROVE Flows
  <2>1. StreamsOK' /\ \A d \in Streams : \A v : Carries(stream'[d].buf, v) =>
                                                 Carries(stream[d].buf, v)
    BY <1>3, FlowFree DEF Disconnected
  <2>2. AgentOK' /\ wire' = wire BY <1>3 DEF Disconnected, agentVars, TypeInv, AgentOK
  <2> QED BY <2>1, <2>2, Zenon DEF Flows, InFlight
<1>4. ASSUME ApplyAdd PROVE Flows
  <2>1. wg0' \subseteq Keys /\ route' \in wg0' \cup {None}
    BY <1>4, <1>h DEF ApplyAdd
  <2> QED BY <1>4, <2>1, FlowTaken DEF ApplyAdd, managerVars
<1>5. ASSUME ApplyRemove PROVE Flows
  <2>1. wg0' \subseteq Keys /\ route' \in wg0' \cup {None}
    BY <1>5, <1>h DEF ApplyRemove
  <2> QED BY <1>5, <2>1, FlowTaken DEF ApplyRemove, managerVars
<1>6. ASSUME ApplyFails PROVE Flows
  BY <1>6, <1>h, FlowTaken DEF ApplyFails, managerVars
<1>7. ASSUME Break PROVE Flows
  <2>1. current \in Streams BY <1>7 DEF Break, TypeInv, AgentOK
  <2>2. StreamsOK' /\ \A d \in Streams : \A v : Carries(stream'[d].buf, v) =>
                                                 Carries(stream[d].buf, v)
    BY <1>7, <2>1, FlowFree DEF Break
  <2>3. AgentOK' /\ wire' = << >>
    BY <1>7, <1>h DEF Break, EndOfStream, AgentOK
  <2> QED BY <2>2, <2>3, CarriesNone, Zenon DEF Flows, InFlight
<1>8. ASSUME HalfOpen \/ Reboot PROVE Flows
  <2>1. StreamsOK' /\ UNCHANGED stream
    BY <1>8 DEF HalfOpen, Reboot, managerVars, TypeInv, StreamsOK
  <2>2. AgentOK' /\ wire' = << >>
    <3>1. current' = None /\ wire' = << >> BY <1>8 DEF HalfOpen, Reboot, EndOfStream
    <3>2. wg0' \subseteq Keys /\ route' \in wg0' \cup {None}
      <4>1. CASE HalfOpen BY <1>h, <4>1 DEF HalfOpen
      <4>2. CASE Reboot BY <4>2 DEF Reboot
      <4> QED BY <1>8, <4>1, <4>2
    <3> QED BY <3>1, <3>2 DEF AgentOK
  <2> QED BY <2>1, <2>2, CarriesNone, Zenon DEF Flows, InFlight
<1>9. ASSUME ManagerCrash PROVE Flows
  <2>1. /\ stream' \in [Streams -> StreamRecords]
        /\ \A d \in Streams : stream'[d].buf = << >> /\ Len(stream'[d].buf) = 0
    BY <1>9 DEF ManagerCrash, FreeStream, StreamRecords
  <2>2. AgentOK' /\ wire' = << >> BY <1>9, <1>h DEF ManagerCrash, EndOfStream, AgentOK
  <2>3. StreamsOK' BY <2>1, SizesAssumption DEF StreamsOK
  <2> QED BY <2>1, <2>2, <2>3, CarriesNone, Zenon DEF Flows, InFlight
<1>10. ASSUME \/ Client
              \/ \E t \in Requests : Insert(t) \/ MarkRemoved(t) \/ PushRetried(t)
                                     \/ PushGivenUp(t)
              \/ \E a \in Accounts : ReportStep(a)
              \/ UNCHANGED vars
       PROVE  UNCHANGED <<stream, current, wire, wg0, route>>
  BY <1>10, Zenon DEF Client, BeginCreate, BeginDelete, Insert, MarkRemoved, PushRetried,
       PushGivenUp, ReportStep, ReportArrives, ReportLost, vars, managerVars, agentVars
<1> QED
  BY <1>u, <1>1, <1>2, <1>3, <1>4, <1>5, <1>6, <1>7, <1>8, <1>9, <1>10, FlowPushed,
     FlowCatchUp, FlowForward, Zenon
     DEF Next, RequestStep, StreamStep, AgentStep, Failure

-----------------------------------------------------------------------------
(* Reports and histories.                                                  *)

LEMMA FaultCounted ==
  ASSUME faults \in 0..FaultLimit, NEW kind, Fault(kind)
  PROVE  faults' \in 0..FaultLimit
BY FaultsAssumption DEF Fault

LEMMA WireHead ==
  ASSUME TypeInv, wire # << >>
  PROVE  /\ Head(wire) \in Updates /\ Head(wire).key \in Keys
         /\ Head(wire).peer \in Accounts /\ Known(Head(wire).peer)
         /\ InFlight(Head(wire))
<1>1. wire \in Seq(Updates) BY DEF TypeInv, AgentOK
<1>2. Head(wire) \in Updates /\ Carries(wire, Head(wire)) BY <1>1, CarriesTail
<1>3. InFlight(Head(wire)) BY <1>2 DEF InFlight
<1>4. Known(Head(wire).peer) BY <1>3, Zenon DEF TypeInv, FlightOK
<1> QED BY <1>2, <1>3, <1>4 DEF Updates

LEMMA MissedIsKeys == ASSUME TypeInv, [Next]_vars PROVE missed' \subseteq Keys
<1>0. missed \subseteq Keys BY DEF TypeInv, HistoryOK
<1>1. ASSUME NEW t \in Requests, PushAccepted(t) PROVE missed' \subseteq Keys
  <2>1. request[t].pc = "push_add" => request[t].new \in Keys
    BY DEF TypeInv, RequestsOK, RequestFits
  <2> QED BY <1>0, <1>1, <2>1 DEF PushAccepted
<1>2. ASSUME NEW t \in Requests, PushGivenUp(t) PROVE missed' \subseteq Keys
  <2>1. request[t].new \in Keys \cup {None}
    BY DEF TypeInv, RequestsOK, RequestRecords
  <2> QED BY <1>0, <1>2, <2>1 DEF PushGivenUp
<1>3. ASSUME NEW c \in Streams, CatchUp(c) PROVE missed' \subseteq Keys
  <2>1. CASE c = current BY <1>3, <2>1 DEF CatchUp
  <2>2. CASE c # current BY <1>0, <1>3, <2>2 DEF CatchUp
  <2> QED BY <2>1, <2>2
<1>4. ASSUME NEW c \in Streams, CatchUpFails(c) PROVE missed' \subseteq Keys
  <2>1. \A a \in LiveRows : peers[a].key \in Keys
    BY DEF LiveRows, Live, TypeInv, RowsOK, Known
  <2> QED BY <1>0, <1>4, <2>1 DEF CatchUpFails
<1>5. ASSUME ApplyFails PROVE missed' \subseteq Keys
  BY <1>0, <1>5, WireHead DEF ApplyFails
<1>6. ASSUME \/ Client
             \/ \E t \in Requests : Insert(t) \/ MarkRemoved(t) \/ PushRetried(t)
             \/ \E c \in Streams : Connect(c) \/ Subscribe(c) \/ Forward(c) \/ Disconnected(c)
             \/ ApplyAdd \/ ApplyRemove
             \/ \E a \in Accounts : ReportStep(a)
             \/ Failure \/ UNCHANGED vars
      PROVE  UNCHANGED missed
  BY <1>6, Zenon DEF Client, BeginCreate, BeginDelete, Insert, MarkRemoved, PushRetried,
       Connect, Subscribe, Forward, Disconnected, ApplyAdd, ApplyRemove, ReportStep,
       ReportArrives, ReportLost, Failure, Break, HalfOpen, Reboot, ManagerCrash, vars
<1> QED
  BY <1>0, <1>1, <1>2, <1>3, <1>4, <1>5, <1>6, Zenon
     DEF Next, RequestStep, StreamStep, AgentStep

LEMMA FaultsCounted == ASSUME TypeInv, [Next]_vars PROVE faults' \in 0..FaultLimit
<1>0. faults \in 0..FaultLimit BY DEF TypeInv, HistoryOK
<1>1. ASSUME NEW kind, Fault(kind) PROVE faults' \in 0..FaultLimit
  BY <1>0, <1>1, FaultCounted
<1>2. ASSUME NEW c \in Streams, StreamStep(c) PROVE faults' \in 0..FaultLimit
  BY <1>0, <1>1, <1>2, Zenon DEF StreamStep, CatchUp, CatchUpFails, Subscribe, Forward,
                                 Disconnected
<1>3. ASSUME AgentStep \/ Failure PROVE faults' \in 0..FaultLimit
  BY <1>0, <1>1, <1>3, Zenon DEF AgentStep, Connect, ApplyAdd, ApplyRemove, ApplyFails,
       Failure, Break, HalfOpen, Reboot, ManagerCrash
<1>4. ASSUME NEW a \in Accounts, ReportStep(a) PROVE faults' \in 0..FaultLimit
  BY <1>0, <1>1, <1>4, Zenon DEF ReportStep, ReportArrives, ReportLost
<1>5. ASSUME Client \/ (\E t \in Requests : RequestStep(t)) \/ UNCHANGED vars
      PROVE  UNCHANGED faults
  BY <1>5, Zenon DEF Client, BeginCreate, BeginDelete, RequestStep, Insert, MarkRemoved,
       PushAccepted, PushRetried, PushGivenUp, vars
<1> QED BY <1>0, <1>2, <1>3, <1>4, <1>5, Zenon DEF Next

(* A key is presented once, and an account never loses one it presented.   *)
OwnerStep ==
  \/ UNCHANGED owner
  \/ \E t \in Requests, a \in Accounts, k \in Keys : BeginCreate(t, a, k)

LEMMA OwnerChange == [Next]_vars => OwnerStep
BY Zenon DEF OwnerStep, Next, Client, BeginDelete, RequestStep, Insert, MarkRemoved,
     PushAccepted, PushRetried, PushGivenUp, StreamStep, CatchUp, CatchUpFails,
     Subscribe, Forward, Disconnected, AgentStep, Connect, ApplyAdd, ApplyRemove,
     ApplyFails, ReportStep, ReportArrives, ReportLost, Failure, Break, HalfOpen, Reboot,
     ManagerCrash, vars

LEMMA HistoryStays == ASSUME TypeInv, [Next]_vars PROVE HistoryOK'
<1>1. faults' \in 0..FaultLimit /\ missed' \subseteq Keys
  BY FaultsCounted, MissedIsKeys
<1>2. owner' \in [Keys -> Accounts \cup {None}]
  BY OwnerChange DEF OwnerStep, BeginCreate, TypeInv, HistoryOK
<1>3. retired' \subseteq Keys
  <2>1. CASE \E t \in Requests : MarkRemoved(t)
    <3>1. PICK t \in Requests : MarkRemoved(t) BY <2>1
    <3>2. Known(request[t].peer)
      BY <3>1 DEF MarkRemoved, TypeInv, RequestsOK, RequestFits
    <3> QED BY <3>1, <3>2 DEF MarkRemoved, Known, TypeInv, HistoryOK
  <2>2. CASE ~\E t \in Requests : MarkRemoved(t)
    <3>1. UNCHANGED retired
      BY <2>2, Zenon DEF Next, Client, BeginCreate, BeginDelete, RequestStep, Insert,
           PushAccepted, PushRetried, PushGivenUp, StreamStep, CatchUp, CatchUpFails,
           Subscribe, Forward, Disconnected, AgentStep, Connect, ApplyAdd, ApplyRemove,
           ApplyFails, ReportStep, ReportArrives, ReportLost, Failure, Break, HalfOpen,
           Reboot, ManagerCrash, vars
    <3> QED BY <3>1 DEF TypeInv, HistoryOK
  <2> QED BY <2>1, <2>2
<1>4. reports' \subseteq reports \cup (IF ApplyAdd THEN {Head(wire).peer} ELSE {})
  BY Zenon DEF Next, Client, BeginCreate, BeginDelete, RequestStep, Insert, MarkRemoved,
       PushAccepted, PushRetried, PushGivenUp, StreamStep, CatchUp, CatchUpFails,
       Subscribe, Forward, Disconnected, AgentStep, Connect, ApplyAdd, ApplyRemove,
       ApplyFails, ReportStep, ReportArrives, ReportLost, Failure, Break, HalfOpen,
       Reboot, ManagerCrash, vars
<1>5. reports' \subseteq Accounts
  BY <1>4, WireHead DEF ApplyAdd, TypeInv, HistoryOK
<1> QED BY <1>1, <1>2, <1>3, <1>5 DEF HistoryOK

LEMMA FlightType ==
  ASSUME TypeInv, NEW u, InFlight(u)
  PROVE  u \in Updates /\ u.peer \in Accounts /\ u.key \in Keys
<1>1. u \in Updates
  BY CarriedType DEF TypeInv, InFlight, AgentOK, StreamsOK, StreamRecords
<1> QED BY <1>1 DEF Updates

LEMMA FlightStays == ASSUME TypeInv, [Next]_vars PROVE FlightOK'
<1>0. \A a \in Accounts : Known(a) => Known(a)' BY RowsStay
<1>1. reports' \subseteq reports \cup (IF ApplyAdd THEN {Head(wire).peer} ELSE {})
  BY Zenon DEF Next, Client, BeginCreate, BeginDelete, RequestStep, Insert, MarkRemoved,
       PushAccepted, PushRetried, PushGivenUp, StreamStep, CatchUp, CatchUpFails,
       Subscribe, Forward, Disconnected, AgentStep, Connect, ApplyAdd, ApplyRemove,
       ApplyFails, ReportStep, ReportArrives, ReportLost, Failure, Break, HalfOpen,
       Reboot, ManagerCrash, vars
<1>2. \A a \in reports' : a \in Accounts /\ Known(a)
  <2>1. ApplyAdd => wire # << >> BY DEF ApplyAdd
  <2>2. ApplyAdd => Head(wire).peer \in Accounts /\ Known(Head(wire).peer)
    BY <2>1, WireHead
  <2>3. \A a \in reports : a \in Accounts /\ Known(a) BY DEF TypeInv, FlightOK, HistoryOK
  <2> QED BY <1>1, <2>2, <2>3
<1>3. \A u : InFlight(u)' => u.peer \in Accounts /\ Known(u.peer)
  <2>1. \A u : InFlight(u) => u.peer \in Accounts /\ Known(u.peer)
    BY FlightType DEF TypeInv, FlightOK
  <2>2. \A t \in Requests : Pushing(t) =>
          Update(t).peer \in Accounts /\ Known(Update(t).peer)
    BY UpdateType DEF Pushing, Updates
  <2>3. \A a \in Accounts : \A k : Live(a) => Add(a, k).peer = a /\ Known(a)
    BY DEF Add, Live, TypeInv, RowsOK
  <2>4. \A u : Sent(u) => u.peer \in Accounts /\ Known(u.peer)
    BY <2>2, <2>3 DEF Sent
  <2>5. \A u : InFlight(u)' => InFlight(u) \/ Sent(u) BY Flow DEF Flows
  <2> QED BY <2>1, <2>4, <2>5
<1>4. \A a \in reports' : Known(a)' BY <1>0, <1>2
<1>5. \A u : InFlight(u)' => Known(u.peer)' BY <1>0, <1>3
<1> QED BY <1>4, <1>5, Zenon DEF FlightOK

LEMMA TypeStays == TypeInv /\ [Next]_vars => TypeInv'
BY RowsStay, HistoryStays, RequestsStay, Flow, FlightStays, Zenon DEF TypeInv, Flows

LEMMA AlwaysTypeInv == Spec => []TypeInv
<1>1. Init => TypeInv BY TypeInit
<1>2. TypeInv /\ [Next]_vars => TypeInv' BY TypeStays
<1> QED BY <1>1, <1>2, PTL DEF Spec

(* TypeCorrect: every update in a channel or on the wire names a peer and  *)
(* a key, no channel exceeds the capacity the hub gave it, and the kernel  *)
(* routes everything to one of its peers or to none.                       *)
THEOREM TypeCorrect == Spec => []TypeOK
BY AlwaysTypeInv, TypeInvIsTypeOK, PTL

-----------------------------------------------------------------------------
(* Keys.  A key that was inserted stays with its row or is spent: no       *)
(* account uses it any more, and none will.                                *)

Held(k) ==
  /\ owner[k] # None
  /\ \A t \in Requests : request[t].pc = "insert" => request[t].new # k

Spent(k) ==
  /\ Held(k)
  /\ k \in retired \/ \A a \in Accounts : peers[a].key # k

RowsOwned ==
  \A a \in Accounts :
    Known(a) => /\ owner[peers[a].key] = a
                /\ Held(peers[a].key)
                /\ peers[a].status = "removed" => peers[a].key \in retired

NewOwned ==
  /\ \A t \in Requests : request[t].pc # "idle" /\ request[t].new \in Keys =>
                           owner[request[t].new] = request[t].peer
  /\ \A t, r \in Requests :
       (request[t].pc = "insert" /\ request[r].pc = "insert"
        /\ request[t].new = request[r].new) => t = r

OldHeld ==
  \A t \in Requests :
    request[t].pc \in {"insert", "delete"} /\ request[t].old \in Keys =>
      owner[request[t].old] = request[t].peer /\ Held(request[t].old)

OldSpent ==
  /\ \A t \in Requests : request[t].pc = "push_remove" => Spent(request[t].old)
  /\ \A u : InFlight(u) /\ u.action = "REMOVE" => Spent(u.key)

KeyInv == RowsOwned /\ NewOwned /\ OldHeld /\ OldSpent

(* A step presents a new key, or leaves the owners alone and inserts at    *)
(* most the key of one request.                                            *)
LEMMA OwnerStays ==
  ASSUME TypeInv, [Next]_vars, NEW k \in Keys, owner[k] # None
  PROVE  owner'[k] = owner[k]
BY OwnerChange DEF OwnerStep, BeginCreate, TypeInv, HistoryOK

LEMMA InsertsStay ==
  ASSUME TypeInv, [Next]_vars, NEW t \in Requests, request'[t].pc = "insert"
  PROVE  \/ request[t].pc = "insert" /\ request'[t] = request[t]
         \/ owner[request'[t].new] = None
<1>1. ASSUME NEW r \in Requests, NEW a \in Accounts, NEW k \in Keys, BeginCreate(r, a, k)
      PROVE  request'[t] = request[t] \/ owner[request'[t].new] = None
  BY <1>1 DEF BeginCreate, TypeInv, RequestsOK
<1>2. ASSUME NEW r \in Requests, NEW a \in Accounts, BeginDelete(r, a)
      PROVE  request'[t] = request[t]
  BY <1>2 DEF BeginDelete, TypeInv, RequestsOK
<1>3. ASSUME NEW r \in Requests, RequestStep(r)
      PROVE  request'[t] = request[t]
  <2>0. DOMAIN request = Requests /\ request[r] \in RequestRecords
    BY DEF TypeInv, RequestsOK
  <2>1. ASSUME Insert(r) PROVE request'[t] = request[t]
    <3>1. FirstPush(r) # "insert" BY DEF FirstPush
    <3>2. request' = [request EXCEPT ![r].pc = FirstPush(r)] BY <2>1 DEF Insert
    <3> QED BY <2>0, <3>1, <3>2 DEF RequestRecords
  <2>2. ASSUME MarkRemoved(r) PROVE request'[t] = request[t]
    BY <2>0, <2>2 DEF MarkRemoved, RequestRecords
  <2>3. ASSUME PushAccepted(r) PROVE request'[t] = request[t]
    <3>1. NextPush(r).pc # "insert" BY <2>0 DEF NextPush, IdleRequest, RequestRecords
    <3>2. request' = [request EXCEPT ![r] = NextPush(r)] BY <2>3 DEF PushAccepted
    <3> QED BY <2>0, <3>1, <3>2
  <2>4. ASSUME PushRetried(r) PROVE request'[t] = request[t]
    BY <2>0, <2>4 DEF PushRetried, RequestRecords
  <2>5. ASSUME PushGivenUp(r) PROVE request'[t] = request[t]
    BY <2>0, <2>5 DEF PushGivenUp, IdleRequest
  <2> QED BY <1>3, <2>1, <2>2, <2>3, <2>4, <2>5 DEF RequestStep
<1>4. ASSUME ManagerCrash PROVE FALSE BY <1>4 DEF ManagerCrash, IdleRequest
<1>5. ASSUME \/ \E c \in Streams : StreamStep(c)
             \/ AgentStep
             \/ \E a \in Accounts : ReportStep(a)
             \/ Break \/ HalfOpen \/ Reboot \/ UNCHANGED vars
      PROVE  UNCHANGED request
  BY <1>5, Zenon DEF StreamStep, CatchUp, CatchUpFails, Subscribe, Forward, Disconnected,
       AgentStep, Connect, ApplyAdd, ApplyRemove, ApplyFails, ReportStep, ReportArrives,
       ReportLost, Break, HalfOpen, Reboot, vars, managerVars
<1>6. request'[t] = request[t] \/ owner[request'[t].new] = None
  BY <1>1, <1>2, <1>3, <1>4, <1>5, Zenon DEF Next, Client, Failure
<1> QED BY <1>6

LEMMA HeldStays ==
  ASSUME TypeInv, [Next]_vars, NEW k \in Keys, Held(k) PROVE Held(k)'
<1>1. owner'[k] = owner[k] BY OwnerStays DEF Held
<1>2. ASSUME NEW t \in Requests, request'[t].pc = "insert" PROVE request'[t].new # k
  <2>1. CASE request[t].pc = "insert" /\ request'[t] = request[t] BY <2>1 DEF Held
  <2>2. CASE owner[request'[t].new] = None BY <2>2 DEF Held
  <2> QED BY <1>2, <2>1, <2>2, InsertsStay
<1> QED BY <1>1, <1>2 DEF Held

LEMMA SpentStays ==
  ASSUME TypeInv, [Next]_vars, NEW k \in Keys, Spent(k) PROVE Spent(k)'
<1>1. Held(k)' BY HeldStays DEF Spent
<1>2. CASE k \in retired BY <1>1, <1>2, RowsChange DEF Spent
<1>3. CASE \A a \in Accounts : peers[a].key # k
  <2>1. ASSUME NEW t \in Requests, Insert(t) PROVE \A a \in Accounts : peers'[a].key # k
    <3>1. request[t].new # k BY <2>1 DEF Insert, Spent, Held
    <3> QED BY <1>3, <2>1, <3>1 DEF Insert, TypeInv, RowsOK
  <2>2. ASSUME NEW t \in Requests, MarkRemoved(t) PROVE \A a \in Accounts : peers'[a].key # k
    BY <1>3, <2>2 DEF MarkRemoved, TypeInv, RowsOK, Rows
  <2>3. ASSUME NEW b \in Accounts, ReportArrives(b)
        PROVE  \A a \in Accounts : peers'[a].key # k
    BY <1>3, <2>3 DEF ReportArrives, TypeInv, RowsOK, Rows
  <2>4. \A a \in Accounts : peers'[a].key # k
    BY <1>3, <2>1, <2>2, <2>3, RowsChange DEF RowsStep
  <2> QED BY <1>1, <2>4 DEF Spent
<1> QED BY <1>2, <1>3 DEF Spent

(* What a step does to one request.                                        *)
SamePush(t) ==
  /\ Pushing(t) /\ Pushing(t)'
  /\ request'[t].pc = "push_remove" => request[t].pc = "push_remove"
  /\ request'[t].peer = request[t].peer
  /\ request'[t].old = request[t].old /\ request'[t].new = request[t].new

Moves(t) ==
  \/ request'[t] = request[t]
  \/ request'[t].pc = "idle" /\ (PushAccepted(t) \/ PushGivenUp(t) \/ ManagerCrash)
  \/ \E a \in Accounts, k \in Keys : BeginCreate(t, a, k)
  \/ \E a \in Accounts : BeginDelete(t, a)
  \/ Insert(t)
  \/ MarkRemoved(t)
  \/ SamePush(t)

LEMMA RequestMoves ==
  ASSUME TypeInv, [Next]_vars, NEW t \in Requests PROVE Moves(t)
<1>0. DOMAIN request = Requests /\ request[t] \in RequestRecords
  BY DEF TypeInv, RequestsOK
<1>1. ASSUME NEW r \in Requests, r # t,
             RequestStep(r) \/ \E a \in Accounts : BeginDelete(r, a)
                                  \/ \E k \in Keys : BeginCreate(r, a, k)
      PROVE  request'[t] = request[t]
  BY <1>0, <1>1 DEF RequestStep, BeginCreate, BeginDelete, Insert, MarkRemoved,
       PushAccepted, PushRetried, PushGivenUp
<1>2. ASSUME PushAccepted(t) PROVE SamePush(t) \/ request'[t].pc = "idle"
  <2>1. request'[t] = NextPush(t) /\ Pushing(t) BY <1>0, <1>2 DEF PushAccepted, Pushing
  <2>2. CASE request[t].pc = "push_remove" /\ request[t].new # None
    <3>1. NextPush(t) = [request[t] EXCEPT !.pc = "push_add", !.tries = 0]
      BY <2>2 DEF NextPush
    <3> QED BY <1>0, <2>1, <3>1 DEF SamePush, Pushing, RequestRecords
  <2>3. CASE ~(request[t].pc = "push_remove" /\ request[t].new # None)
    BY <2>1, <2>3 DEF NextPush, IdleRequest
  <2> QED BY <2>2, <2>3
<1>3. ASSUME PushRetried(t) PROVE SamePush(t)
  BY <1>0, <1>3 DEF PushRetried, SamePush, Pushing, RequestRecords
<1>4. ASSUME PushGivenUp(t) \/ ManagerCrash PROVE request'[t].pc = "idle"
  BY <1>0, <1>4 DEF PushGivenUp, ManagerCrash, IdleRequest
<1>5. ASSUME \/ \E c \in Streams : StreamStep(c)
             \/ AgentStep
             \/ \E a \in Accounts : ReportStep(a)
             \/ Break \/ HalfOpen \/ Reboot \/ UNCHANGED vars
      PROVE  UNCHANGED request
  BY <1>5, Zenon DEF StreamStep, CatchUp, CatchUpFails, Subscribe, Forward, Disconnected,
       AgentStep, Connect, ApplyAdd, ApplyRemove, ApplyFails, ReportStep, ReportArrives,
       ReportLost, Break, HalfOpen, Reboot, vars, managerVars
<1>6. \A r \in Requests : RequestStep(r) => Moves(t)
  BY <1>1, <1>2, <1>3, <1>4, Zenon DEF RequestStep, Moves
<1>7. Client => Moves(t) BY <1>1, Zenon DEF Client, Moves
<1>8. ManagerCrash => Moves(t) BY <1>4, Zenon DEF Moves
<1> QED BY <1>5, <1>6, <1>7, <1>8, Zenon DEF Next, Failure, Moves

LEMMA RowsOwnedStays ==
  ASSUME TypeInv, KeyInv, [Next]_vars PROVE RowsOwned'
<1>0. /\ RowsOwned /\ retired \subseteq retired'
      /\ \A k \in Keys : owner[k] # None => owner'[k] = owner[k]
      /\ \A k \in Keys : Held(k) => Held(k)'
  BY OwnerStays, HeldStays, RowsChange DEF KeyInv
<1>1. CASE UNCHANGED <<peers, retired>>
  BY <1>0, <1>1, NoneAssumption DEF RowsOwned, Known
<1>2. ASSUME NEW t \in Requests, Insert(t) PROVE RowsOwned'
  <2>1. /\ request[t].peer \in Accounts /\ request[t].new \in Keys
        /\ request[t].pc = "insert" /\ owner[request[t].new] = request[t].peer
    BY <1>2 DEF Insert, TypeInv, RequestsOK, RequestFits, KeyInv, NewOwned
  <2>2. owner'[request[t].new] = request[t].peer BY <1>0, <2>1, NoneAssumption
  <2>3. ASSUME NEW r \in Requests, request'[r].pc = "insert"
        PROVE  request'[r].new # request[t].new
    <3>1. CASE request[r].pc = "insert" /\ request'[r] = request[r]
      <4>1. r # t
        <5>1. FirstPush(t) # "insert" BY DEF FirstPush
        <5> QED BY <1>2, <2>3, <5>1 DEF Insert, TypeInv, RequestsOK, RequestRecords
      <4> QED BY <2>1, <3>1, <4>1 DEF KeyInv, NewOwned
    <3>2. CASE owner[request'[r].new] = None BY <2>1, <3>2, NoneAssumption
    <3> QED BY <2>3, <3>1, <3>2, InsertsStay
  <2>4. Held(peers[request[t].peer].key)'
    <3>1. request'[t].peer = request[t].peer
      BY <1>2 DEF Insert, TypeInv, RequestsOK, RequestRecords
    <3>2. peers'[request[t].peer].key = request[t].new
      BY <1>2, <2>1 DEF Insert, TypeInv, RowsOK
    <3> QED BY <2>1, <2>2, <2>3, <3>1, <3>2, NoneAssumption DEF Held
  <2>5. /\ peers'[request[t].peer].key = request[t].new
        /\ peers'[request[t].peer].status = "pending"
        /\ \A a \in Accounts : a # request[t].peer => peers'[a] = peers[a]
    BY <1>2, <2>1 DEF Insert, TypeInv, RowsOK
  <2>6. ASSUME NEW a \in Accounts, Known(a)'
        PROVE  /\ owner'[peers'[a].key] = a /\ Held(peers[a].key)'
               /\ peers'[a].status = "removed" => peers'[a].key \in retired'
    <3>1. CASE a = request[t].peer BY <1>2, <2>1, <2>2, <2>4, <2>5, <3>1 DEF Insert
    <3>2. CASE a # request[t].peer
      BY <1>0, <2>5, <2>6, <3>2, NoneAssumption DEF RowsOwned, Known
    <3> QED BY <3>1, <3>2
  <2> QED BY <2>6 DEF RowsOwned
<1>3. ASSUME NEW t \in Requests, MarkRemoved(t) PROVE RowsOwned'
  <2>1. request[t].peer \in Accounts
    BY <1>3 DEF MarkRemoved, TypeInv, RequestsOK, RequestFits
  <2>2. \A a \in Accounts : peers'[a].key = peers[a].key
    BY <1>3, <2>1 DEF MarkRemoved, TypeInv, RowsOK, Rows
  <2>3. \A a \in Accounts : peers'[a].status = "removed" =>
          a = request[t].peer \/ peers[a].status = "removed"
    BY <1>3, <2>1 DEF MarkRemoved, TypeInv, RowsOK, Rows
  <2>4. peers[request[t].peer].key \in retired' BY <1>3 DEF MarkRemoved
  <2> QED BY <1>0, <2>1, <2>2, <2>3, <2>4, NoneAssumption DEF RowsOwned, Known
<1>4. ASSUME NEW b \in Accounts, ReportArrives(b) PROVE RowsOwned'
  <2>1. \A a \in Accounts : peers'[a].key = peers[a].key
    BY <1>4 DEF ReportArrives, TypeInv, RowsOK, Rows
  <2>2. \A a \in Accounts : peers'[a].status = "removed" => peers[a].status = "removed"
    BY <1>4 DEF ReportArrives, TypeInv, RowsOK, Rows
  <2> QED BY <1>0, <2>1, <2>2, NoneAssumption DEF RowsOwned, Known
<1> QED BY <1>1, <1>2, <1>3, <1>4, RowsChange DEF RowsStep

LEMMA NewOwnedStays ==
  ASSUME TypeInv, KeyInv, [Next]_vars PROVE NewOwned'
<1>0. /\ \A k \in Keys : owner[k] # None => owner'[k] = owner[k]
      /\ DOMAIN request = Requests /\ \A t \in Requests : request[t] \in RequestRecords
      /\ \A t \in Requests : request[t].pc # "idle" => request[t].peer \in Accounts
  BY OwnerStays DEF TypeInv, RequestsOK, RequestFits
<1>1. ASSUME NEW t \in Requests, request'[t].pc # "idle", request'[t].new \in Keys
      PROVE  owner'[request'[t].new] = request'[t].peer
  <2>1. CASE \/ request'[t] = request[t]
             \/ SamePush(t)
    <3>1. request[t].pc # "idle" /\ request'[t].new = request[t].new
          /\ request'[t].peer = request[t].peer
      BY <1>1, <2>1 DEF SamePush, Pushing
    <3> QED BY <1>0, <1>1, <3>1, NoneAssumption DEF KeyInv, NewOwned
  <2>2. ASSUME NEW a \in Accounts, NEW k \in Keys, BeginCreate(t, a, k)
        PROVE  owner'[request'[t].new] = request'[t].peer
    BY <1>0, <2>2 DEF BeginCreate, TypeInv, HistoryOK
  <2>3. ASSUME NEW a \in Accounts, BeginDelete(t, a) PROVE FALSE
    <3>1. request'[t].new = None BY <1>0, <2>3 DEF BeginDelete
    <3> QED BY <1>1, <3>1, NoneAssumption
  <2>4. CASE Insert(t) \/ MarkRemoved(t)
    <3>1. /\ request[t].pc # "idle" /\ request'[t].new = request[t].new
          /\ request'[t].peer = request[t].peer
      BY <1>0, <2>4 DEF Insert, MarkRemoved, RequestRecords
    <3> QED BY <1>0, <1>1, <3>1, NoneAssumption DEF KeyInv, NewOwned
  <2> QED BY <1>1, <2>1, <2>2, <2>3, <2>4, RequestMoves DEF Moves
<1>2. ASSUME NEW t \in Requests, request'[t].pc = "insert"
      PROVE  \/ request'[t] = request[t]
             \/ \E a \in Accounts, k \in Keys : BeginCreate(t, a, k)
  <2>1. ASSUME NEW a \in Accounts, BeginDelete(t, a) PROVE FALSE
    BY <1>0, <1>2, <2>1 DEF BeginDelete
  <2>2. FirstPush(t) # "insert" BY DEF FirstPush
  <2>3. ASSUME Insert(t) PROVE FALSE
    BY <1>0, <1>2, <2>2, <2>3 DEF Insert, RequestRecords
  <2>4. ASSUME MarkRemoved(t) PROVE FALSE
    BY <1>0, <1>2, <2>4 DEF MarkRemoved, RequestRecords
  <2>5. ~SamePush(t) BY <1>2 DEF SamePush, Pushing
  <2> QED BY <1>2, <2>1, <2>3, <2>4, <2>5, RequestMoves DEF Moves
<1>3. ASSUME NEW t \in Requests, NEW r \in Requests,
             request'[t].pc = "insert", request'[r].pc = "insert",
             request'[t].new = request'[r].new, t # r
      PROVE  FALSE
  <2>1. ASSUME NEW p \in Requests, NEW q \in Requests, p # q,
               NEW a \in Accounts, NEW k \in Keys, BeginCreate(p, a, k),
               request'[q].pc = "insert", request'[p].new = request'[q].new
        PROVE  FALSE
    <3>1. request'[q] = request[q] /\ request'[p].new = k /\ owner[k] = None
      BY <1>0, <2>1 DEF BeginCreate
    <3>2. owner[request[q].new] = request[q].peer /\ request[q].peer \in Accounts
      BY <1>0, <2>1, <3>1 DEF KeyInv, NewOwned
    <3> QED BY <2>1, <3>1, <3>2, NoneAssumption
  <2>2. CASE request'[t] = request[t] /\ request'[r] = request[r]
    BY <1>3, <2>2 DEF KeyInv, NewOwned
  <2> QED BY <1>2, <1>3, <2>1, <2>2
<1> QED BY <1>1, <1>3 DEF NewOwned

LEMMA OldHeldStays ==
  ASSUME TypeInv, KeyInv, [Next]_vars PROVE OldHeld'
<1>0. /\ \A k \in Keys : owner[k] # None => owner'[k] = owner[k]
      /\ \A k \in Keys : Held(k) => Held(k)'
      /\ \A k \in Keys : Held(k) => owner[k] # None
      /\ DOMAIN request = Requests /\ \A t \in Requests : request[t] \in RequestRecords
  BY OwnerStays, HeldStays DEF TypeInv, RequestsOK, Held
<1>1. SUFFICES ASSUME NEW t \in Requests, request'[t].pc \in {"insert", "delete"},
                      request'[t].old \in Keys
               PROVE  owner'[request'[t].old] = request'[t].peer /\ Held(request[t].old)'
  BY DEF OldHeld
<1>2. CASE request'[t] = request[t] BY <1>0, <1>1, <1>2 DEF KeyInv, OldHeld
<1>3. ASSUME NEW a \in Accounts, Known(a), request'[t].old = peers[a].key,
             request'[t].peer = a
      PROVE  owner'[request'[t].old] = request'[t].peer /\ Held(request[t].old)'
  <2>1. owner[peers[a].key] = a /\ Held(peers[a].key) /\ peers[a].key \in Keys
    BY <1>3 DEF KeyInv, RowsOwned, Known
  <2> QED BY <1>0, <1>3, <2>1
<1>4. ASSUME NEW a \in Accounts, NEW k \in Keys, BeginCreate(t, a, k)
      PROVE  Known(a) /\ request'[t].old = peers[a].key /\ request'[t].peer = a
  <2>1. request'[t].peer = a
        /\ request'[t].old = IF Live(a) THEN peers[a].key ELSE None
    BY <1>0, <1>4 DEF BeginCreate
  <2>2. Live(a) BY <1>1, <2>1, NoneAssumption
  <2> QED BY <2>1, <2>2 DEF Live, TypeInv, RowsOK
<1>5. ASSUME NEW a \in Accounts, BeginDelete(t, a)
      PROVE  Known(a) /\ request'[t].old = peers[a].key /\ request'[t].peer = a
  BY <1>0, <1>5 DEF BeginDelete, Live, TypeInv, RowsOK
<1>6. ~Insert(t)
  <2>1. FirstPush(t) \notin {"insert", "delete"} BY DEF FirstPush
  <2> QED BY <1>0, <1>1, <2>1 DEF Insert, RequestRecords
<1>7. ~MarkRemoved(t) BY <1>0, <1>1 DEF MarkRemoved, RequestRecords
<1>8. ~SamePush(t) BY <1>1 DEF SamePush, Pushing
<1> QED BY <1>1, <1>2, <1>3, <1>4, <1>5, <1>6, <1>7, <1>8, RequestMoves DEF Moves

LEMMA OldSpentStays ==
  ASSUME TypeInv, KeyInv, [Next]_vars PROVE OldSpent'
<1>0. /\ \A k \in Keys : Spent(k) => Spent(k)'
      /\ \A k \in Keys : Held(k) => Held(k)'
      /\ DOMAIN request = Requests /\ \A t \in Requests : request[t] \in RequestRecords
  BY SpentStays, HeldStays DEF TypeInv, RequestsOK
<1>1. ASSUME NEW t \in Requests, request'[t].pc = "push_remove"
      PROVE  Spent(request[t].old)'
  <2>1. CASE request'[t] = request[t] \/ SamePush(t)
    <3>1. request[t].pc = "push_remove" /\ request'[t].old = request[t].old
      BY <1>1, <2>1 DEF SamePush
    <3>2. request[t].old \in Keys BY <3>1 DEF TypeInv, RequestsOK, RequestFits
    <3> QED BY <1>0, <3>1, <3>2 DEF KeyInv, OldSpent
  <2>2. ASSUME Insert(t) PROVE Spent(request[t].old)'
    <3>1. /\ request[t].pc = "insert" /\ request[t].peer \in Accounts
          /\ request'[t].pc = FirstPush(t) /\ request'[t].old = request[t].old
          /\ peers' = [peers EXCEPT ![request[t].peer] =
                         [status |-> "pending", key |-> request[t].new]]
      BY <1>0, <2>2 DEF Insert, TypeInv, RequestsOK, RequestFits, RequestRecords
    <3>2. request[t].old \in Keys BY <1>0, <1>1, <3>1 DEF FirstPush, RequestRecords
    <3>3. owner[request[t].old] = request[t].peer /\ Held(request[t].old)
      BY <3>1, <3>2 DEF KeyInv, OldHeld
    <3>4. request[t].new # request[t].old BY <3>1, <3>3 DEF Held
    <3>5. \A a \in Accounts : peers[a].key = request[t].old => a = request[t].peer
      BY <3>2, <3>3 DEF KeyInv, RowsOwned, Known
    <3>6. \A a \in Accounts : peers'[a].key # request[t].old
      BY <3>1, <3>4, <3>5 DEF TypeInv, RowsOK
    <3> QED BY <1>0, <3>1, <3>2, <3>3, <3>6 DEF Spent
  <2>3. ASSUME MarkRemoved(t) PROVE Spent(request[t].old)'
    <3>1. /\ request[t].pc = "delete" /\ request[t].peer \in Accounts
          /\ request[t].old \in Keys /\ request'[t].old = request[t].old
          /\ retired' = retired \cup {peers[request[t].peer].key}
      BY <1>0, <2>3 DEF MarkRemoved, TypeInv, RequestsOK, RequestFits, RequestRecords
    <3>2. owner[request[t].old] = request[t].peer /\ Held(request[t].old)
      BY <3>1 DEF KeyInv, OldHeld
    <3>3. \A a \in Accounts : peers[a].key = request[t].old => a = request[t].peer
      BY <3>1, <3>2 DEF KeyInv, RowsOwned, Known
    <3>4. \A a \in Accounts : peers'[a].key = peers[a].key
      BY <2>3, <3>1 DEF MarkRemoved, TypeInv, RowsOK, Rows
    <3>5. request[t].old \in retired' \/ \A a \in Accounts : peers'[a].key # request[t].old
      BY <3>1, <3>3, <3>4
    <3> QED BY <1>0, <3>1, <3>2, <3>5 DEF Spent
  <2>4. ASSUME NEW a \in Accounts, NEW k \in Keys, BeginCreate(t, a, k) PROVE FALSE
    BY <1>0, <1>1, <2>4 DEF BeginCreate
  <2>5. ASSUME NEW a \in Accounts, BeginDelete(t, a) PROVE FALSE
    BY <1>0, <1>1, <2>5 DEF BeginDelete
  <2> QED BY <1>1, <2>1, <2>2, <2>3, <2>4, <2>5, RequestMoves DEF Moves
<1>2. ASSUME NEW u, InFlight(u)', u.action = "REMOVE" PROVE Spent(u.key)'
  <2>1. CASE InFlight(u)
    BY <1>0, <1>2, <2>1, FlightType DEF KeyInv, OldSpent
  <2>2. ASSUME NEW t \in Requests, Pushing(t), u = Update(t) PROVE Spent(u.key)'
    <3>1. request[t].pc = "push_remove" /\ u.key = request[t].old
      BY <1>2, <2>2, UpdateType DEF Pushing
    <3>2. request[t].old \in Keys BY <3>1 DEF TypeInv, RequestsOK, RequestFits
    <3> QED BY <1>0, <3>1, <3>2 DEF KeyInv, OldSpent
  <2>3. ASSUME NEW a \in Accounts, u = Add(a, peers[a].key) PROVE FALSE
    BY <1>2, <2>3 DEF Add
  <2> QED BY <1>2, <2>1, <2>2, <2>3, Flow DEF Flows, Sent
<1> QED BY <1>1, <1>2 DEF OldSpent

LEMMA KeyInit == Init => KeyInv
<1> SUFFICES ASSUME Init PROVE KeyInv OBVIOUS
<1>1. /\ \A t \in Requests : request[t].pc = "idle"
      /\ \A a \in Accounts : ~Known(a)
  BY NoneAssumption DEF Init, IdleRequest, Known
<1>2. \A u : ~InFlight(u) BY CarriesNone DEF Init, InFlight, FreeStream
<1> QED BY <1>1, <1>2 DEF KeyInv, RowsOwned, NewOwned, OldHeld, OldSpent

LEMMA KeyStays == TypeInv /\ KeyInv /\ [Next]_vars => KeyInv'
BY RowsOwnedStays, NewOwnedStays, OldHeldStays, OldSpentStays DEF KeyInv

-----------------------------------------------------------------------------
(* No wanted key is lost.                                                  *)

LEMMA WantedIsOwned ==
  ASSUME TypeInv, KeyInv, NEW a \in Accounts, NEW k \in Keys, Wanted(a, k)
  PROVE  owner[k] = a /\ ~Spent(k)
BY DEF Wanted, KeyInv, RowsOwned, Known, Spent

(* A key becomes wanted when its row is inserted, and never again.         *)
LEMMA WantedStep ==
  ASSUME TypeInv, KeyInv, [Next]_vars,
         NEW a \in Accounts, NEW k \in Keys, Wanted(a, k)'
  PROVE  \/ Wanted(a, k)
         \/ \E t \in Requests : Insert(t) /\ request[t].new = k
<1>0. peers'[a].key = k /\ peers'[a].status \in {"pending", "active"} /\ k \notin retired'
  BY DEF Wanted, Live
<1>1. k \notin retired BY <1>0, RowsChange
<1>2. CASE UNCHANGED <<peers, retired>> BY <1>0, <1>1, <1>2 DEF Wanted, Live
<1>3. ASSUME NEW t \in Requests, Insert(t) PROVE Wanted(a, k) \/ request[t].new = k
  BY <1>0, <1>1, <1>3 DEF Insert, Wanted, Live, TypeInv, RowsOK
<1>4. ASSUME NEW t \in Requests, MarkRemoved(t) PROVE Wanted(a, k)
  BY <1>0, <1>1, <1>4 DEF MarkRemoved, Wanted, Live, TypeInv, RowsOK, Rows
<1>5. ASSUME NEW b \in Accounts, ReportArrives(b) PROVE Wanted(a, k)
  <2>1. peers[a].key = k BY <1>0, <1>5 DEF ReportArrives, TypeInv, RowsOK, Rows
  <2>2. Known(a) BY <2>1 DEF Known
  <2>3. peers[a].status # "removed" BY <1>1, <2>1, <2>2 DEF KeyInv, RowsOwned
  <2>4. peers[a].status \in {"pending", "active"}
    BY <2>2, <2>3 DEF TypeInv, RowsOK, Rows
  <2> QED BY <1>1, <2>1, <2>4 DEF Wanted, Live
<1> QED BY <1>2, <1>3, <1>4, <1>5, RowsChange DEF RowsStep

(* The agent's stream counts as caught up from its catch-up to its end.    *)
LEMMA CaughtUpStep ==
  ASSUME TypeInv, [Next]_vars, CaughtUp'
  PROVE  /\ current' = current /\ current \in Streams
         /\ CaughtUp \/ CatchUp(current) \/ CatchUpFails(current)
<1>0. /\ current' # None /\ stream'[current'].state \in {"listed", "subscribed"}
      /\ stream \in [Streams -> StreamRecords] /\ current \in Streams \cup {None}
  BY DEF CaughtUp, TypeInv, StreamsOK, AgentOK
<1> DEFINE Goal == current' = current /\ current \in Streams
                   /\ (CaughtUp \/ CatchUp(current) \/ CatchUpFails(current))
<1>1. ASSUME NEW t \in Requests, PushAccepted(t) PROVE Goal
  <2>1. current' = current /\ current \in Streams BY <1>0, <1>1 DEF PushAccepted, agentVars
  <2>2. stream'[current].state = stream[current].state
    BY <1>0, <1>1, <2>1 DEF PushAccepted, StreamRecords
  <2> QED BY <1>0, <2>1, <2>2 DEF CaughtUp
<1>2. ASSUME NEW c \in Streams, Connect(c) PROVE FALSE
  BY <1>0, <1>2 DEF Connect, StreamRecords
<1>3. ASSUME NEW c \in Streams, CatchUp(c) \/ CatchUpFails(c) \/ Subscribe(c) PROVE Goal
  <2>1. current' = current /\ current \in Streams
    BY <1>0, <1>3 DEF CatchUp, CatchUpFails, Subscribe, agentVars
  <2>2. c # current => stream'[current] = stream[current]
    BY <1>0, <1>3, <2>1 DEF CatchUp, CatchUpFails, Subscribe
  <2>3. Subscribe(c) => stream[c].state = "listed" BY DEF Subscribe
  <2> QED BY <1>0, <1>3, <2>1, <2>2, <2>3 DEF CaughtUp
<1>4. ASSUME NEW c \in Streams, Forward(c) PROVE Goal
  <2>1. current' = current /\ current \in Streams BY <1>0, <1>4 DEF Forward
  <2>2. stream'[current].state = stream[current].state
    BY <1>0, <1>4, <2>1 DEF Forward, StreamRecords
  <2> QED BY <1>0, <2>1, <2>2 DEF CaughtUp
<1>5. ASSUME NEW c \in Streams, Disconnected(c) PROVE Goal
  <2>1. current' = current /\ current \in Streams /\ c # current
    BY <1>0, <1>5 DEF Disconnected, agentVars
  <2>2. stream'[current] = stream[current]
    BY <1>0, <1>5, <2>1 DEF Disconnected
  <2> QED BY <1>0, <2>1, <2>2 DEF CaughtUp
<1>6. ~Failure
  BY <1>0 DEF Failure, Break, HalfOpen, Reboot, ManagerCrash, EndOfStream
<1>7. ASSUME \/ Client
             \/ \E t \in Requests : Insert(t) \/ MarkRemoved(t) \/ PushRetried(t)
                                    \/ PushGivenUp(t)
             \/ ApplyAdd \/ ApplyRemove \/ ApplyFails
             \/ \E a \in Accounts : ReportStep(a)
             \/ UNCHANGED vars
      PROVE  UNCHANGED <<stream, current>>
  BY <1>7, Zenon DEF Client, BeginCreate, BeginDelete, Insert, MarkRemoved, PushRetried,
       PushGivenUp, ApplyAdd, ApplyRemove, ApplyFails, ReportStep, ReportArrives,
       ReportLost, vars, managerVars, agentVars
<1>8. UNCHANGED <<stream, current>> => Goal BY <1>0 DEF CaughtUp
<1> QED
  BY <1>1, <1>2, <1>3, <1>4, <1>5, <1>6, <1>7, <1>8, Zenon
     DEF Next, RequestStep, StreamStep, AgentStep

(* While the stream is caught up, its misses are remembered.               *)
LEMMA MissedStays ==
  ASSUME TypeInv, [Next]_vars, CaughtUp PROVE missed \subseteq missed'
<1>1. ASSUME NEW c \in Streams, CatchUp(c) \/ CatchUpFails(c) PROVE UNCHANGED missed
  <2>1. c # current BY <1>1 DEF CatchUp, CatchUpFails, CaughtUp
  <2> QED BY <1>1, <2>1 DEF CatchUp, CatchUpFails
<1>2. ASSUME NEW t \in Requests, PushAccepted(t) \/ PushGivenUp(t)
      PROVE  missed \subseteq missed'
  BY <1>2 DEF PushAccepted, PushGivenUp
<1>3. ASSUME ApplyFails PROVE missed \subseteq missed' BY <1>3 DEF ApplyFails
<1>4. ASSUME \/ Client
             \/ \E t \in Requests : Insert(t) \/ MarkRemoved(t) \/ PushRetried(t)
             \/ \E c \in Streams : Connect(c) \/ Subscribe(c) \/ Forward(c) \/ Disconnected(c)
             \/ ApplyAdd \/ ApplyRemove
             \/ \E a \in Accounts : ReportStep(a)
             \/ Failure \/ UNCHANGED vars
      PROVE  UNCHANGED missed
  BY <1>4, Zenon DEF Client, BeginCreate, BeginDelete, Insert, MarkRemoved, PushRetried,
       Connect, Subscribe, Forward, Disconnected, ApplyAdd, ApplyRemove, ReportStep,
       ReportArrives, ReportLost, Failure, Break, HalfOpen, Reboot, ManagerCrash, vars
<1>5. UNCHANGED missed => missed \subseteq missed' OBVIOUS
<1> QED
  BY <1>1, <1>2, <1>3, <1>4, <1>5, Zenon DEF Next, RequestStep, StreamStep, AgentStep

(* A key leaves the kernel only when the host restarts or a REMOVE names   *)
(* it, and then it is spent.                                               *)
LEMMA KernelStays ==
  ASSUME TypeInv, KeyInv, [Next]_vars, current' # None,
         NEW k \in wg0, ~Spent(k)
  PROVE  k \in wg0'
<1>1. ASSUME ApplyRemove PROVE k \in wg0'
  <2>1. wire # << >> /\ Head(wire).action = "REMOVE" /\ wg0' = wg0 \ {Head(wire).key}
    BY <1>1 DEF ApplyRemove
  <2>2. Spent(Head(wire).key) BY <2>1, WireHead DEF KeyInv, OldSpent
  <2> QED BY <2>1, <2>2
<1>2. ASSUME ApplyAdd PROVE k \in wg0' BY <1>2 DEF ApplyAdd
<1>3. ~Reboot BY DEF Reboot, EndOfStream
<1>4. ASSUME \/ Client
             \/ \E t \in Requests : RequestStep(t)
             \/ \E c \in Streams : StreamStep(c) \/ Connect(c)
             \/ ApplyFails
             \/ \E a \in Accounts : ReportStep(a)
             \/ Break \/ HalfOpen \/ ManagerCrash \/ UNCHANGED vars
      PROVE  UNCHANGED wg0
  BY <1>4, Zenon DEF Client, BeginCreate, BeginDelete, RequestStep, Insert, MarkRemoved,
       PushAccepted, PushRetried, PushGivenUp, StreamStep, CatchUp, CatchUpFails, Subscribe,
       Forward, Disconnected, Connect, ApplyFails, ReportStep, ReportArrives, ReportLost,
       Break, HalfOpen, ManagerCrash, vars, agentVars
<1>5. UNCHANGED wg0 => k \in wg0' OBVIOUS
<1> QED BY <1>1, <1>2, <1>3, <1>4, <1>5, Zenon DEF Next, AgentStep, Failure

(* An ADD stays on its way until the agent takes it from the wire.         *)
LEMMA WayStays ==
  ASSUME TypeInv, [Next]_vars, CaughtUp, CaughtUp', NEW u \in Updates, OnItsWay(u)
  PROVE  OnItsWay(u)' \/ ((ApplyAdd \/ ApplyRemove \/ ApplyFails) /\ u = Head(wire))
<1>0. /\ current' = current /\ current \in Streams
      /\ stream \in [Streams -> StreamRecords]
      /\ stream[current].buf \in Seq(Updates) /\ wire \in Seq(Updates)
  BY CaughtUpStep DEF TypeInv, StreamsOK, AgentOK, StreamRecords
<1>1. ASSUME NEW t \in Requests, PushAccepted(t) PROVE OnItsWay(u)'
  <2>1. wire' = wire BY <1>1 DEF PushAccepted, agentVars
  <2>2. CASE current \in Receivers
    <3>1. stream'[current] = [stream[current] EXCEPT !.buf = Append(@, Update(t))]
      BY <1>0, <1>1, <2>2 DEF PushAccepted
    <3>2. stream[current] \in StreamRecords BY <1>0
    <3>3. stream'[current].buf = Append(stream[current].buf, Update(t))
      BY <3>1, <3>2 DEF StreamRecords
    <3>4. Update(t) \in Updates BY <1>1, UpdateType DEF PushAccepted
    <3>5. Carries(stream[current].buf, u) => Carries(stream'[current].buf, u)
      BY <1>0, <3>3, <3>4, CarriesAppend
    <3> QED BY <1>0, <2>1, <3>5, Zenon DEF OnItsWay
  <2>3. CASE current \notin Receivers
    <3>1. stream'[current] = stream[current] BY <1>0, <1>1, <2>3 DEF PushAccepted
    <3> QED BY <1>0, <2>1, <3>1, Zenon DEF OnItsWay
  <2> QED BY <2>2, <2>3
<1>2. ASSUME NEW c \in Streams, Forward(c) PROVE OnItsWay(u)'
  <2>1. CASE c = current
    <3>1. /\ stream'[current].buf = Tail(stream[current].buf)
          /\ stream[current].buf # << >>
          /\ wire' = Append(wire, Head(stream[current].buf))
      BY <1>0, <1>2, <2>1 DEF Forward, StreamRecords
    <3>2. /\ Head(stream[current].buf) \in Updates
          /\ Carries(stream[current].buf, u) =>
               Carries(Tail(stream[current].buf), u) \/ u = Head(stream[current].buf)
      BY <1>0, <3>1, CarriesTail
    <3>3. Carries(wire', u) <=> Carries(wire, u) \/ u = Head(stream[current].buf)
      BY <1>0, <3>1, <3>2, CarriesAppend
    <3> QED BY <1>0, <3>1, <3>2, <3>3, Zenon DEF OnItsWay
  <2>2. CASE c # current
    <3>1. wire' = wire /\ stream'[current] = stream[current]
      BY <1>0, <1>2, <2>2 DEF Forward
    <3> QED BY <1>0, <3>1, Zenon DEF OnItsWay
  <2> QED BY <2>1, <2>2
<1>3. ASSUME NEW c \in Streams, CatchUp(c) PROVE OnItsWay(u)'
  <2>1. c # current BY <1>3 DEF CatchUp, CaughtUp
  <2>2. wire' = wire /\ stream'[current] = stream[current]
    BY <1>0, <1>3, <2>1 DEF CatchUp
  <2> QED BY <1>0, <2>2, Zenon DEF OnItsWay
<1>4. ASSUME NEW c \in Streams, CatchUpFails(c) \/ Subscribe(c) \/ Disconnected(c)
      PROVE  OnItsWay(u)'
  <2>1. wire' = wire BY <1>4 DEF CatchUpFails, Subscribe, Disconnected, agentVars
  <2>2. stream'[current].buf = stream[current].buf
    <3>1. ASSUME CatchUpFails(c) PROVE stream'[current].buf = stream[current].buf
      BY <1>0, <3>1 DEF CatchUpFails, StreamRecords
    <3>2. ASSUME Subscribe(c) PROVE stream'[current].buf = stream[current].buf
      BY <1>0, <3>2 DEF Subscribe, StreamRecords
    <3>3. ASSUME Disconnected(c) PROVE stream'[current].buf = stream[current].buf
      BY <1>0, <3>3 DEF Disconnected
    <3> QED BY <1>4, <3>1, <3>2, <3>3
  <2> QED BY <1>0, <2>1, <2>2, Zenon DEF OnItsWay
<1>5. ASSUME ApplyAdd \/ ApplyRemove \/ ApplyFails
      PROVE  OnItsWay(u)' \/ u = Head(wire)
  <2>1. wire' = Tail(wire) /\ wire # << >> /\ stream' = stream
    BY <1>5 DEF ApplyAdd, ApplyRemove, ApplyFails, managerVars
  <2>2. Carries(wire, u) => Carries(wire', u) \/ u = Head(wire)
    BY <1>0, <2>1, CarriesTail
  <2> QED BY <1>0, <2>1, <2>2, Zenon DEF OnItsWay
<1>6. ASSUME NEW c \in Streams, Connect(c) PROVE FALSE BY <1>6 DEF Connect, CaughtUp
<1>7. ~Failure
  BY <1>0, NoneAssumption DEF Failure, Break, HalfOpen, Reboot, ManagerCrash, EndOfStream
<1>8. ASSUME \/ Client
             \/ \E t \in Requests : Insert(t) \/ MarkRemoved(t) \/ PushRetried(t)
                                    \/ PushGivenUp(t)
             \/ \E a \in Accounts : ReportStep(a)
             \/ UNCHANGED vars
      PROVE  UNCHANGED <<stream, wire>>
  BY <1>8, Zenon DEF Client, BeginCreate, BeginDelete, Insert, MarkRemoved, PushRetried,
       PushGivenUp, ReportStep, ReportArrives, ReportLost, vars, managerVars, agentVars
<1>9. UNCHANGED <<stream, wire>> => OnItsWay(u)' BY <1>0, Zenon DEF OnItsWay
<1> QED
  BY <1>1, <1>2, <1>3, <1>4, <1>5, <1>6, <1>7, <1>8, <1>9, Zenon
     DEF Next, RequestStep, StreamStep, AgentStep

(* A push of a wanted key ends on the stream or as a miss.                 *)
LEMMA PushEnds ==
  ASSUME TypeInv, KeyInv, [Next]_vars, CaughtUp, CaughtUp',
         NEW a \in Accounts, NEW k \in Keys, owner[k] = a, StillPushing(k)
  PROVE  StillPushing(k)' \/ k \in missed' \/ OnItsWay(Add(a, k))'
<1>0. PICK t \in Requests : request[t].new = k /\ Pushing(t)
  BY DEF StillPushing, Pushing
<1>1. /\ request[t].peer = a /\ k # None /\ request[t] \in RequestRecords
      /\ DOMAIN request = Requests
      /\ current' = current /\ current \in Streams
  BY <1>0, CaughtUpStep, NoneAssumption DEF Pushing, KeyInv, NewOwned, TypeInv, RequestsOK
<1>2. CASE request'[t] = request[t] \/ SamePush(t)
  BY <1>0, <1>2 DEF StillPushing, Pushing, SamePush
<1>3. ASSUME PushGivenUp(t) PROVE k \in missed'
  BY <1>0, <1>1, <1>3 DEF PushGivenUp
<1>4. ASSUME PushAccepted(t), request'[t].pc = "idle"
      PROVE  k \in missed' \/ OnItsWay(Add(a, k))'
  <2>1. request[t].pc = "push_add"
    <3>1. request'[t] = NextPush(t) BY <1>1, <1>4 DEF PushAccepted
    <3>2. SUFFICES ASSUME request[t].pc = "push_remove" PROVE FALSE BY <1>0 DEF Pushing
    <3>3. NextPush(t) = [request[t] EXCEPT !.pc = "push_add", !.tries = 0]
      BY <1>0, <1>1, <3>2 DEF NextPush
    <3> QED BY <1>1, <1>4, <3>1, <3>3 DEF RequestRecords
  <2>2. Update(t) = Add(a, k) /\ Update(t) \in Updates
    BY <1>0, <1>1, <2>1, UpdateType
  <2>3. CASE current \notin Receivers BY <1>0, <1>4, <2>1, <2>3 DEF PushAccepted
  <2>4. CASE current \in Receivers
    <3>1. stream[current] \in StreamRecords BY <1>1 DEF TypeInv, StreamsOK
    <3>2. stream'[current] = [stream[current] EXCEPT !.buf = Append(@, Update(t))]
      BY <1>1, <1>4, <2>4 DEF PushAccepted
    <3>3. stream'[current].buf = Append(stream[current].buf, Add(a, k))
          /\ stream[current].buf \in Seq(Updates)
      BY <2>2, <3>1, <3>2 DEF StreamRecords
    <3>4. Carries(stream'[current].buf, Add(a, k)) BY <2>2, <3>3, CarriesAppend
    <3>5. Add(a, k)' = Add(a, k) BY DEF Add
    <3> QED BY <1>1, <3>4, <3>5, Zenon DEF OnItsWay
  <2> QED BY <2>3, <2>4
<1>5. ~ManagerCrash BY <1>1, NoneAssumption DEF ManagerCrash, EndOfStream
<1>6. ~Insert(t) /\ ~MarkRemoved(t) BY <1>0 DEF Insert, MarkRemoved, Pushing
<1>7. \A b \in Accounts, l \in Keys : ~BeginCreate(t, b, l)
  BY <1>0 DEF BeginCreate, Pushing
<1>8. \A b \in Accounts : ~BeginDelete(t, b) BY <1>0 DEF BeginDelete, Pushing
<1> QED
  BY <1>2, <1>3, <1>4, <1>5, <1>6, <1>7, <1>8, RequestMoves, Zenon DEF Moves

Safe(a, k) == k \in wg0 \cup missed \/ OnItsWay(Add(a, k)) \/ StillPushing(k)

LEMMA SafeStays ==
  ASSUME TypeInv, KeyInv, [Next]_vars, CaughtUp, CaughtUp',
         NEW a \in Accounts, NEW k \in Keys, Wanted(a, k), Safe(a, k)
  PROVE  Safe(a, k)'
<1>1. /\ owner[k] = a /\ ~Spent(k) /\ missed \subseteq missed'
      /\ Add(a, k) \in Updates /\ Add(a, k).action = "ADD" /\ Add(a, k).key = k
      /\ Add(a, k)' = Add(a, k)
  BY WantedIsOwned, MissedStays DEF Add, Updates
<1>2. CASE k \in missed BY <1>1, <1>2 DEF Safe
<1>3. CASE k \in wg0
  <2>1. current' # None BY DEF CaughtUp
  <2> QED BY <1>1, <1>3, <2>1, KernelStays DEF Safe
<1>4. CASE OnItsWay(Add(a, k))
  <2>1. CASE OnItsWay(Add(a, k))' BY <2>1, Zenon DEF Safe
  <2>2. CASE ApplyAdd /\ Add(a, k) = Head(wire)
    <3>1. k \in wg0' BY <1>1, <2>2 DEF ApplyAdd
    <3> QED BY <3>1 DEF Safe
  <2>3. CASE ApplyRemove /\ Add(a, k) = Head(wire)
    BY <1>1, <2>3 DEF ApplyRemove
  <2>4. CASE ApplyFails /\ Add(a, k) = Head(wire)
    <3>1. k \in missed' BY <1>1, <2>4 DEF ApplyFails
    <3> QED BY <3>1 DEF Safe
  <2>5. \A u \in Updates : OnItsWay(u) =>
          OnItsWay(u)' \/ ((ApplyAdd \/ ApplyRemove \/ ApplyFails) /\ u = Head(wire))
    BY WayStays
  <2> QED BY <1>1, <1>4, <2>1, <2>2, <2>3, <2>4, <2>5, Zenon
<1>5. CASE StillPushing(k) BY <1>1, <1>5, PushEnds, Zenon DEF Safe
<1> QED BY <1>2, <1>3, <1>4, <1>5 DEF Safe

(* The catch-up covers every key that is wanted when it is sent.           *)
LEMMA SafeAfterCatchUp ==
  ASSUME TypeInv, CatchUp(current) \/ CatchUpFails(current), current \in Streams,
         NEW a \in Accounts, NEW k \in Keys, Wanted(a, k)
  PROVE  Safe(a, k)'
<1>1. Live(a) /\ peers[a].key = k BY DEF Wanted
<1>2. CASE CatchUp(current)
  <2>1. PICK q \in Listings :
          wire' = wire \o [i \in DOMAIN q |-> Add(q[i], peers[q[i]].key)]
    BY <1>2, Zenon DEF CatchUp
  <2> DEFINE adds == [i \in DOMAIN q |-> Add(q[i], peers[q[i]].key)]
  <2>2. /\ adds \in Seq(Updates)
        /\ \A u : Carries(adds, u) <=> \E b \in Accounts : Live(b) /\ u = Add(b, peers[b].key)
    BY ListingType
  <2>3. Carries(adds, Add(a, k)) BY <1>1, <2>2
  <2>4. wire \in Seq(Updates) /\ wire' = wire \o adds BY <2>1 DEF TypeInv, AgentOK
  <2> HIDE DEF adds
  <2>5. Carries(wire', Add(a, k)) BY <2>2, <2>3, <2>4, CarriesConcat
  <2>6. Add(a, k)' = Add(a, k) BY DEF Add
  <2> QED BY <2>5, <2>6, Zenon DEF Safe, OnItsWay
<1>3. CASE CatchUpFails(current)
  <2>1. a \in LiveRows BY <1>1 DEF LiveRows
  <2>2. k \in missed' BY <1>1, <1>3, <2>1 DEF CatchUpFails
  <2> QED BY <2>2 DEF Safe
<1> QED BY <1>2, <1>3

NotLostInv == \A a \in Accounts, k \in Keys : CaughtUp /\ Wanted(a, k) => Safe(a, k)

LEMMA NotLostStays ==
  ASSUME TypeInv, KeyInv, NotLostInv, [Next]_vars PROVE NotLostInv'
<1>1. SUFFICES ASSUME NEW a \in Accounts, NEW k \in Keys, CaughtUp', Wanted(a, k)'
               PROVE  Safe(a, k)'
  BY Zenon DEF NotLostInv
<1>2. ASSUME NEW t \in Requests, Insert(t), request[t].new = k PROVE Safe(a, k)'
  <2>1. request'[t].new = k /\ request'[t].pc \in {"push_remove", "push_add"}
    BY <1>2 DEF Insert, FirstPush, TypeInv, RequestsOK, RequestRecords
  <2>2. StillPushing(k)' BY <2>1 DEF StillPushing
  <2> QED BY <2>2 DEF Safe
<1>3. CASE Wanted(a, k)
  <2>1. CASE CaughtUp BY <1>1, <1>3, <2>1, SafeStays DEF NotLostInv
  <2>2. CASE ~CaughtUp
    BY <1>1, <1>3, <2>2, CaughtUpStep, SafeAfterCatchUp
  <2> QED BY <2>1, <2>2
<1> QED BY <1>1, <1>2, <1>3, WantedStep

(* WantedPeersNotLost: once a stream has sent its catch-up, however many   *)
(* breaks, restarts and lost reports there were, every key an account was  *)
(* given and did not delete is in the kernel, on its way there, still      *)
(* being pushed, or was missed by this very stream.                        *)
THEOREM WantedPeersNotLost == Spec => []NotLost
<1>1. Init => KeyInv /\ NotLostInv
  BY KeyInit DEF Init, NotLostInv, CaughtUp
<1>2. TypeInv /\ KeyInv /\ NotLostInv /\ [Next]_vars => (KeyInv /\ NotLostInv)'
  BY KeyStays, NotLostStays
<1>3. NotLostInv => NotLost BY Zenon DEF NotLostInv, NotLost, Safe
<1> QED BY <1>1, <1>2, <1>3, AlwaysTypeInv, PTL DEF Spec

-----------------------------------------------------------------------------
(* The kernel ahead of time: what wg0 will hold when the agent has applied *)
(* the first i of the updates that are on their way.                       *)

Takes(u, k) == u.action = "REMOVE" /\ u.key = k
Gives(u, k) == u.action = "ADD" /\ u.key = k

Applied(w, q, i, k) ==
  \/ k \in w /\ \A j \in 1..i : ~Takes(q[j], k)
  \/ \E j \in 1..i : Gives(q[j], k) /\ \A m \in (j + 1)..i : ~Takes(q[m], k)

LEMMA AppliedNone ==
  ASSUME NEW w, NEW q, NEW k
  PROVE  Applied(w, q, 0, k) <=> k \in w
BY DEF Applied

(* A new update changes nothing before it, and it comes last.              *)
LEMMA AppliedAppend ==
  ASSUME NEW w, NEW q \in Seq(Updates), NEW u \in Updates, NEW k
  PROVE  /\ \A i \in 0..Len(q) : Applied(w, Append(q, u), i, k) <=> Applied(w, q, i, k)
         /\ Applied(w, Append(q, u), Len(q) + 1, k)
              => Gives(u, k) \/ (Applied(w, q, Len(q), k) /\ ~Takes(u, k))
<1> DEFINE n == Len(q)
<1>1. n \in Nat /\ \A j \in 1..n : Append(q, u)[j] = q[j]
  OBVIOUS
<1>2. Append(q, u)[n + 1] = u
  OBVIOUS
<1> HIDE DEF n
<1>3. ASSUME NEW i \in 0..n
      PROVE  Applied(w, Append(q, u), i, k) <=> Applied(w, q, i, k)
  <2>1. \A j \in 1..i : j \in 1..n /\ \A m \in (j + 1)..i : m \in 1..n
    BY <1>1
  <2> QED
    BY <1>1, <2>1 DEF Applied
<1>4. ASSUME Applied(w, Append(q, u), n + 1, k)
      PROVE  Gives(u, k) \/ (Applied(w, q, n, k) /\ ~Takes(u, k))
  <2>1. n + 1 \in 1..(n + 1) /\ \A j \in 1..n : j \in 1..(n + 1)
    BY <1>1
  <2>2. CASE k \in w /\ \A j \in 1..(n + 1) : ~Takes(Append(q, u)[j], k)
    BY <1>1, <1>2, <2>1, <2>2 DEF Applied
  <2>3. ASSUME NEW j \in 1..(n + 1), Gives(Append(q, u)[j], k),
               \A m \in (j + 1)..(n + 1) : ~Takes(Append(q, u)[m], k)
        PROVE  Gives(u, k) \/ (Applied(w, q, n, k) /\ ~Takes(u, k))
    <3>1. CASE j = n + 1
      BY <1>2, <2>3, <3>1
    <3>2. CASE j # n + 1
      <4>1. j \in 1..n /\ n + 1 \in (j + 1)..(n + 1)
        BY <1>1, <3>2
      <4>2. \A m \in (j + 1)..n : m \in (j + 1)..(n + 1) /\ m \in 1..n
        BY <1>1, <4>1
      <4>3. Gives(q[j], k) /\ ~Takes(u, k) /\ \A m \in (j + 1)..n : ~Takes(q[m], k)
        BY <1>1, <1>2, <2>3, <4>1, <4>2
      <4> QED
        BY <4>1, <4>3 DEF Applied
    <3> QED
      BY <3>1, <3>2
  <2> QED
    BY <1>4, <2>2, <2>3 DEF Applied
<1> QED
  BY <1>3, <1>4 DEF n

(* The agent applies the first update.                                     *)
LEMMA AppliedTail ==
  ASSUME NEW w, NEW x, NEW q \in Seq(Updates), NEW k, NEW i \in Nat,
         q # << >>, i + 1 <= Len(q),
         k \in x => Gives(Head(q), k) \/ (k \in w /\ ~Takes(Head(q), k)),
         Applied(x, Tail(q), i, k)
  PROVE  Applied(w, q, i + 1, k)
<1>1. /\ Len(q) \in Nat /\ Head(q) = q[1]
      /\ \A j \in 1..i : Tail(q)[j] = q[j + 1]
  OBVIOUS
<1>2. \A j \in 2..(i + 1) : j - 1 \in 1..i /\ (j - 1) + 1 = j
  OBVIOUS
<1>3. 1 \in 1..(i + 1) /\ \A j \in 1..(i + 1) : j = 1 \/ j \in 2..(i + 1)
  OBVIOUS
<1>4. CASE k \in x /\ \A j \in 1..i : ~Takes(Tail(q)[j], k)
  <2>1. \A j \in 2..(i + 1) : ~Takes(q[j], k)
    BY <1>1, <1>2, <1>4
  <2>2. CASE Gives(q[1], k)
    <3>1. \A m \in (1 + 1)..(i + 1) : ~Takes(q[m], k)
      BY <2>1
    <3> QED
      BY <1>3, <2>2, <3>1 DEF Applied
  <2>3. CASE k \in w /\ ~Takes(q[1], k)
    BY <1>3, <2>1, <2>3 DEF Applied
  <2> QED
    BY <1>1, <1>4, <2>2, <2>3
<1>5. ASSUME NEW j \in 1..i, Gives(Tail(q)[j], k),
             \A m \in (j + 1)..i : ~Takes(Tail(q)[m], k)
      PROVE  Applied(w, q, i + 1, k)
  <2>1. j + 1 \in 1..(i + 1) /\ Gives(q[j + 1], k)
    BY <1>1, <1>5
  <2>2. ASSUME NEW m \in ((j + 1) + 1)..(i + 1)
        PROVE  ~Takes(q[m], k)
    <3>1. m - 1 \in (j + 1)..i /\ m - 1 \in 1..i /\ (m - 1) + 1 = m
      OBVIOUS
    <3> QED
      BY <1>1, <1>5, <3>1
  <2> QED
    BY <2>1, <2>2 DEF Applied
<1> QED
  BY <1>4, <1>5 DEF Applied

LEMMA AppliedGiven ==
  ASSUME NEW q \in Seq(Updates), NEW k, NEW i \in 0..Len(q), Applied({}, q, i, k)
  PROVE  \E u : Carries(q, u) /\ Gives(u, k)
<1>1. PICK j \in 1..i : Gives(q[j], k)
  BY DEF Applied
<1>2. j \in DOMAIN q
  OBVIOUS
<1> QED
  BY <1>1, <1>2 DEF Carries

(* The handler passes the head of its channel on to the wire.              *)
LEMMA PassOn ==
  ASSUME NEW S, NEW q \in Seq(S), NEW r \in Seq(S), r # << >>
  PROVE  Append(q, Head(r)) \o Tail(r) = q \o r
<1> DEFINE x == Append(q, Head(r)) \o Tail(r)
           y == q \o r
<1>0. /\ Head(r) \in S /\ Tail(r) \in Seq(S) /\ Len(r) \in Nat /\ Len(r) >= 1
      /\ Len(Tail(r)) = Len(r) - 1 /\ Head(r) = r[1] /\ Len(q) \in Nat
      /\ \A j \in 1..Len(Tail(r)) : Tail(r)[j] = r[j + 1]
  OBVIOUS
<1>1. Append(q, Head(r)) \in Seq(S) /\ Len(Append(q, Head(r))) = Len(q) + 1
  BY <1>0
<1>2. x \in Seq(S) /\ y \in Seq(S) /\ Len(x) = Len(y) /\ Len(y) = Len(q) + Len(r)
  BY <1>0, <1>1
<1>3. ASSUME NEW i \in 1..Len(y)
      PROVE  x[i] = y[i]
  <2>1. CASE i <= Len(q)
    BY <1>0, <1>1, <1>2, <2>1
  <2>2. CASE i = Len(q) + 1
    BY <1>0, <1>1, <1>2, <2>2
  <2>3. CASE i > Len(q) + 1
    BY <1>0, <1>1, <1>2, <2>3
  <2> QED
    BY <1>0, <1>2, <2>1, <2>2, <2>3
<1> HIDE DEF x, y
<1>4. x = y
  BY <1>2, <1>3
<1> QED
  BY <1>4 DEF x, y

LEMMA ApplyFirst ==
  ASSUME NEW S, NEW q \in Seq(S), NEW r \in Seq(S), q # << >>
  PROVE  /\ Tail(q) \o r = Tail(q \o r) /\ Head(q \o r) = Head(q)
         /\ q \o r \in Seq(S) /\ q \o r # << >>
<1>0. /\ Tail(q) \in Seq(S) /\ Len(q) \in Nat /\ Len(q) >= 1 /\ Len(r) \in Nat
      /\ Len(Tail(q)) = Len(q) - 1
      /\ \A j \in 1..Len(Tail(q)) : Tail(q)[j] = q[j + 1]
  OBVIOUS
<1>1. q \o r \in Seq(S) /\ Len(q \o r) = Len(q) + Len(r) /\ q \o r # << >>
  BY <1>0
<1> DEFINE x == Tail(q) \o r
           y == Tail(q \o r)
<1>2. x \in Seq(S) /\ y \in Seq(S) /\ Len(x) = Len(y) /\ Len(y) = (Len(q) + Len(r)) - 1
  BY <1>0, <1>1
<1>3. ASSUME NEW i \in 1..Len(y)
      PROVE  x[i] = y[i]
  <2>1. y[i] = (q \o r)[i + 1]
    BY <1>0, <1>1, <1>2
  <2>2. CASE i <= Len(Tail(q))
    BY <1>0, <1>1, <1>2, <2>1, <2>2
  <2>3. CASE i > Len(Tail(q))
    BY <1>0, <1>1, <1>2, <2>1, <2>3
  <2> QED
    BY <1>0, <1>2, <2>2, <2>3
<1>4. Head(q \o r) = Head(q)
  BY <1>0, <1>1
<1> HIDE DEF x, y
<1>5. x = y
  BY <1>2, <1>3
<1> QED
  BY <1>1, <1>4, <1>5 DEF x, y

LEMMA AppendLast ==
  ASSUME NEW S, NEW q \in Seq(S), NEW r \in Seq(S), NEW u \in S
  PROVE  q \o Append(r, u) = Append(q \o r, u)
OBVIOUS

-----------------------------------------------------------------------------
(* An account's goroutine ends before its next request begins, so that a   *)
(* row has the key that the request in progress thinks.                    *)

TakesTurns ==
  \A t, r \in Requests :
    request[t].pc # "idle" /\ request[r].pc # "idle"
      /\ request[t].peer = request[r].peer => t = r

RowFits(t) ==
  /\ request[t].pc \in {"push_remove", "push_add"} /\ request[t].new # None
       => peers[request[t].peer].key = request[t].new
  /\ request[t].pc = "insert" /\ request[t].old # None
       => peers[request[t].peer].key = request[t].old
  /\ request[t].pc = "insert" /\ request[t].old = None
       => peers[request[t].peer].key \in retired \cup {None}
  /\ request[t].pc = "delete" => request[t].new = None

RowsFit == \A t \in Requests : RowFits(t)

LEMMA KeysStay ==
  ASSUME TypeInv, [Next]_vars
  PROVE  \/ \E t \in Requests : Insert(t)
         \/ \A a \in Accounts : peers'[a].key = peers[a].key
<1>1. ASSUME NEW t \in Requests, MarkRemoved(t)
      PROVE  \A a \in Accounts : peers'[a].key = peers[a].key
  BY <1>1 DEF MarkRemoved, TypeInv, RowsOK, Rows
<1>2. ASSUME NEW b \in Accounts, ReportArrives(b)
      PROVE  \A a \in Accounts : peers'[a].key = peers[a].key
  BY <1>2 DEF ReportArrives, TypeInv, RowsOK, Rows
<1> QED
  BY <1>1, <1>2, RowsChange DEF RowsStep

LEMMA OthersStay ==
  ASSUME TypeInv, NEW t \in Requests, NEW r \in Requests, r # t,
         RequestStep(r) \/ \E a \in Accounts : BeginDelete(r, a)
                              \/ \E k \in Keys : BeginCreate(r, a, k)
  PROVE  request'[t] = request[t]
BY DEF RequestStep, BeginCreate, BeginDelete, Insert, MarkRemoved,
       PushAccepted, PushRetried, PushGivenUp, TypeInv, RequestsOK

LEMMA KeyStaysMine ==
  ASSUME TakesTurns, TypeInv, [Next]_vars,
         NEW t \in Requests, request[t].pc # "idle", ~Insert(t)
  PROVE  peers'[request[t].peer].key = peers[request[t].peer].key
<1>1. request[t].peer \in Accounts
  BY DEF TypeInv, RequestsOK, RequestFits
<1>2. ASSUME NEW r \in Requests, Insert(r)
      PROVE  peers'[request[t].peer].key = peers[request[t].peer].key
  <2>1. r # t /\ request[r].pc = "insert"
    BY <1>2 DEF Insert
  <2>2. request[r].peer # request[t].peer
    BY <2>1 DEF TakesTurns
  <2>3. peers' = [peers EXCEPT ![request[r].peer] =
                    [status |-> "pending", key |-> request[r].new]]
    BY <1>2 DEF Insert
  <2> QED
    BY <1>1, <2>2, <2>3 DEF TypeInv, RowsOK
<1> QED
  BY <1>1, <1>2, KeysStay

LEMMA RowsFitStays ==
  ASSUME TakesTurns, TypeInv, KeyInv, RowsFit, [Next]_vars
  PROVE  RowsFit'
<1> SUFFICES ASSUME NEW t \in Requests
             PROVE  RowFits(t)'
  BY DEF RowsFit
<1>0. /\ Moves(t) /\ RowFits(t) /\ request[t] \in RequestRecords /\ RequestFits(t)
      /\ DOMAIN request = Requests /\ retired \subseteq retired'
  BY RequestMoves, RowsChange DEF RowsFit, TypeInv, RequestsOK
<1>1. CASE Insert(t)
  <2>1. /\ request'[t].pc = FirstPush(t) /\ request'[t].peer = request[t].peer
        /\ request'[t].new = request[t].new
    BY <1>0, <1>1 DEF Insert, RequestRecords
  <2>2. FirstPush(t) \in {"push_remove", "push_add"}
    BY DEF FirstPush
  <2>3. peers'[request[t].peer].key = request[t].new
    BY <1>0, <1>1 DEF Insert, RequestFits, TypeInv, RowsOK
  <2> QED
    BY <2>1, <2>2, <2>3 DEF RowFits
<1>2. CASE ~Insert(t)
  <2>1. request[t].pc # "idle"
          => peers'[request[t].peer].key = peers[request[t].peer].key
    BY <1>2, KeyStaysMine
  <2>2. CASE request'[t] = request[t]
    BY <1>0, <2>1, <2>2 DEF RowFits, RequestFits
  <2>3. CASE request'[t].pc = "idle"
    BY <2>3 DEF RowFits
  <2>4. ASSUME NEW a \in Accounts, NEW k \in Keys, BeginCreate(t, a, k)
        PROVE  RowFits(t)'
    <3>1. /\ request'[t].pc = "insert" /\ request'[t].peer = a
          /\ request'[t].old = IF Live(a) THEN peers[a].key ELSE None
          /\ peers' = peers
      BY <1>0, <2>4 DEF BeginCreate
    <3>2. Live(a) => peers[a].key # None
      BY NoneAssumption DEF TypeInv, RowsOK, Live, Known
    <3>3. ~Live(a) => peers[a].key \in retired \cup {None}
      BY DEF TypeInv, RowsOK, Rows, Live, Known, KeyInv, RowsOwned
    <3> QED
      BY <1>0, <3>1, <3>2, <3>3 DEF RowFits
  <2>5. ASSUME NEW a \in Accounts, BeginDelete(t, a)
        PROVE  RowFits(t)'
    <3>1. request'[t].pc = "delete" /\ request'[t].new = None
      BY <1>0, <2>5 DEF BeginDelete
    <3> QED
      BY <3>1 DEF RowFits
  <2>6. CASE MarkRemoved(t)
    <3>1. /\ request'[t].pc = "push_remove" /\ request'[t].new = request[t].new
          /\ request[t].pc = "delete"
      BY <1>0, <2>6 DEF MarkRemoved, RequestRecords
    <3>2. request[t].new = None
      BY <1>0, <3>1 DEF RowFits
    <3> QED
      BY <3>1, <3>2 DEF RowFits
  <2>7. CASE SamePush(t)
    BY <1>0, <2>1, <2>7 DEF SamePush, Pushing, RowFits, RequestFits
  <2> QED
    BY <1>0, <1>2, <2>2, <2>3, <2>4, <2>5, <2>6, <2>7, Zenon DEF Moves
<1> QED
  BY <1>1, <1>2

-----------------------------------------------------------------------------
(* Before anything failed: the agent's stream is its first, and nothing    *)
(* reached the agent before the catch-up.                                  *)

Channel == IF current = None THEN << >> ELSE stream[current].buf
Pipe == wire \o Channel

OneStream ==
  /\ \A c \in Streams : c # current => stream[c] = FreeStream
  /\ ~CaughtUp => /\ wg0 = {} /\ wire = << >>
                  /\ \A c \in Streams : stream[c].buf = << >>

LEMMA PipeType ==
  ASSUME TypeInv
  PROVE  Channel \in Seq(Updates) /\ wire \in Seq(Updates) /\ Pipe \in Seq(Updates)
<1>1. Channel \in Seq(Updates)
  BY NoneAssumption DEF TypeInv, StreamsOK, StreamRecords, AgentOK, Channel
<1>2. wire \in Seq(Updates)
  BY DEF TypeInv, AgentOK
<1> QED
  BY <1>1, <1>2, CarriesConcat DEF Pipe

LEMMA NoFault ==
  ASSUME faults = 0, faults' = 0, NEW kind
  PROVE  ~Fault(kind)
BY DEF Fault

(* What a step does to the pipe from the channel to the kernel.            *)
PipeStays == wg0' = wg0 /\ Pipe' = Pipe
PipeGrows(u) == wg0' = wg0 /\ Pipe' = Append(Pipe, u)
PipeTaken ==
  /\ Pipe # << >> /\ Pipe' = Tail(Pipe)
  /\ \A k : k \in wg0' => Gives(Head(Pipe), k) \/ (k \in wg0 /\ ~Takes(Head(Pipe), k))
PipeFilled ==
  /\ wg0' = {} /\ Pipe' \in Seq(Updates)
  /\ \A u : Carries(Pipe', u) => \E a \in Accounts : Live(a) /\ u = Add(a, peers[a].key)

LEMMA PipePushed ==
  ASSUME TypeInv, OneStream, NEW t \in Requests, PushAccepted(t)
  PROVE  OneStream' /\ PipeGrows(Update(t)) /\ missed' = missed
<1>1. /\ current' = current /\ wire' = wire /\ wg0' = wg0
      /\ stream' = [c \in Streams |-> IF c \in Receivers
                                      THEN [stream[c] EXCEPT !.buf = Append(@, Update(t))]
                                      ELSE stream[c]]
      /\ Receivers # {} /\ Update(t) \in Updates
  BY UpdateType DEF PushAccepted, agentVars
<1>2. \A c \in Receivers : c \in Streams /\ stream[c].state = "subscribed"
  BY DEF Receivers, Subscribers
<1>3. Receivers = {current} /\ current \in Streams /\ current # None
  BY <1>1, <1>2, NoneAssumption DEF OneStream, FreeStream
<1>4. stream[current] \in StreamRecords /\ DOMAIN stream = Streams
  BY <1>3 DEF TypeInv, StreamsOK
<1>5. /\ stream'[current].buf = Append(stream[current].buf, Update(t))
      /\ stream'[current].state = stream[current].state
      /\ \A c \in Streams : c # current => stream'[c] = stream[c]
  BY <1>1, <1>3, <1>4 DEF StreamRecords
<1>6. CaughtUp /\ CaughtUp'
  BY <1>1, <1>2, <1>3, <1>5 DEF CaughtUp
<1>7. OneStream'
  BY <1>1, <1>5, <1>6 DEF OneStream
<1>8. Channel' = Append(Channel, Update(t))
  BY <1>1, <1>3, <1>5 DEF Channel
<1>9. Pipe' = Append(Pipe, Update(t))
  BY <1>1, <1>8, PipeType, AppendLast DEF Pipe
<1>10. missed' = missed
  BY <1>3 DEF PushAccepted
<1> QED
  BY <1>1, <1>7, <1>9, <1>10 DEF PipeGrows

LEMMA PipeApplied ==
  ASSUME TypeInv, OneStream, ApplyAdd \/ ApplyRemove
  PROVE  OneStream' /\ PipeTaken
<1>1. /\ current' = current /\ stream' = stream /\ wire # << >> /\ wire' = Tail(wire)
      /\ wire \in Seq(Updates) /\ Channel \in Seq(Updates)
  BY PipeType DEF ApplyAdd, ApplyRemove, managerVars
<1>2. CaughtUp /\ CaughtUp'
  BY <1>1 DEF OneStream, CaughtUp
<1>3. OneStream'
  BY <1>1, <1>2 DEF OneStream
<1>4. Channel' = Channel
  BY <1>1 DEF Channel
<1>5. Pipe # << >> /\ Pipe' = Tail(Pipe) /\ Head(Pipe) = Head(wire)
  BY <1>1, <1>4, ApplyFirst DEF Pipe
<1>6. \A k : k \in wg0' => Gives(Head(wire), k) \/ (k \in wg0 /\ ~Takes(Head(wire), k))
  BY DEF ApplyAdd, ApplyRemove, Gives, Takes
<1> QED
  BY <1>3, <1>5, <1>6 DEF PipeTaken

LEMMA PipePassedOn ==
  ASSUME TypeInv, OneStream, NEW c \in Streams, Forward(c)
  PROVE  OneStream' /\ PipeStays
<1>1. /\ current' = current /\ wg0' = wg0 /\ stream[c].state = "subscribed"
      /\ stream[c].buf # << >> /\ stream' = [stream EXCEPT ![c].buf = Tail(@)]
  BY DEF Forward
<1>2. c = current /\ current # None
  BY <1>1, NoneAssumption DEF OneStream, FreeStream
<1>3. wire' = Append(wire, Head(stream[c].buf)) /\ stream[c] \in StreamRecords
  BY <1>2 DEF Forward, TypeInv, StreamsOK
<1>4. /\ stream'[c].buf = Tail(stream[c].buf) /\ stream'[c].state = "subscribed"
      /\ \A d \in Streams : d # c => stream'[d] = stream[d]
  BY <1>1, <1>3 DEF StreamRecords, TypeInv, StreamsOK
<1>5. CaughtUp'
  BY <1>1, <1>2, <1>4 DEF CaughtUp
<1>6. OneStream'
  BY <1>1, <1>2, <1>4, <1>5 DEF OneStream
<1>7. Channel = stream[c].buf /\ Channel' = Tail(stream[c].buf)
  BY <1>1, <1>2, <1>4 DEF Channel
<1>8. Pipe' = Pipe
  BY <1>1, <1>3, <1>7, PipeType, PassOn DEF Pipe
<1> QED
  BY <1>1, <1>6, <1>8 DEF PipeStays

LEMMA PipeCaughtUp ==
  ASSUME TypeInv, OneStream, NEW c \in Streams, CatchUp(c)
  PROVE  OneStream' /\ PipeFilled
<1>1. /\ stream[c].state = "accepted" /\ stream' = [stream EXCEPT ![c].state = "listed"]
      /\ current' = current /\ wg0' = wg0
  BY DEF CatchUp
<1>2. c = current /\ current # None
  BY <1>1, NoneAssumption DEF OneStream, FreeStream
<1>3. wg0 = {} /\ wire = << >> /\ stream[c].buf = << >> /\ stream[c] \in StreamRecords
  BY <1>1, <1>2 DEF OneStream, CaughtUp, TypeInv, StreamsOK
<1>4. /\ stream'[c].state = "listed" /\ stream'[c].buf = << >>
      /\ \A d \in Streams : d # c => stream'[d] = stream[d]
  BY <1>1, <1>3 DEF StreamRecords, TypeInv, StreamsOK
<1>5. OneStream'
  BY <1>1, <1>2, <1>4 DEF OneStream, CaughtUp
<1>6. PICK q \in Listings :
        wire' = wire \o [i \in DOMAIN q |-> Add(q[i], peers[q[i]].key)]
  BY <1>2, Zenon DEF CatchUp
<1> DEFINE adds == [i \in DOMAIN q |-> Add(q[i], peers[q[i]].key)]
<1>7. /\ adds \in Seq(Updates)
      /\ \A u : Carries(adds, u) <=> \E a \in Accounts : Live(a) /\ u = Add(a, peers[a].key)
  BY ListingType
<1>8. wire' = << >> \o adds
  BY <1>3, <1>6
<1>9. Channel' = << >>
  BY <1>1, <1>2, <1>4 DEF Channel
<1> HIDE DEF adds
<1>10. Pipe' = adds
  BY <1>7, <1>8, <1>9 DEF Pipe
<1> QED
  BY <1>1, <1>3, <1>5, <1>7, <1>10 DEF PipeFilled

(* Every other step.                                                       *)
LEMMA PipeQuiet ==
  ASSUME TypeInv, OneStream, faults = 0, faults' = 0, [Next]_vars,
         ~ApplyAdd, ~ApplyRemove,
         \A t \in Requests : ~PushAccepted(t),
         \A c \in Streams : ~CatchUp(c)
  PROVE  OneStream' /\ PipeStays
<1>1. CASE UNCHANGED <<stream, current, wire, wg0>>
  BY <1>1 DEF OneStream, CaughtUp, PipeStays, Pipe, Channel
<1>2. ASSUME NEW c \in Streams, Connect(c)
      PROVE  OneStream' /\ PipeStays
  <2>1. /\ current = None /\ current' = c /\ c # None /\ wire' = wire /\ wg0' = wg0
        /\ stream' = [stream EXCEPT ![c].state = "accepted"]
    BY <1>2, NoneAssumption DEF Connect
  <2>2. wg0 = {} /\ wire = << >> /\ \A d \in Streams : stream[d].buf = << >>
    BY <2>1 DEF OneStream, CaughtUp
  <2>3. /\ stream'[c].state = "accepted"
        /\ \A d \in Streams : stream'[d].buf = << >> /\ (d # c => stream'[d] = stream[d])
    BY <2>1, <2>2 DEF TypeInv, StreamsOK, StreamRecords
  <2>4. \A d \in Streams : stream[d] = FreeStream
    BY <2>1, NoneAssumption DEF OneStream
  <2>5. OneStream'
    BY <2>1, <2>2, <2>3, <2>4 DEF OneStream, CaughtUp
  <2>6. Channel' = Channel
    BY <2>1, <2>3 DEF Channel
  <2> QED
    BY <2>1, <2>5, <2>6 DEF PipeStays, Pipe
<1>3. ASSUME NEW c \in Streams, Subscribe(c)
      PROVE  OneStream' /\ PipeStays
  <2>1. /\ current' = current /\ wire' = wire /\ wg0' = wg0 /\ stream[c].state = "listed"
        /\ stream' = [stream EXCEPT ![c].state = "subscribed"]
    BY <1>3 DEF Subscribe, agentVars
  <2>2. c = current /\ current # None
    BY <2>1, NoneAssumption DEF OneStream, FreeStream
  <2>3. /\ stream'[c].state = "subscribed"
        /\ \A d \in Streams : stream'[d].buf = stream[d].buf /\ (d # c => stream'[d] = stream[d])
    BY <2>1 DEF TypeInv, StreamsOK, StreamRecords
  <2>4. OneStream'
    BY <2>1, <2>2, <2>3 DEF OneStream, CaughtUp
  <2>5. Channel' = Channel
    BY <2>1, <2>2, <2>3 DEF Channel
  <2> QED
    BY <2>1, <2>4, <2>5 DEF PipeStays, Pipe
<1>4. \A c \in Streams : ~Disconnected(c)
  BY DEF Disconnected, OneStream, FreeStream
<1>5. /\ \A c \in Streams : ~CatchUpFails(c)
      /\ ~ApplyFails /\ ~Failure /\ \A a \in Accounts : ~ReportLost(a)
  BY NoFault, Zenon DEF CatchUpFails, ApplyFails, Failure, Break, HalfOpen, Reboot,
       ManagerCrash, ReportLost
<1>6. ASSUME \/ Client
             \/ \E t \in Requests : Insert(t) \/ MarkRemoved(t) \/ PushRetried(t)
                                    \/ PushGivenUp(t)
             \/ \E a \in Accounts : ReportArrives(a)
             \/ UNCHANGED vars
      PROVE  UNCHANGED <<stream, current, wire, wg0>>
  BY <1>6, Zenon DEF Client, BeginCreate, BeginDelete, Insert, MarkRemoved, PushRetried,
       PushGivenUp, ReportArrives, vars, managerVars, agentVars
<1> QED
  BY <1>1, <1>2, <1>3, <1>4, <1>5, <1>6, PipePassedOn, Zenon
     DEF Next, RequestStep, StreamStep, AgentStep, ReportStep

-----------------------------------------------------------------------------
(* At no point of the pipe are there two keys of an account, retired keys  *)
(* and accounts with a missed key apart; the last one is its row's, or the *)
(* one that its create is about to take away.                              *)

Served(i, k) == Applied(wg0, Pipe, i, k)
Counts(k) == k \notin retired /\ ~MissedSome(owner[k])

Superseding(k) ==
  \E t \in Requests : /\ request[t].pc = "push_remove" /\ request[t].new # None
                      /\ request[t].peer = owner[k] /\ request[t].old = k

OwnedLine == \A i \in 0..Len(Pipe), k \in Keys : Served(i, k) => owner[k] # None
UniqueLine ==
  \A i \in 0..Len(Pipe), k, l \in Keys :
     (Served(i, k) /\ Served(i, l) /\ owner[k] = owner[l] /\ Counts(k) /\ Counts(l))
        => k = l
LastLine ==
  \A k \in Keys :
     (Served(Len(Pipe), k) /\ Counts(k)) => k = peers[owner[k]].key \/ Superseding(k)

LineInv == faults = 0 => OneStream /\ OwnedLine /\ UniqueLine /\ LastLine

LEMMA CountedBefore ==
  ASSUME NEW k \in Keys, TypeInv, [Next]_vars, missed \subseteq missed', owner[k] # None, Counts(k)'
  PROVE  Counts(k) /\ owner'[k] = owner[k]
<1>1. \A l \in Keys : owner[l] # None => owner'[l] = owner[l]
  BY OwnerStays
<1>2. missed \subseteq Keys /\ retired \subseteq retired'
  BY RowsChange DEF TypeInv, HistoryOK
<1>3. k \notin retired' /\ \A m \in missed' : owner'[m] # owner'[k]
  BY DEF Counts, MissedSome
<1> QED
  BY <1>1, <1>2, <1>3 DEF Counts, MissedSome

(* A step that puts nothing new into the line.                             *)
LEMMA LineStays ==
  ASSUME TypeInv, OwnedLine, UniqueLine, [Next]_vars, missed \subseteq missed',
         NEW S, S \subseteq 0..Len(Pipe'),
         \A i \in S : \E j \in 0..Len(Pipe) :
            \A k \in Keys : Applied(wg0', Pipe', i, k) => Served(j, k)
  PROVE  /\ \A i \in S, k \in Keys : Served(i, k)' => owner'[k] # None
         /\ \A i \in S, k, l \in Keys :
              (Served(i, k)' /\ Served(i, l)' /\ owner'[k] = owner'[l]
                 /\ Counts(k)' /\ Counts(l)') => k = l
<1>1. ASSUME NEW i \in S
      PROVE  /\ \A k \in Keys : Served(i, k)' => owner'[k] # None
             /\ \A k, l \in Keys :
                  (Served(i, k)' /\ Served(i, l)' /\ owner'[k] = owner'[l]
                     /\ Counts(k)' /\ Counts(l)') => k = l
  <2>1. PICK j \in 0..Len(Pipe) :
          \A k \in Keys : Applied(wg0', Pipe', i, k) => Served(j, k)
    OBVIOUS
  <2>2. \A k \in Keys : Served(i, k)' => Served(j, k)
    BY <2>1 DEF Served
  <2>3. \A k \in Keys : Served(i, k)' => owner[k] # None /\ owner'[k] = owner[k]
    BY <2>2, OwnerStays DEF OwnedLine
  <2>4. \A k \in Keys : Served(i, k)' /\ Counts(k)' => Counts(k)
    BY <2>3, CountedBefore
  <2> QED
    BY <2>2, <2>3, <2>4 DEF UniqueLine
<1> QED
  BY <1>1

LEMMA LinePushed ==
  ASSUME TakesTurns, TypeInv, KeyInv, RowsFit, OneStream, OwnedLine, UniqueLine, LastLine,
         [Next]_vars, NEW t \in Requests, PushAccepted(t)
  PROVE  OneStream' /\ OwnedLine' /\ UniqueLine' /\ LastLine'
<1> DEFINE u == Update(t)
<1>n. PICK n \in Nat : n = Len(Pipe)
  BY PipeType
<1>1. OneStream' /\ wg0' = wg0 /\ Pipe' = Append(Pipe, u) /\ missed' = missed
  BY PipePushed DEF PipeGrows
<1>2. peers' = peers /\ owner' = owner /\ retired' = retired
  BY DEF PushAccepted
<1>3. /\ Pipe \in Seq(Updates) /\ u \in Updates /\ n \in Nat /\ Len(Pipe') = n + 1
  BY <1>1, <1>n, PipeType, UpdateType, CarriesAppend DEF PushAccepted
<1>4. /\ \A i \in 0..n, k \in Keys : Applied(wg0', Pipe', i, k) => Served(i, k)
      /\ \A k \in Keys : Applied(wg0', Pipe', n + 1, k)
                           => Gives(u, k) \/ (Served(n, k) /\ ~Takes(u, k))
  BY <1>1, <1>3, <1>n, AppliedAppend DEF Served
<1>5. /\ request[t] \in RequestRecords /\ RequestFits(t) /\ RowFits(t)
      /\ request[t].pc \in {"push_remove", "push_add"}
  BY DEF PushAccepted, TypeInv, RequestsOK, RowsFit
<1>6. ASSUME NEW k \in Keys, Gives(u, k)
      PROVE  /\ request[t].pc = "push_add" /\ k = request[t].new
             /\ owner[k] = request[t].peer /\ owner[k] # None /\ k = peers[owner[k]].key
  <2>1. request[t].pc = "push_add" /\ k = request[t].new
    BY <1>5, <1>6 DEF Gives, Update, Add, Remove
  <2>2. owner[k] = request[t].peer /\ request[t].peer \in Accounts
    BY <1>5, <2>1 DEF KeyInv, NewOwned, RequestFits
  <2>3. peers[request[t].peer].key = k
    BY <1>5, <2>1, NoneAssumption DEF RowFits
  <2> QED
    BY <2>1, <2>2, <2>3, NoneAssumption
<1>7. ASSUME NEW k \in Keys, Served(n, k), ~Takes(u, k), Counts(k)
      PROVE  \/ k = peers[owner[k]].key
             \/ Superseding(k)' /\ owner[k] # request[t].peer
  <2>1. CASE Superseding(k)
    <3>1. PICK r \in Requests : /\ request[r].pc = "push_remove" /\ request[r].new # None
                                /\ request[r].peer = owner[k] /\ request[r].old = k
      BY <2>1 DEF Superseding
    <3>2. r # t
      BY <1>5, <1>7, <3>1 DEF Takes, Update, Remove
    <3>3. owner[k] # request[t].peer
      BY <1>5, <3>1, <3>2 DEF TakesTurns
    <3>4. request'[r] = request[r]
      BY <3>2, OthersStay DEF RequestStep
    <3> QED
      BY <1>2, <3>1, <3>3, <3>4 DEF Superseding
  <2>2. CASE ~Superseding(k)
    BY <1>7, <1>n, <2>2 DEF LastLine
  <2> QED
    BY <2>1, <2>2
<1>8. \A k \in Keys : Counts(k)' <=> Counts(k)
  BY <1>1, <1>2 DEF Counts, MissedSome
<1> DEFINE S == 0..n
<1>9. S \subseteq 0..Len(Pipe') /\ \A i \in 0..Len(Pipe') : i \in S \/ i = n + 1
  BY <1>3
<1>10. /\ \A i \in S, k \in Keys : Served(i, k)' => owner'[k] # None
       /\ \A i \in S, k, l \in Keys :
            (Served(i, k)' /\ Served(i, l)' /\ owner'[k] = owner'[l]
               /\ Counts(k)' /\ Counts(l)') => k = l
  <2>1. \A i \in S : \E j \in 0..Len(Pipe) :
          \A k \in Keys : Applied(wg0', Pipe', i, k) => Served(j, k)
    BY <1>4, <1>n
  <2> HIDE DEF S
  <2> QED
    BY <1>1, <1>9, <2>1, LineStays
<1> HIDE DEF u, S
<1>11. \A k \in Keys : Served(n + 1, k)' => Gives(u, k) \/ (Served(n, k) /\ ~Takes(u, k))
  BY <1>4 DEF Served
<1>12. \A k \in Keys : Served(n + 1, k)' => owner'[k] # None
  <2>1. \A k \in Keys : Served(n, k) => owner[k] # None
    BY <1>3, <1>n DEF OwnedLine
  <2> QED
    BY <1>2, <1>6, <1>11, <2>1
<1>13. \A k \in Keys : Served(n + 1, k)' /\ Counts(k)'
                          => k = peers[owner[k]].key \/ Superseding(k)'
  BY <1>6, <1>7, <1>8, <1>11
<1>17. ASSUME NEW k \in Keys, NEW l \in Keys, Served(n + 1, k)', Served(n + 1, l)',
              owner[k] = owner[l], Counts(k), Counts(l)
       PROVE  k = l
  <2>1. CASE Served(n, k) /\ Served(n, l)
    BY <1>3, <1>n, <1>17, <2>1 DEF UniqueLine
  <2>2. ASSUME NEW j \in Keys, NEW m \in Keys, Gives(u, j), owner[j] = owner[m],
               Served(n + 1, m)', Counts(m)
        PROVE  j = m
    <3>1. j = peers[owner[j]].key /\ owner[m] = request[t].peer
      BY <1>6, <2>2
    <3>2. m = peers[owner[m]].key
      BY <1>6, <1>7, <1>11, <2>2, <3>1
    <3> QED
      BY <2>2, <3>1, <3>2
  <2> QED
    BY <1>11, <1>17, <2>1, <2>2
<1>14. OwnedLine'
  BY <1>9, <1>10, <1>12 DEF OwnedLine
<1>15. UniqueLine'
  BY <1>2, <1>8, <1>9, <1>10, <1>17 DEF UniqueLine
<1>16. LastLine'
  BY <1>2, <1>3, <1>13 DEF LastLine
<1> QED
  BY <1>1, <1>14, <1>15, <1>16

LEMMA LineCaughtUp ==
  ASSUME TypeInv, KeyInv, OneStream, NEW c \in Streams, CatchUp(c)
  PROVE  OneStream' /\ OwnedLine' /\ UniqueLine' /\ LastLine'
<1>1. /\ OneStream' /\ wg0' = {} /\ Pipe' \in Seq(Updates)
      /\ \A u : Carries(Pipe', u) => \E a \in Accounts : Live(a) /\ u = Add(a, peers[a].key)
  BY PipeCaughtUp DEF PipeFilled
<1>2. peers' = peers /\ owner' = owner
  BY DEF CatchUp
<1>3. ASSUME NEW i \in 0..Len(Pipe'), NEW k \in Keys, Applied(wg0', Pipe', i, k)
      PROVE  owner'[k] # None /\ k = peers'[owner'[k]].key
  <2>1. PICK u : Carries(Pipe', u) /\ Gives(u, k)
    BY <1>1, <1>3, AppliedGiven
  <2>2. PICK a \in Accounts : Live(a) /\ u = Add(a, peers[a].key)
    BY <1>1, <2>1
  <2>3. k = peers[a].key
    BY <2>1, <2>2 DEF Gives, Add
  <2>4. owner[k] = a
    BY <2>3 DEF KeyInv, RowsOwned, Known
  <2> QED
    BY <1>2, <2>3, <2>4, NoneAssumption
<1>4. \A i \in 0..Len(Pipe'), k \in Keys :
        Served(i, k)' => owner'[k] # None /\ k = peers'[owner'[k]].key
  BY <1>3 DEF Served
<1>5. Len(Pipe') \in 0..Len(Pipe')
  BY <1>1
<1> QED
  BY <1>1, <1>4, <1>5 DEF OwnedLine, UniqueLine, LastLine

(* The key at the end of the line, when a step does not push.              *)
LEMMA StillSuperseding ==
  ASSUME NEW t \in Requests, TypeInv, faults = 0, faults' = 0, [Next]_vars,
         request[t].pc = "push_remove", ~PushAccepted(t), ~PushGivenUp(t)
  PROVE  /\ request'[t].pc = "push_remove" /\ request'[t].new = request[t].new
         /\ request'[t].peer = request[t].peer /\ request'[t].old = request[t].old
<1>0. DOMAIN request = Requests /\ request[t] \in RequestRecords
  BY DEF TypeInv, RequestsOK
<1>1. /\ ~Insert(t) /\ ~MarkRemoved(t)
      /\ \A a \in Accounts : ~BeginDelete(t, a) /\ \A k \in Keys : ~BeginCreate(t, a, k)
  BY Zenon DEF Insert, MarkRemoved, BeginCreate, BeginDelete
<1>2. CASE PushRetried(t)
  BY <1>0, <1>2 DEF PushRetried, RequestRecords
<1>3. CASE request'[t] = request[t]
  BY <1>3
<1>4. ~ManagerCrash
  BY NoFault DEF ManagerCrash
<1>5. ASSUME \/ \E c \in Streams : StreamStep(c)
             \/ AgentStep
             \/ \E a \in Accounts : ReportStep(a)
             \/ Break \/ HalfOpen \/ Reboot \/ UNCHANGED vars
      PROVE  UNCHANGED request
  BY <1>5, Zenon DEF StreamStep, CatchUp, CatchUpFails, Subscribe, Forward, Disconnected,
       AgentStep, Connect, ApplyAdd, ApplyRemove, ApplyFails, ReportStep, ReportArrives,
       ReportLost, Break, HalfOpen, Reboot, vars, managerVars
<1>6. ASSUME NEW r \in Requests, RequestStep(r)
      PROVE  request'[t] = request[t] \/ PushRetried(t)
  <2>1. CASE r = t
    BY <1>1, <1>6, <2>1, Zenon DEF RequestStep
  <2>2. CASE r # t
    BY <1>6, <2>2, OthersStay
  <2> QED
    BY <2>1, <2>2
<1>7. Client => request'[t] = request[t]
  BY <1>1, OthersStay, Zenon DEF Client
<1> QED
  BY <1>2, <1>3, <1>4, <1>5, <1>6, <1>7, Zenon DEF Next, Failure

LEMMA LastLineStays ==
  ASSUME TakesTurns, TypeInv, KeyInv, RowsFit, OneStream, OwnedLine, LastLine,
         faults = 0, faults' = 0, [Next]_vars, missed \subseteq missed',
         \A t \in Requests : ~PushAccepted(t),
         \A k \in Keys : Served(Len(Pipe), k)' => Served(Len(Pipe), k)
  PROVE  LastLine'
<1> SUFFICES ASSUME NEW k \in Keys, Served(Len(Pipe), k)', Counts(k)',
                    ~Superseding(k)'
             PROVE  k = peers'[owner'[k]].key
  BY DEF LastLine
<1>1. Served(Len(Pipe), k) /\ Len(Pipe) \in 0..Len(Pipe)
  BY PipeType
<1>2. owner[k] # None /\ owner[k] \in Accounts
  BY <1>1 DEF OwnedLine, TypeInv, HistoryOK
<1>3. Counts(k) /\ owner'[k] = owner[k]
  BY <1>2, CountedBefore
<1>4. CASE Superseding(k)
  <2>1. PICK t \in Requests : /\ request[t].pc = "push_remove" /\ request[t].new # None
                              /\ request[t].peer = owner[k] /\ request[t].old = k
    BY <1>4 DEF Superseding
  <2>2. CASE PushGivenUp(t)
    <3>1. request[t].new \in Keys
      BY <2>1 DEF TypeInv, RequestsOK, RequestRecords
    <3>2. owner[request[t].new] = owner[k] /\ owner'[request[t].new] = owner[k]
      BY <1>2, <2>1, <3>1, OwnerStays DEF KeyInv, NewOwned
    <3>3. CASE CaughtUp
      <4>1. request[t].new \in missed'
        BY <2>1, <2>2, <3>3 DEF PushGivenUp
      <4>2. MissedSome(owner[k])'
        BY <1>3, <3>2, <4>1 DEF MissedSome
      <4> QED
        BY <4>2 DEF Counts
    <3>4. CASE ~CaughtUp
      <4>1. wg0 = {} /\ Pipe = << >>
        BY <3>4, NoneAssumption DEF OneStream, Pipe, Channel, TypeInv, AgentOK
      <4> QED
        BY <1>1, <4>1, AppliedNone DEF Served
    <3> QED
      BY <3>3, <3>4
  <2>3. CASE ~PushGivenUp(t)
    <3>1. Superseding(k)'
      BY <1>3, <2>1, <2>3, StillSuperseding DEF Superseding
    <3> QED
      BY <3>1
  <2> QED
    BY <2>2, <2>3
<1>5. CASE k = peers[owner[k]].key
  <2>1. CASE \A a \in Accounts : peers'[a].key = peers[a].key
    BY <1>2, <1>3, <1>5, <2>1
  <2>2. ASSUME NEW t \in Requests, Insert(t)
        PROVE  k = peers'[owner'[k]].key
    <3>1. /\ request[t].pc = "insert" /\ request[t] \in RequestRecords /\ RequestFits(t)
          /\ peers' = [peers EXCEPT ![request[t].peer] =
                         [status |-> "pending", key |-> request[t].new]]
          /\ request' = [request EXCEPT ![t].pc = FirstPush(t)] /\ RowFits(t)
      BY <2>2 DEF Insert, TypeInv, RequestsOK, RowsFit
    <3>2. CASE request[t].peer = owner[k]
      <4>1. request[t].old = k
        BY <1>3, <1>5, <3>1, <3>2, NoneAssumption DEF RowFits, Counts
      <4>2. FirstPush(t) = "push_remove"
        BY <4>1, NoneAssumption DEF FirstPush
      <4>3. /\ request'[t].pc = "push_remove" /\ request'[t].new = request[t].new
            /\ request'[t].peer = request[t].peer /\ request'[t].old = request[t].old
        BY <3>1, <4>2 DEF RequestRecords, TypeInv, RequestsOK
      <4>4. request[t].new # None
        BY <3>1, NoneAssumption DEF RequestFits
      <4>5. Superseding(k)'
        BY <1>3, <3>2, <4>1, <4>3, <4>4 DEF Superseding
      <4> QED
        BY <4>5
    <3>3. CASE request[t].peer # owner[k]
      BY <1>2, <1>3, <1>5, <3>1, <3>3 DEF TypeInv, RowsOK
    <3> QED
      BY <3>2, <3>3
  <2> QED
    BY <2>1, <2>2, KeysStay
<1> QED
  BY <1>1, <1>3, <1>4, <1>5 DEF LastLine

LEMMA MissedGrows ==
  ASSUME TypeInv, faults = 0, faults' = 0, [Next]_vars,
         \A c \in Streams : ~CatchUp(c)
  PROVE  missed \subseteq missed'
<1>1. \A c \in Streams : ~CatchUpFails(c)
  BY NoFault DEF CatchUpFails
<1> QED
  BY <1>1, Zenon DEF Next, Client, BeginCreate, BeginDelete, RequestStep, Insert, MarkRemoved,
       PushAccepted, PushRetried, PushGivenUp, StreamStep, Subscribe, Forward,
       Disconnected, AgentStep, Connect, ApplyAdd, ApplyRemove, ApplyFails, ReportStep,
       ReportArrives, ReportLost, Failure, Break, HalfOpen, Reboot, ManagerCrash, vars

LEMMA LineTaken ==
  ASSUME TakesTurns, TypeInv, TypeInv', KeyInv, RowsFit, OneStream, OwnedLine, UniqueLine, LastLine,
         faults = 0, faults' = 0, [Next]_vars,
         \A t \in Requests : ~PushAccepted(t), \A c \in Streams : ~CatchUp(c),
         PipeStays \/ PipeTaken
  PROVE  OwnedLine' /\ UniqueLine' /\ LastLine'
<1>0. /\ missed \subseteq missed' /\ Pipe \in Seq(Updates) /\ Pipe' \in Seq(Updates)
      /\ Len(Pipe) \in Nat /\ Len(Pipe') \in Nat
  <2>1. Pipe \in Seq(Updates) /\ Pipe' \in Seq(Updates)
    BY PipeType DEF PipeStays, PipeTaken
  <2> QED
    BY <2>1, MissedGrows
<1>1. /\ \A i \in 0..Len(Pipe') : \E j \in 0..Len(Pipe) :
           \A k \in Keys : Applied(wg0', Pipe', i, k) => Served(j, k)
      /\ \A k \in Keys : Applied(wg0', Pipe', Len(Pipe'), k) => Served(Len(Pipe), k)
  <2>1. CASE PipeStays
    BY <1>0, <2>1 DEF PipeStays, Served
  <2>2. CASE PipeTaken
    <3>1. /\ Pipe # << >> /\ Pipe' = Tail(Pipe) /\ Len(Pipe') = Len(Pipe) - 1
          /\ Len(Pipe) >= 1
      BY <1>0, <2>2 DEF PipeTaken
    <3>2. ASSUME NEW i \in 0..Len(Pipe'), NEW k \in Keys, Applied(wg0', Pipe', i, k)
          PROVE  Served(i + 1, k)
      <4>1. k \in wg0' => Gives(Head(Pipe), k) \/ (k \in wg0 /\ ~Takes(Head(Pipe), k))
        BY <2>2 DEF PipeTaken
      <4>2. i \in Nat /\ i + 1 <= Len(Pipe) /\ Applied(wg0', Tail(Pipe), i, k)
        BY <1>0, <3>1, <3>2
      <4> QED
        BY <1>0, <3>1, <4>1, <4>2, AppliedTail DEF Served
    <3>3. \A i \in 0..Len(Pipe') : i + 1 \in 0..Len(Pipe)
      BY <1>0, <3>1
    <3>4. Len(Pipe') \in 0..Len(Pipe') /\ Len(Pipe') + 1 = Len(Pipe)
      BY <1>0, <3>1
    <3>5. \A k \in Keys : Applied(wg0', Pipe', Len(Pipe'), k) => Served(Len(Pipe), k)
      BY <3>2, <3>4
    <3> QED
      BY <3>2, <3>3, <3>5
  <2> QED
    BY <2>1, <2>2
<1>2. PICK S : S = 0..Len(Pipe')
  OBVIOUS
<1>3. /\ \A i \in S, k \in Keys : Served(i, k)' => owner'[k] # None
      /\ \A i \in S, k, l \in Keys :
           (Served(i, k)' /\ Served(i, l)' /\ owner'[k] = owner'[l]
              /\ Counts(k)' /\ Counts(l)') => k = l
  BY <1>0, <1>1, <1>2, LineStays
<1>4. OwnedLine' /\ UniqueLine'
  BY <1>2, <1>3 DEF OwnedLine, UniqueLine
<1>5. \A k \in Keys : Served(Len(Pipe), k)' => Served(Len(Pipe), k)
  BY <1>1 DEF Served
<1> QED
  BY <1>0, <1>4, <1>5, LastLineStays

LEMMA LineStep ==
  ASSUME TakesTurns, TypeInv, TypeInv', KeyInv, RowsFit, LineInv, [Next]_vars
  PROVE  LineInv'
<1> SUFFICES ASSUME faults' = 0
             PROVE  OneStream' /\ OwnedLine' /\ UniqueLine' /\ LastLine'
  BY DEF LineInv
<1>1. faults = 0
  <2>1. faults \in Nat
    BY FaultsAssumption DEF TypeInv, HistoryOK
  <2>2. \A kind : ~Fault(kind)
    BY <2>1 DEF Fault
  <2>3. faults' = faults
    BY <2>2, Zenon DEF Next, Client, BeginCreate, BeginDelete, RequestStep, Insert,
         MarkRemoved, PushAccepted, PushRetried, PushGivenUp, StreamStep, CatchUp,
         CatchUpFails, Subscribe, Forward, Disconnected, AgentStep, Connect, ApplyAdd,
         ApplyRemove, ApplyFails, ReportStep, ReportArrives, ReportLost, Failure, Break,
         HalfOpen, Reboot, ManagerCrash, vars
  <2> QED
    BY <2>3
<1>2. OneStream /\ OwnedLine /\ UniqueLine /\ LastLine
  BY <1>1 DEF LineInv
<1>3. CASE \E t \in Requests : PushAccepted(t)
  BY <1>2, <1>3, LinePushed
<1>4. CASE \E c \in Streams : CatchUp(c)
  BY <1>2, <1>4, LineCaughtUp
<1>5. CASE ~(\E t \in Requests : PushAccepted(t)) /\ ~(\E c \in Streams : CatchUp(c))
  <2>1. OneStream' /\ (PipeStays \/ PipeTaken)
    BY <1>1, <1>2, <1>5, PipeApplied, PipeQuiet
  <2> QED
    BY <1>1, <1>2, <1>5, <2>1, LineTaken
<1> QED
  BY <1>3, <1>4, <1>5

LEMMA LineInit == Init => RowsFit /\ LineInv
<1> SUFFICES ASSUME Init PROVE RowsFit /\ LineInv
  OBVIOUS
<1>1. \A t \in Requests : request[t].pc = "idle"
  BY DEF Init, IdleRequest
<1>2. wg0 = {} /\ wire = << >> /\ current = None /\ Pipe = << >>
  BY DEF Init, Pipe, Channel
<1>3. \A c \in Streams : stream[c] = FreeStream /\ stream[c].buf = << >>
  BY DEF Init, FreeStream
<1>4. \A i \in 0..Len(Pipe), k \in Keys : ~Served(i, k) /\ Len(Pipe) = 0
  BY <1>2, AppliedNone DEF Served
<1>5. Len(Pipe) \in 0..Len(Pipe)
  BY <1>2
<1> QED
  BY <1>1, <1>2, <1>3, <1>4, <1>5
     DEF RowsFit, RowFits, LineInv, OneStream, OwnedLine, UniqueLine, LastLine

(* No failure, and requests of one account follow each other, while those  *)
(* of different accounts overlap in the goroutines, the hub's channels and *)
(* the agent: for every number of accounts, keys and requests and every    *)
(* channel capacity the kernel never has two keys of an account, so that a *)
(* reconnect is a replacement; keys that a DELETE took away and accounts   *)
(* with a push that was given up apart.                                    *)
THEOREM OneKeyInTurn == Spec /\ []TakesTurns => []OneKeyPerAccount
<1>1. Init => KeyInv /\ RowsFit /\ LineInv
  BY KeyInit, LineInit
<1>2. TakesTurns /\ TypeInv /\ TypeInv' /\ KeyInv /\ RowsFit /\ LineInv /\ [Next]_vars
        => (KeyInv /\ RowsFit /\ LineInv)'
  BY KeyStays, RowsFitStays, LineStep
<1>3. TypeInv /\ LineInv => OneKeyPerAccount
  <2> SUFFICES ASSUME TypeInv, LineInv, NEW k \in wg0 \ retired, NEW l \in wg0 \ retired,
                      faults = 0, owner[k] = owner[l], ~MissedSome(owner[k])
               PROVE  k = l
    BY DEF OneKeyPerAccount
  <2>1. k \in Keys /\ l \in Keys /\ 0 \in 0..Len(Pipe)
    BY PipeType DEF TypeInv, AgentOK
  <2>2. Served(0, k) /\ Served(0, l) /\ Counts(k) /\ Counts(l)
    BY AppliedNone DEF Served, Counts
  <2> QED
    BY <2>1, <2>2 DEF LineInv, UniqueLine
<1> QED
  BY <1>1, <1>2, <1>3, AlwaysTypeInv, PTL DEF Spec
=============================================================================
