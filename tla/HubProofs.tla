----------------------------- MODULE HubProofs -----------------------------
(***************************************************************************)
(* The WebSocket hub, for any clients, users, rooms, capacities and any    *)
(* number of messages: its two maps agree, it counts no connection of a    *)
(* user that is gone, and a client never misses a message in between.      *)
(***************************************************************************)
EXTENDS Hub, FiniteSetTheorems, SequenceTheorems, TLAPS

(* Inductive: the types, and the maps of the hub.  The clients of the hub are
   finitely many, however many there may be, and visitors are not counted. *)
MapsInv ==
    /\ TypeOK /\ MembersMatch /\ OnlineSound
    /\ IsFiniteSet(clients) /\ userRegistered[Anonymous] = 0

(* What a message on its way is to its room: live until the room's subscription
   is closed. *)
Live(m, r) == m.room = r /\ ~m.old
Held(r) == \E m \in hands : Live(m, r)

(* The messages of a subscription that left its inbox, and the last of them that
   is no longer held by the forwarding goroutine. *)
TakenUpTo(r) == published[r] - Len(inbox[r])
PutUpTo(r) == IF Held(r) THEN TakenUpTo(r) - 1 ELSE TakenUpTo(r)

(* The members of a room that were sent a message of it. *)
Following(r) == {c \in members[r] : lastSent[c][r] > 0}

(* A room that does not exist has nothing on its way, and nobody follows it. *)
RoomEmpty(r) ==
    /\ inbox[r] = <<>> /\ ~Held(r) /\ Following(r) = {}
    /\ \A i \in DOMAIN broadcast : ~Live(broadcast[i], r)

(* The inbox of a room holds the last messages published; the goroutine holds at
   most one live message, the last one taken. *)
InboxIsLast(r) ==
    /\ \A i \in DOMAIN inbox[r] : inbox[r][i] = TakenUpTo(r) + i
    /\ \A m \in hands : Live(m, r) => m.n = TakenUpTo(r)

(* The live messages of a room in the channel are in order, up to the last one put
   there, and until the hub is closed without a gap. *)
ChannelInOrder(r) ==
    \A i \in DOMAIN broadcast : Live(broadcast[i], r) =>
        /\ broadcast[i].n <= PutUpTo(r)
        /\ \A j \in DOMAIN broadcast :
              i < j /\ Live(broadcast[j], r) => broadcast[i].n < broadcast[j].n
        /\ ~cancelled => \A k \in broadcast[i].n + 1 .. PutUpTo(r) :
              \E j \in DOMAIN broadcast :
                  i < j /\ Live(broadcast[j], r) /\ broadcast[j].n = k

(* For a member of a room that was sent a message none is in the channel that came
   before; an open one has all that follow it still in the channel. *)
RestIsComing(r) ==
    \A c \in Following(r) :
        /\ lastSent[c][r] <= PutUpTo(r)
        /\ \A i \in DOMAIN broadcast :
              Live(broadcast[i], r) => lastSent[c][r] < broadcast[i].n
        /\ conn[c] = "open" => \A k \in lastSent[c][r] + 1 .. PutUpTo(r) :
              \E j \in DOMAIN broadcast : Live(broadcast[j], r) /\ broadcast[j].n = k

Way(r) ==
    /\ r \notin rooms => RoomEmpty(r)
    /\ InboxIsLast(r) /\ ChannelInOrder(r) /\ RestIsComing(r)

(* A connection that does not exist yet is in no room and asks for none, and a hub
   that was closed has no open connection. *)
NewIsNowhere ==
    \A c \in Clients : conn[c] = "new" =>
        c \notin register /\ \A r \in RoomIds : c \notin members[r] /\ <<c, r>> \notin subscribe
ClosedHasNone == cancelled => \A c \in Clients : conn[c] # "open"

(* Inductive: the way of the messages. *)
FeedInv ==
    /\ NewIsNowhere /\ ClosedHasNone
    /\ \A r \in RoomIds : Way(r)

-----------------------------------------------------------------------------
(* The maps of the hub. *)

(* Cancelling clients: only open connections end, and each asks to be unregistered. *)
LEMMA CancelTypes ==
    ASSUME TypeOK, NEW S \in SUBSET Clients, Cancel(S)
    PROVE  /\ conn' \in [Clients -> {"new", "open", "done", "closed"}]
           /\ unregister' \subseteq Clients
           /\ \A c \in Clients : conn'[c] = "open" => conn[c] = "open" /\ c \notin S
           /\ \A c \in Clients : conn'[c] = "new" <=> conn[c] = "new"
<1> DEFINE ended == {c \in S : conn[c] = "open"}
<1>1. /\ conn' = [c \in Clients |-> IF c \in ended THEN "done" ELSE conn[c]]
      /\ unregister' = unregister \cup ended
  BY DEF Cancel
<1>2. conn \in [Clients -> {"new", "open", "done", "closed"}] /\ unregister \subseteq Clients
  BY DEF TypeOK
<1>3. ended \subseteq Clients
  BY <1>2
<1>. QED
  BY <1>1, <1>2, <1>3

(* The hub starts with empty maps. *)
LEMMA MapsInit == Init => MapsInv
<1> SUFFICES ASSUME Init
             PROVE  MapsInv
  OBVIOUS
<1>1. IsFiniteSet(clients)
  BY FS_EmptySet DEF Init
<1>2. TypeOK
  <2>1. 0 \in 0 .. MaxMsgs /\ 0 \in 0 .. SendCap /\ BroadcastCap \in Nat
    BY HubAssumption
  <2>2. broadcast \in Seq(Msg) /\ Len(broadcast) = 0
    BY DEF Init
  <2>3. inbox \in [RoomIds -> Seq(1 .. MaxMsgs)]
    BY DEF Init
  <2>4. lastSent \in [Clients -> [RoomIds -> 0 .. MaxMsgs]] /\ published \in [RoomIds -> 0 .. MaxMsgs]
    BY <2>1 DEF Init
  <2>5. buffered \in [Clients -> 0 .. SendCap] /\ userRegistered \in [Users -> Nat]
    BY <2>1 DEF Init
  <2>6. members \in [RoomIds -> SUBSET Clients] /\ clientRooms \in [Clients -> SUBSET RoomIds]
    BY DEF Init
  <2>7. conn \in [Clients -> {"new", "open", "done", "closed"}] /\ hub \in {"loop", "waiting", "stopped"}
    BY DEF Init
  <2>8. /\ register \subseteq Clients /\ unregister \subseteq Clients
        /\ subscribe \subseteq Clients \X Topics /\ unsubscribe \subseteq Clients \X Topics
        /\ clients \subseteq Clients /\ rooms \subseteq RoomIds /\ hands \subseteq Msg
        /\ cancelled \in BOOLEAN
    BY DEF Init
  <2>9. Len(broadcast) <= BroadcastCap
    BY <2>1, <2>2
  <2>. QED
    BY <2>2, <2>3, <2>4, <2>5, <2>6, <2>7, <2>8, <2>9 DEF TypeOK
<1>3. MembersMatch
  BY DEF Init, MembersMatch
<1>4. OnlineSound
  <2>1. SUFFICES ASSUME NEW u \in Users
                 PROVE  userRegistered[u] <= Cardinality({c \in clients : UserOf[c] = u})
    BY DEF OnlineSound
  <2>2. {c \in clients : UserOf[c] = u} = {}
    BY DEF Init
  <2>. QED
    BY <2>2, FS_EmptySet DEF Init
<1>. QED
  BY <1>1, <1>2, <1>3, <1>4, HubAssumption DEF MapsInv, Init

(* What is put into a room: its types. *)
LEMMA AddToRoomTypes ==
    ASSUME TypeOK, NEW c \in Clients, NEW r \in RoomIds, AddToRoom(c, r)
    PROVE  /\ clients' \subseteq Clients
           /\ clientRooms' \in [Clients -> SUBSET RoomIds]
           /\ rooms' \subseteq RoomIds
           /\ members' \in [RoomIds -> SUBSET Clients]
           /\ lastSent' \in [Clients -> [RoomIds -> 0 .. MaxMsgs]]
<1>1. 0 \in 0 .. MaxMsgs
  BY HubAssumption
<1>. QED
  BY <1>1 DEF AddToRoom, TypeOK

(* What is taken out of rooms: its types; a message on its way stays one. *)
LEMMA RemoveTypes ==
    ASSUME TypeOK, NEW c \in Clients, NEW S \in SUBSET RoomIds, RemoveFromRooms(c, S)
    PROVE  /\ rooms' \subseteq RoomIds
           /\ members' \in [RoomIds -> SUBSET Clients]
           /\ inbox' \in [RoomIds -> Seq(1 .. MaxMsgs)]
           /\ broadcast' \in Seq(Msg) /\ Len(broadcast') = Len(broadcast)
           /\ hands' \subseteq Msg
           /\ \A i \in DOMAIN broadcast :
                 /\ broadcast'[i].room = broadcast[i].room
                 /\ broadcast'[i].n = broadcast[i].n
                 /\ broadcast'[i].old = (broadcast[i].old \/ broadcast[i].room \in Emptied(S, c))
<1> DEFINE Old(m) == [m EXCEPT !.old = @ \/ m.room \in Emptied(S, c)]
<1>1. \A m \in Msg : /\ Old(m) \in Msg /\ Old(m).room = m.room /\ Old(m).n = m.n
                     /\ Old(m).old = (m.old \/ m.room \in Emptied(S, c))
  BY DEF Msg
<1>2. broadcast' = [i \in DOMAIN broadcast |-> Old(broadcast[i])] /\ hands' = {Old(m) : m \in hands}
  BY DEF RemoveFromRooms
<1>3. broadcast \in Seq(Msg) /\ hands \subseteq Msg
  BY DEF TypeOK
<1> HIDE DEF Old
<1>4. \A i \in 1 .. Len(broadcast) : broadcast[i] \in Msg
  BY <1>3
<1>5. DOMAIN broadcast = 1 .. Len(broadcast) /\ Len(broadcast) \in Nat
  BY <1>3
<1>6. broadcast' = [i \in 1 .. Len(broadcast) |-> Old(broadcast[i])]
  BY <1>2, <1>5
<1>7. broadcast' \in Seq(Msg) /\ Len(broadcast') = Len(broadcast)
  BY <1>1, <1>4, <1>5, <1>6
<1>8. hands' \subseteq Msg
  BY <1>1, <1>2, <1>3
<1>9. \A i \in DOMAIN broadcast : broadcast'[i] = Old(broadcast[i])
  BY <1>2
<1>10. /\ rooms' \subseteq RoomIds /\ members' \in [RoomIds -> SUBSET Clients]
  BY DEF RemoveFromRooms, TypeOK
<1>11. inbox' \in [RoomIds -> Seq(1 .. MaxMsgs)]
  <2>1. inbox \in [RoomIds -> Seq(1 .. MaxMsgs)] /\ <<>> \in Seq(1 .. MaxMsgs)
    BY DEF TypeOK
  <2>2. inbox' = [r \in RoomIds |-> IF r \in Emptied(S, c) THEN <<>> ELSE inbox[r]]
    BY DEF RemoveFromRooms
  <2>. QED
    BY <2>1, <2>2
<1>. QED
  BY <1>1, <1>4, <1>5, <1>7, <1>8, <1>9, <1>10, <1>11

(* The counter of a user stays a number. *)
LEMMA CountTypes ==
    ASSUME TypeOK, userRegistered[Anonymous] = 0,
           NEW u \in Users, NEW d \in {1, -1}, Count(u, d)
    PROVE  /\ userRegistered' \in [Users -> Nat]
           /\ \A v \in Users : v # u => userRegistered'[v] = userRegistered[v]
           /\ userRegistered'[u] <= userRegistered[u] + 1
           /\ d = -1 => userRegistered'[u] < userRegistered[u] \/ userRegistered'[u] = 0
           /\ userRegistered'[Anonymous] = 0
<1>1. userRegistered \in [Users -> Nat]
  BY DEF TypeOK
<1>2. CASE u = Anonymous
  BY <1>1, <1>2 DEF Count
<1>3. CASE u # Anonymous
  <2> DEFINE n == userRegistered[u]
             m == IF n + d > 0 THEN n + d ELSE 0
  <2>1. n \in Nat /\ d \in Int
    BY <1>1
  <2>2. m \in Nat /\ m <= n + 1 /\ (d = -1 => m < n \/ m = 0)
    BY <2>1
  <2>3. userRegistered' = [userRegistered EXCEPT ![u] = m]
    BY <1>3 DEF Count
  <2> HIDE DEF n, m
  <2>4. userRegistered'[u] = m /\ \A v \in Users : v # u => userRegistered'[v] = userRegistered[v]
    BY <1>1, <2>3
  <2>5. userRegistered' \in [Users -> Nat]
    BY <1>1, <2>2, <2>3
  <2>6. userRegistered'[Anonymous] = 0
    BY <1>3, <2>4, HubAssumption
  <2>. QED
    BY <2>2, <2>4, <2>5, <2>6 DEF n
<1>. QED
  BY <1>2, <1>3

(* Every step keeps the types. *)
LEMMA TypesStep ==
    ASSUME MapsInv, [Next]_vars
    PROVE  TypeOK'
<1> USE HubAssumption DEF requests, maps, messages
<1>0. TypeOK /\ userRegistered[Anonymous] = 0
  BY DEF MapsInv
<1>1. ASSUME NEW c \in Clients, Connect(c) \/ Disconnect(c) \/ CloseConn(c)
      PROVE  TypeOK'
  <2>1. Disconnect(c) => conn' \in [Clients -> {"new", "open", "done", "closed"}] /\ unregister' \subseteq Clients
    BY <1>0, CancelTypes DEF Disconnect
  <2>. QED
    BY <1>0, <1>1, <2>1 DEF Connect, Disconnect, CloseConn, TypeOK
<1>2. ASSUME NEW c \in Clients, Send(c)
      PROVE  TypeOK'
  <2>1. conn' \in [Clients -> {"new", "open", "done", "closed"}] /\ unregister' \subseteq Clients
    BY <1>0, <1>2, CancelTypes DEF Send, TypeOK
  <2>2. buffered' \in [Clients -> 0 .. SendCap]
    <3>1. buffered \in [Clients -> 0 .. SendCap]
      BY <1>0 DEF TypeOK
    <3>2. buffered' = buffered
             \/ (buffered[c] < SendCap /\ buffered' = [buffered EXCEPT ![c] = buffered[c] + 1])
      BY <1>2 DEF Send
    <3>3. buffered[c] < SendCap => buffered[c] + 1 \in 0 .. SendCap
      BY <3>1
    <3>. QED
      BY <3>1, <3>2, <3>3
  <2>. QED
    BY <1>0, <1>2, <2>1, <2>2 DEF Send, TypeOK
<1>3. ASSUME NEW c \in Clients, Write(c)
      PROVE  TypeOK'
  <2>1. buffered' \in [Clients -> 0 .. SendCap]
    BY <1>0, <1>3 DEF Write, TypeOK
  <2>. QED
    BY <1>0, <1>3, <2>1 DEF Write, TypeOK
<1>4. ASSUME NEW c \in Clients, NEW r \in Topics, Join(c, r) \/ Leave(c, r)
      PROVE  TypeOK'
  BY <1>0, <1>4 DEF Join, Leave, TypeOK
<1>5. ASSUME NEW c \in Clients, handleRegister(c)
      PROVE  TypeOK'
  <2> DEFINE r == UserRoom[UserOf[c]]
  <2>1. r \in RoomIds /\ UserOf[c] \in Users
    BY DEF RoomIds
  <2> HIDE DEF r
  <2>2. CASE c \in clients
    BY <1>0, <1>5, <2>2 DEF handleRegister, TypeOK
  <2>3. CASE c \notin clients
    <3>1. AddToRoom(c, r) /\ Count(UserOf[c], 1)
      BY <1>5, <2>3 DEF handleRegister, r
    <3>2. userRegistered' \in [Users -> Nat]
      BY <1>0, <2>1, <3>1, CountTypes
    <3>. QED
      BY <1>0, <1>5, <2>1, <3>1, <3>2, AddToRoomTypes DEF handleRegister, TypeOK
  <2>. QED
    BY <2>2, <2>3
<1>6. ASSUME NEW c \in Clients, handleUnregister(c)
      PROVE  TypeOK'
  <2>1. CASE c \notin clients
    BY <1>0, <1>6, <2>1 DEF handleUnregister, TypeOK
  <2>2. CASE c \in clients
    <3>1. RemoveFromRooms(c, clientRooms[c]) /\ Count(UserOf[c], -1)
      BY <1>6, <2>2 DEF handleUnregister
    <3>2. clientRooms[c] \in SUBSET RoomIds /\ UserOf[c] \in Users
      BY <1>0 DEF TypeOK
    <3>3. userRegistered' \in [Users -> Nat]
      BY <1>0, <3>1, <3>2, CountTypes
    <3>4. /\ rooms' \subseteq RoomIds /\ members' \in [RoomIds -> SUBSET Clients]
          /\ inbox' \in [RoomIds -> Seq(1 .. MaxMsgs)]
          /\ broadcast' \in Seq(Msg) /\ Len(broadcast') = Len(broadcast)
          /\ hands' \subseteq Msg
      BY <1>0, <3>1, <3>2, RemoveTypes
    <3>5. clientRooms' \in [Clients -> SUBSET RoomIds] /\ clients' \subseteq Clients
      BY <1>0, <1>6, <2>2 DEF handleUnregister, TypeOK
    <3>. QED
      BY <1>0, <1>6, <3>3, <3>4, <3>5 DEF handleUnregister, TypeOK
  <2>. QED
    BY <2>1, <2>2
<1>7. ASSUME NEW c \in Clients, NEW r \in Topics, handleSubscribe(c, r)
      PROVE  TypeOK'
  <2>1. r \in RoomIds /\ AddToRoom(c, r)
    BY <1>7 DEF handleSubscribe, RoomIds
  <2>. QED
    BY <1>0, <1>7, <2>1, AddToRoomTypes DEF handleSubscribe, TypeOK
<1>8. ASSUME NEW c \in Clients, NEW r \in Topics, handleUnsubscribe(c, r)
      PROVE  TypeOK'
  <2>1. CASE ~(c \in clients /\ r \in rooms)
    BY <1>0, <1>8, <2>1 DEF handleUnsubscribe, TypeOK
  <2>2. CASE c \in clients /\ r \in rooms
    <3>1. RemoveFromRooms(c, {r}) /\ {r} \in SUBSET RoomIds
      BY <1>8, <2>2 DEF handleUnsubscribe, RoomIds
    <3>2. /\ rooms' \subseteq RoomIds /\ members' \in [RoomIds -> SUBSET Clients]
          /\ inbox' \in [RoomIds -> Seq(1 .. MaxMsgs)]
          /\ broadcast' \in Seq(Msg) /\ Len(broadcast') = Len(broadcast)
          /\ hands' \subseteq Msg
      BY <1>0, <3>1, RemoveTypes
    <3>3. clientRooms' \in [Clients -> SUBSET RoomIds]
      <4>1. clientRooms' = [clientRooms EXCEPT ![c] = clientRooms[c] \ {r}]
        BY <1>8, <2>2 DEF handleUnsubscribe
      <4>2. clientRooms \in [Clients -> SUBSET RoomIds]
        BY <1>0 DEF TypeOK
      <4>. QED
        BY <4>1, <4>2
    <3>. QED
      BY <1>0, <1>8, <3>2, <3>3 DEF handleUnsubscribe, TypeOK
  <2>. QED
    BY <2>1, <2>2
<1>9. CASE handleBroadcast
  <2> DEFINE m == Head(broadcast)
  <2>1. broadcast \in Seq(Msg) /\ broadcast # <<>> /\ m \in Msg
    BY <1>0, <1>9 DEF handleBroadcast, TypeOK
  <2>2. broadcast' = Tail(broadcast)
    BY <1>9 DEF handleBroadcast
  <2>3. broadcast' \in Seq(Msg) /\ Len(broadcast') = Len(broadcast) - 1 /\ Len(broadcast) \in Nat
    BY <2>1, <2>2
  <2>4. Len(broadcast') <= BroadcastCap
    BY <1>0, <2>3 DEF TypeOK
  <2>5. m.room \in RoomIds /\ m.n \in 0 .. MaxMsgs
    BY <2>1 DEF Msg
  <2>6. CASE m.room \notin rooms
    BY <1>0, <1>9, <2>3, <2>4, <2>6 DEF handleBroadcast, TypeOK
  <2>7. CASE m.room \in rooms
    <3>1. PICK to \in SUBSET Ready(m.room) : Deliver(m, to) /\ Cancel(Dropped(m.room))
      BY <1>9, <2>7 DEF handleBroadcast
    <3>2. buffered' \in [Clients -> 0 .. SendCap]
      <4>1. buffered' = [c \in Clients |-> IF c \in to THEN buffered[c] + 1 ELSE buffered[c]]
        BY <3>1 DEF Deliver
      <4>2. \A c \in to : buffered[c] < SendCap
        BY DEF Ready
      <4>. QED
        BY <1>0, <4>1, <4>2 DEF TypeOK
    <3>3. lastSent' \in [Clients -> [RoomIds -> 0 .. MaxMsgs]]
      BY <1>0, <2>5, <3>1 DEF TypeOK, Deliver
    <3>4. Dropped(m.room) \in SUBSET Clients
      BY <1>0, <2>5 DEF Dropped, TypeOK
    <3>5. conn' \in [Clients -> {"new", "open", "done", "closed"}] /\ unregister' \subseteq Clients
      BY <1>0, <3>1, <3>4, CancelTypes
    <3>. QED
      BY <1>0, <1>9, <2>3, <2>4, <3>2, <3>3, <3>5 DEF handleBroadcast, TypeOK
  <2>. QED
    BY <2>6, <2>7
<1>10. CASE Shutdown \/ Stop
  BY <1>0, <1>10 DEF Shutdown, Stop, TypeOK
<1>11. ASSUME NEW r \in Topics, Publish(r)
       PROVE  TypeOK'
  <2>1. r \in RoomIds
    BY DEF RoomIds
  <2>2. published[r] \in 0 .. MaxMsgs /\ published[r] + 1 \in 1 .. MaxMsgs
    BY <1>0, <1>11, <2>1 DEF Publish, TypeOK
  <2>3. published' \in [RoomIds -> 0 .. MaxMsgs]
    <3>1. published' = [published EXCEPT ![r] = published[r] + 1]
      BY <1>11 DEF Publish
    <3>2. published \in [RoomIds -> 0 .. MaxMsgs] /\ published[r] + 1 \in 0 .. MaxMsgs
      BY <1>0, <2>2 DEF TypeOK
    <3>. QED
      BY <3>1, <3>2
  <2>4. inbox[r] \in Seq(1 .. MaxMsgs)
    BY <1>0, <2>1 DEF TypeOK
  <2>5. Append(inbox[r], published[r] + 1) \in Seq(1 .. MaxMsgs)
    BY <2>2, <2>4
  <2>6. inbox' \in [RoomIds -> Seq(1 .. MaxMsgs)]
    BY <1>0, <1>11, <2>5 DEF Publish, TypeOK
  <2>. QED
    BY <1>0, <1>11, <2>3, <2>6 DEF Publish, TypeOK
<1>12. ASSUME NEW r \in Topics, Take(r)
       PROVE  TypeOK'
  <2>1. r \in RoomIds
    BY DEF RoomIds
  <2>2. inbox[r] \in Seq(1 .. MaxMsgs) /\ inbox[r] # <<>>
    BY <1>0, <1>12, <2>1 DEF Take, TypeOK
  <2>3. Head(inbox[r]) \in 1 .. MaxMsgs /\ Tail(inbox[r]) \in Seq(1 .. MaxMsgs)
    BY <2>2, HeadTailProperties
  <2>4. [room |-> r, n |-> Head(inbox[r]), old |-> FALSE] \in Msg
    BY <2>1, <2>3 DEF Msg
  <2>5. inbox' \in [RoomIds -> Seq(1 .. MaxMsgs)] /\ hands' \subseteq Msg
    BY <1>0, <1>12, <2>3, <2>4 DEF Take, TypeOK
  <2>. QED
    BY <1>0, <1>12, <2>5 DEF Take, TypeOK
<1>13. ASSUME NEW m \in hands, Broadcast(m)
       PROVE  TypeOK'
  <2>1. broadcast \in Seq(Msg) /\ m \in Msg /\ Len(broadcast) < BroadcastCap
    BY <1>0, <1>13 DEF Broadcast, TypeOK
  <2>2. broadcast' = Append(broadcast, m)
    BY <1>13 DEF Broadcast
  <2>3. broadcast' \in Seq(Msg) /\ Len(broadcast') <= BroadcastCap
    BY <2>1, <2>2
  <2>. QED
    BY <1>0, <1>13, <2>3 DEF Broadcast, TypeOK
<1>14. ASSUME NEW m \in hands, Abandon(m)
       PROVE  TypeOK'
  BY <1>0, <1>14 DEF Abandon, TypeOK
<1>15. CASE Close
  <2>1. conn' \in [Clients -> {"new", "open", "done", "closed"}] /\ unregister' \subseteq Clients
    BY <1>0, <1>15, CancelTypes DEF Close
  <2>. QED
    BY <1>0, <1>15, <2>1 DEF Close, TypeOK
<1>16. CASE UNCHANGED vars
  BY <1>0, <1>16 DEF vars, TypeOK
<1>. QED
  BY <1>1, <1>2, <1>3, <1>4, <1>5, <1>6, <1>7, <1>8, <1>9, <1>10, <1>11, <1>12, <1>13, <1>14,
     <1>15, <1>16 DEF Next, Handle

(* The connections of a user among the clients C of the hub. *)
Of(u, C) == {c \in C : UserOf[c] = u}

(* A client more or less is a connection more or less of its user. *)
LEMMA OneConnectionMore ==
    ASSUME NEW C, IsFiniteSet(C), NEW c, NEW u
    PROVE  /\ IsFiniteSet(C \cup {c}) /\ IsFiniteSet(C \ {c})
           /\ Cardinality(Of(u, C)) \in Nat
           /\ Cardinality(Of(u, C)) <= Cardinality(Of(u, C \cup {c}))
           /\ c \notin C /\ UserOf[c] = u
                => Cardinality(Of(u, C \cup {c})) = Cardinality(Of(u, C)) + 1
           /\ c \in C /\ UserOf[c] = u
                => Cardinality(Of(u, C)) = Cardinality(Of(u, C \ {c})) + 1
           /\ UserOf[c] # u => Of(u, C \ {c}) = Of(u, C) /\ Of(u, C \cup {c}) = Of(u, C)
<1>1. IsFiniteSet(C \cup {c}) /\ IsFiniteSet(C \ {c})
  BY FS_AddElement, FS_RemoveElement
<1>2. Of(u, C) \subseteq C /\ Of(u, C \cup {c}) \subseteq C \cup {c} /\ Of(u, C) \subseteq Of(u, C \cup {c})
  BY DEF Of
<1>3. IsFiniteSet(Of(u, C)) /\ IsFiniteSet(Of(u, C \cup {c}))
  BY <1>1, <1>2, FS_Subset
<1>4. Cardinality(Of(u, C)) \in Nat /\ Cardinality(Of(u, C)) <= Cardinality(Of(u, C \cup {c}))
  BY <1>2, <1>3, FS_CardinalityType, FS_Subset
<1>5. ASSUME c \notin C, UserOf[c] = u
      PROVE  Cardinality(Of(u, C \cup {c})) = Cardinality(Of(u, C)) + 1
  <2>1. Of(u, C \cup {c}) = Of(u, C) \cup {c} /\ c \notin Of(u, C)
    BY <1>5 DEF Of
  <2>. QED
    BY <1>3, <2>1, FS_AddElement
<1>6. ASSUME c \in C, UserOf[c] = u
      PROVE  Cardinality(Of(u, C)) = Cardinality(Of(u, C \ {c})) + 1
  <2>1. Of(u, C \ {c}) = Of(u, C) \ {c} /\ c \in Of(u, C)
    BY <1>6 DEF Of
  <2>2. Cardinality(Of(u, C) \ {c}) = Cardinality(Of(u, C)) - 1
    BY <1>3, <2>1, FS_RemoveElement
  <2>. QED
    <3>1. Cardinality(Of(u, C \ {c})) = Cardinality(Of(u, C)) - 1
      BY <2>1, <2>2
    <3>. QED
      BY <1>4, <3>1
<1>7. UserOf[c] # u => Of(u, C \ {c}) = Of(u, C) /\ Of(u, C \cup {c}) = Of(u, C)
  BY DEF Of
<1>. QED
  BY <1>1, <1>4, <1>5, <1>6, <1>7

(* Every step keeps the maps of the hub in agreement and the counters sound. *)
LEMMA MapsStep == MapsInv /\ [Next]_vars => MapsInv'
<1> SUFFICES ASSUME MapsInv, [Next]_vars
             PROVE  MapsInv'
  OBVIOUS
<1> DEFINE Rest == /\ MembersMatch' /\ OnlineSound'
                   /\ IsFiniteSet(clients') /\ userRegistered'[Anonymous] = 0
<1>0. /\ TypeOK /\ MembersMatch /\ OnlineSound
      /\ IsFiniteSet(clients) /\ userRegistered[Anonymous] = 0
  BY DEF MapsInv
<1>a. TypeOK'
  BY TypesStep
<1>b. \A u \in Users : userRegistered[u] \in Nat
  BY <1>0 DEF TypeOK
<1>c. hub = "loop" => \A u \in Users : userRegistered[u] <= Cardinality(Of(u, clients))
  BY <1>0 DEF OnlineSound, Of
<1>d. ASSUME \A u \in Users : userRegistered'[u] <= Cardinality(Of(u, clients'))
      PROVE  OnlineSound'
  BY <1>d DEF OnlineSound, Of
<1> SUFFICES Rest
  BY <1>a DEF MapsInv
<1> HIDE DEF Rest
<1>1. ASSUME UNCHANGED maps, UNCHANGED hub \/ hub' # "loop"
      PROVE  Rest
  BY <1>0, <1>1 DEF maps, MembersMatch, OnlineSound, Rest
<1>2. ASSUME NEW c \in Clients, NEW r \in RoomIds, AddToRoom(c, r), hub = "loop"
      PROVE  MembersMatch' /\ IsFiniteSet(clients')
  <2>1. clients' = clients \cup {c} /\ IsFiniteSet(clients')
    BY <1>0, <1>2, OneConnectionMore DEF AddToRoom
  <2>2. clientRooms' = [clientRooms EXCEPT ![c] = clientRooms[c] \cup {r}]
    BY <1>2 DEF AddToRoom
  <2>3. members' = [members EXCEPT ![r] = members[r] \cup {c}] /\ rooms' = rooms \cup {r}
    BY <1>2 DEF AddToRoom
  <2>4. clientRooms \in [Clients -> SUBSET RoomIds] /\ members \in [RoomIds -> SUBSET Clients]
    BY <1>0 DEF TypeOK
  <2>. QED
    BY <1>0, <1>2, <2>1, <2>2, <2>3, <2>4 DEF MembersMatch
<1>3. ASSUME NEW c \in Clients, handleRegister(c)
      PROVE  Rest
  <2>1. CASE c \in clients
    BY <1>1, <1>3, <2>1 DEF handleRegister
  <2>2. CASE c \notin clients
    <3>1. UserRoom[UserOf[c]] \in RoomIds /\ UserOf[c] \in Users
      BY HubAssumption DEF RoomIds
    <3>2. hub = "loop" /\ Count(UserOf[c], 1) /\ AddToRoom(c, UserRoom[UserOf[c]])
      BY <1>3, <2>2 DEF handleRegister
    <3>3. MembersMatch' /\ IsFiniteSet(clients')
      BY <1>2, <3>1, <3>2
    <3>4. clients' = clients \cup {c}
      BY <3>2 DEF AddToRoom
    <3>5. /\ userRegistered'[Anonymous] = 0
          /\ \A v \in Users : v # UserOf[c] => userRegistered'[v] = userRegistered[v]
          /\ userRegistered'[UserOf[c]] <= userRegistered[UserOf[c]] + 1
          /\ userRegistered' \in [Users -> Nat]
      BY <1>0, <3>1, <3>2, CountTypes
    <3>6. ASSUME NEW u \in Users
          PROVE  userRegistered'[u] <= Cardinality(Of(u, clients'))
      <4>1. userRegistered[u] \in Nat /\ userRegistered'[u] \in Nat
            /\ userRegistered[u] <= Cardinality(Of(u, clients))
            /\ Cardinality(Of(u, clients)) \in Nat
        BY <1>0, <1>b, <1>c, <3>2, <3>5, OneConnectionMore
      <4>2. CASE u = UserOf[c]
        <5>0. IsFiniteSet(clients) /\ c \notin clients /\ UserOf[c] = u
          BY <1>0, <2>2, <4>2
        <5>1. Cardinality(Of(u, clients \cup {c})) = Cardinality(Of(u, clients)) + 1
          BY <5>0, OneConnectionMore
        <5>. QED
          BY <3>4, <3>5, <4>1, <4>2, <5>1
      <4>3. CASE u # UserOf[c]
        <5>1. Of(u, clients \cup {c}) = Of(u, clients)
          BY <4>3 DEF Of
        <5>2. userRegistered'[u] = userRegistered[u]
          BY <3>5, <4>3
        <5>. QED
          BY <3>4, <4>1, <5>1, <5>2
      <4>. QED
        BY <4>2, <4>3
    <3>. QED
      BY <1>d, <3>3, <3>5, <3>6 DEF Rest
  <2>. QED
    BY <2>1, <2>2
<1>4. ASSUME NEW c \in Clients, NEW r \in Topics, handleSubscribe(c, r)
      PROVE  Rest
  <2>1. hub = "loop" /\ AddToRoom(c, r) /\ r \in RoomIds /\ userRegistered' = userRegistered
    BY <1>4 DEF handleSubscribe, RoomIds
  <2>2. clients' = clients \cup {c}
    BY <2>1 DEF AddToRoom
  <2>3. ASSUME NEW u \in Users
        PROVE  userRegistered'[u] <= Cardinality(Of(u, clients'))
    <3>1. /\ Cardinality(Of(u, clients)) \in Nat
          /\ Cardinality(Of(u, clients)) <= Cardinality(Of(u, clients'))
      BY <1>0, <2>2, OneConnectionMore
    <3>2. Cardinality(Of(u, clients')) \in Nat
      BY <1>0, <1>2, <2>1, OneConnectionMore
    <3>. QED
      BY <1>b, <1>c, <2>1, <3>1, <3>2
  <2>. QED
    BY <1>0, <1>2, <1>d, <2>1, <2>3 DEF Rest
<1>5. ASSUME NEW c \in Clients, handleUnregister(c)
      PROVE  Rest
  <2>1. CASE c \notin clients
    BY <1>1, <1>5, <2>1 DEF handleUnregister
  <2>2. CASE c \in clients
    <3>1. /\ hub = "loop" /\ Count(UserOf[c], -1) /\ RemoveFromRooms(c, clientRooms[c])
          /\ clientRooms' = [clientRooms EXCEPT ![c] = {}] /\ clients' = clients \ {c}
      BY <1>5, <2>2 DEF handleUnregister
    <3>2. UserOf[c] \in Users
      BY HubAssumption
    <3>3. /\ userRegistered'[Anonymous] = 0
          /\ \A v \in Users : v # UserOf[c] => userRegistered'[v] = userRegistered[v]
          /\ userRegistered'[UserOf[c]] < userRegistered[UserOf[c]] \/ userRegistered'[UserOf[c]] = 0
          /\ userRegistered' \in [Users -> Nat]
      BY <1>0, <3>1, <3>2, CountTypes
    <3>4. IsFiniteSet(clients')
      BY <1>0, <3>1, OneConnectionMore
    <3>5. MembersMatch'
      <4>1. /\ members' = [r \in RoomIds |->
                  IF r \in clientRooms[c] THEN members[r] \ {c} ELSE members[r]]
            /\ rooms' = rooms \ Emptied(clientRooms[c], c)
        BY <3>1 DEF RemoveFromRooms
      <4>2. clientRooms \in [Clients -> SUBSET RoomIds] /\ members \in [RoomIds -> SUBSET Clients]
        BY <1>0 DEF TypeOK
      <4>3. /\ \A d \in Clients, r \in RoomIds : d \in members[r] <=> r \in clientRooms[d]
            /\ \A r \in RoomIds : r \in rooms <=> members[r] # {}
            /\ \A d \in Clients : clientRooms[d] # {} => d \in clients
        BY <1>0, <3>1 DEF MembersMatch
      <4>4. \A d \in Clients, r \in RoomIds : d \in members'[r] <=> r \in clientRooms'[d]
        BY <3>1, <4>1, <4>2, <4>3
      <4>5. \A r \in RoomIds : r \in rooms' <=> members'[r] # {}
        BY <4>1, <4>2, <4>3 DEF Emptied
      <4>6. \A d \in Clients : clientRooms'[d] # {} => d \in clients'
        BY <3>1, <4>2, <4>3
      <4>. QED
        BY <4>4, <4>5, <4>6 DEF MembersMatch
    <3>6. ASSUME NEW u \in Users
          PROVE  userRegistered'[u] <= Cardinality(Of(u, clients'))
      <4>1. userRegistered[u] \in Nat /\ userRegistered'[u] \in Nat
            /\ userRegistered[u] <= Cardinality(Of(u, clients))
            /\ Cardinality(Of(u, clients')) \in Nat
        BY <1>0, <1>b, <1>c, <3>1, <3>3, <3>4, OneConnectionMore
      <4>2. CASE u = UserOf[c]
        <5>1. Cardinality(Of(u, clients)) = Cardinality(Of(u, clients')) + 1
          BY <1>0, <2>2, <3>1, <4>2, OneConnectionMore
        <5>. QED
          BY <3>3, <4>1, <4>2, <5>1
      <4>3. CASE u # UserOf[c]
        <5>1. Of(u, clients') = Of(u, clients)
          BY <3>1, <4>3 DEF Of
        <5>. QED
          BY <3>3, <4>1, <4>3, <5>1
      <4>. QED
        BY <4>2, <4>3
    <3>. QED
      BY <1>d, <3>3, <3>4, <3>5, <3>6 DEF Rest
  <2>. QED
    BY <2>1, <2>2
<1>6. ASSUME NEW c \in Clients, NEW q \in Topics, handleUnsubscribe(c, q)
      PROVE  Rest
  <2>1. CASE ~(c \in clients /\ q \in rooms)
    BY <1>1, <1>6, <2>1 DEF handleUnsubscribe, maps
  <2>2. CASE c \in clients /\ q \in rooms
    <3>1. /\ hub = "loop" /\ RemoveFromRooms(c, {q})
          /\ clientRooms' = [clientRooms EXCEPT ![c] = clientRooms[c] \ {q}]
          /\ clients' = clients /\ userRegistered' = userRegistered
      BY <1>6, <2>2 DEF handleUnsubscribe
    <3>2. MembersMatch'
      <4>1. /\ members' = [r \in RoomIds |-> IF r \in {q} THEN members[r] \ {c} ELSE members[r]]
            /\ rooms' = rooms \ Emptied({q}, c)
        BY <3>1 DEF RemoveFromRooms
      <4>2. clientRooms \in [Clients -> SUBSET RoomIds] /\ members \in [RoomIds -> SUBSET Clients]
        BY <1>0 DEF TypeOK
      <4>3. /\ \A d \in Clients, r \in RoomIds : d \in members[r] <=> r \in clientRooms[d]
            /\ \A r \in RoomIds : r \in rooms <=> members[r] # {}
            /\ \A d \in Clients : clientRooms[d] # {} => d \in clients
        BY <1>0, <3>1 DEF MembersMatch
      <4>4. \A d \in Clients, r \in RoomIds : d \in members'[r] <=> r \in clientRooms'[d]
        BY <3>1, <4>1, <4>2, <4>3
      <4>5. \A r \in RoomIds : r \in rooms' <=> members'[r] # {}
        BY <2>2, <4>1, <4>2, <4>3 DEF Emptied
      <4>6. \A d \in Clients : clientRooms'[d] # {} => d \in clients'
        BY <3>1, <4>2, <4>3
      <4>. QED
        BY <4>4, <4>5, <4>6 DEF MembersMatch
    <3>. QED
      BY <1>0, <1>c, <1>d, <3>1, <3>2 DEF Rest
  <2>. QED
    BY <2>1, <2>2
<1>7. CASE Shutdown
  BY <1>0, <1>7, FS_EmptySet DEF Shutdown, MembersMatch, OnlineSound, Rest
<1>8. ASSUME NEW c \in Clients,
             \/ Connect(c) \/ Disconnect(c) \/ CloseConn(c) \/ Send(c) \/ Write(c)
             \/ \E r \in Topics : Join(c, r) \/ Leave(c, r)
      PROVE  Rest
  BY <1>1, <1>8 DEF Connect, Disconnect, CloseConn, Send, Write, Join, Leave
<1>9. CASE handleBroadcast \/ Stop \/ Close \/ UNCHANGED vars
  BY <1>1, <1>9 DEF handleBroadcast, Stop, Close, vars
<1>10. CASE \E r \in Topics : Publish(r) \/ Take(r)
  BY <1>1, <1>10 DEF Publish, Take
<1>11. CASE \E m \in hands : Broadcast(m) \/ Abandon(m)
  BY <1>1, <1>11 DEF Broadcast, Abandon
<1>. QED
  BY <1>3, <1>4, <1>5, <1>6, <1>7, <1>8, <1>9, <1>10, <1>11 DEF Next, Handle

(* Hub.start owns its maps: whatever the order of the requests of the clients and
   of the messages, the types hold, ... *)
THEOREM HubTypeCorrect == Spec => []TypeOK
<1>1. Spec => []MapsInv
  BY MapsInit, MapsStep, PTL DEF Spec
<1>2. MapsInv => TypeOK
  BY DEF MapsInv
<1>. QED
  BY <1>1, <1>2, PTL

(* ... handleRegister, handleUnregister, handleSubscribe and handleUnsubscribe leave
   rooms, clientRooms and the members of the rooms in agreement, ... *)
THEOREM MapsAgree == Spec => []MembersMatch
<1>1. Spec => []MapsInv
  BY MapsInit, MapsStep, PTL DEF Spec
<1>2. MapsInv => MembersMatch
  BY DEF MapsInv
<1>. QED
  BY <1>1, <1>2, PTL

(* ... and userRegistered never counts more connections of a user than there are. *)
THEOREM OnlineNeverTooMany == Spec => []OnlineSound
<1>1. Spec => []MapsInv
  BY MapsInit, MapsStep, PTL DEF Spec
<1>2. MapsInv => OnlineSound
  BY DEF MapsInv
<1>. QED
  BY <1>1, <1>2, PTL

-----------------------------------------------------------------------------
(* The way of a message to the clients. *)

(* The numbers of a room. *)
LEMMA WayTypes ==
    ASSUME TypeOK, NEW r \in RoomIds
    PROVE  /\ published[r] \in Nat /\ inbox[r] \in Seq(1 .. MaxMsgs) /\ Len(inbox[r]) \in Nat
           /\ DOMAIN inbox[r] = 1 .. Len(inbox[r])
           /\ TakenUpTo(r) \in Int /\ PutUpTo(r) \in Int
           /\ Len(broadcast) \in Nat /\ DOMAIN broadcast = 1 .. Len(broadcast)
           /\ \A i \in DOMAIN broadcast : broadcast[i] \in Msg /\ broadcast[i].n \in Int
           /\ \A c \in Clients : lastSent[c][r] \in Int
           /\ members[r] \subseteq Clients
<1>1. published[r] \in Nat /\ members[r] \subseteq Clients
  BY DEF TypeOK
<1>2. inbox[r] \in Seq(1 .. MaxMsgs)
  BY DEF TypeOK
<1>3. Len(inbox[r]) \in Nat /\ DOMAIN inbox[r] = 1 .. Len(inbox[r])
  BY <1>2
<1>4. TakenUpTo(r) \in Int /\ PutUpTo(r) \in Int
  BY <1>1, <1>3 DEF TakenUpTo, PutUpTo
<1>5. broadcast \in Seq(Msg)
  BY DEF TypeOK
<1>6. /\ Len(broadcast) \in Nat /\ DOMAIN broadcast = 1 .. Len(broadcast)
      /\ \A i \in DOMAIN broadcast : broadcast[i] \in Msg
  BY <1>5
<1>7. \A m \in Msg : m.n \in Int
  BY DEF Msg
<1>8. \A c \in Clients : lastSent[c][r] \in Int
  BY DEF TypeOK
<1>. QED
  BY <1>1, <1>2, <1>3, <1>4, <1>6, <1>7, <1>8

(* A step that moves no message and sends nothing keeps the way of a room, if who
   follows it followed it before. *)
LEMMA WayStays ==
    ASSUME NEW r \in RoomIds, Way(r), UNCHANGED <<broadcast, hands>>,
           inbox'[r] = inbox[r], published'[r] = published[r],
           r \in rooms => r \in rooms', cancelled => cancelled',
           \A c \in Following(r)' :
               /\ c \in Following(r) /\ lastSent'[c][r] = lastSent[c][r]
               /\ conn'[c] = "open" => conn[c] = "open"
    PROVE  Way(r)'
<1>1. Held(r)' = Held(r) /\ TakenUpTo(r)' = TakenUpTo(r) /\ PutUpTo(r)' = PutUpTo(r)
  BY DEF Held, TakenUpTo, PutUpTo
<1>2. (r \notin rooms => RoomEmpty(r))'
  BY <1>1 DEF Way, RoomEmpty
<1>3. InboxIsLast(r)' /\ ChannelInOrder(r)'
  BY <1>1 DEF Way, InboxIsLast, ChannelInOrder
<1>4. RestIsComing(r)'
  BY <1>1 DEF Way, RestIsComing
<1>. QED
  BY <1>2, <1>3, <1>4 DEF Way

(* A client leaves rooms: a room that is left empty loses all that was on its way,
   any other room nothing. *)
LEMMA WayAfterRemoval ==
    ASSUME TypeOK, NEW c \in Clients, NEW S \in SUBSET RoomIds, RemoveFromRooms(c, S),
           UNCHANGED <<cancelled, conn, published, lastSent>>, NEW r \in RoomIds, Way(r)
    PROVE  Way(r)'
<1> DEFINE gone == Emptied(S, c)
           Old(m) == [m EXCEPT !.old = @ \/ m.room \in gone]
<1>1. /\ DOMAIN broadcast' = DOMAIN broadcast
      /\ \A i \in DOMAIN broadcast :
            Live(broadcast[i], r)' <=> Live(broadcast[i], r) /\ r \notin gone
      /\ \A i \in DOMAIN broadcast : broadcast'[i].n = broadcast[i].n
  <2>1. \A i \in DOMAIN broadcast :
           /\ broadcast'[i].room = broadcast[i].room /\ broadcast'[i].n = broadcast[i].n
           /\ broadcast'[i].old = (broadcast[i].old \/ broadcast[i].room \in gone)
    BY RemoveTypes
  <2>2. DOMAIN broadcast' = DOMAIN broadcast
    BY DEF RemoveFromRooms
  <2>. QED
    BY <2>1, <2>2 DEF Live
<1>2. \A m \in Msg : /\ Old(m).room = m.room /\ Old(m).n = m.n
                     /\ Old(m).old = (m.old \/ m.room \in gone)
  BY DEF Msg
<1>3. hands' = {Old(m) : m \in hands} /\ hands \subseteq Msg
  BY DEF RemoveFromRooms, TypeOK
<1> HIDE DEF Old
<1>4. \A m \in hands : Live(Old(m), r) <=> Live(m, r) /\ r \notin gone
  BY <1>2, <1>3 DEF Live
<1>5. Held(r)' <=> Held(r) /\ r \notin gone
  BY <1>3, <1>4 DEF Held
<1>6. CASE r \in gone
  <2>1. Following(r)' = {}
    <3>1. members'[r] = members[r] \ {c} /\ members[r] \subseteq {c}
      BY <1>6 DEF RemoveFromRooms, Emptied
    <3>. QED
      BY <3>1 DEF Following
  <2>2. inbox'[r] = <<>>
    BY <1>6 DEF RemoveFromRooms
  <2>3. RoomEmpty(r)' /\ ChannelInOrder(r)'
    BY <1>1, <1>5, <1>6, <2>1, <2>2 DEF RoomEmpty, ChannelInOrder
  <2>4. InboxIsLast(r)'
    <3>1. DOMAIN inbox'[r] = {}
      BY <2>2
    <3>2. \A m \in hands' : ~Live(m, r)
      BY <1>5, <1>6 DEF Held
    <3>. QED
      BY <3>1, <3>2 DEF InboxIsLast
  <2>. QED
    BY <2>1, <2>3, <2>4 DEF Way, RestIsComing
<1>7. CASE r \notin gone
  <2>1. inbox'[r] = inbox[r]
    BY <1>7 DEF RemoveFromRooms
  <2>2. TakenUpTo(r)' = TakenUpTo(r) /\ PutUpTo(r)' = PutUpTo(r)
    BY <1>5, <1>7, <2>1 DEF TakenUpTo, PutUpTo
  <2>0. Following(r)' \subseteq Following(r)
    <3>1. members'[r] \subseteq members[r]
      BY DEF RemoveFromRooms
    <3>. QED
      BY <3>1 DEF Following
  <2>3. (r \notin rooms => RoomEmpty(r))'
    <3>1. r \notin rooms' => r \notin rooms
      BY <1>7 DEF RemoveFromRooms
    <3>. QED
      BY <1>1, <1>5, <2>0, <2>1, <3>1 DEF Way, RoomEmpty
  <2>4. InboxIsLast(r)'
    <3>1. \A m \in hands' : Live(m, r) => m.n = TakenUpTo(r)
      BY <1>2, <1>3, <1>4 DEF Way, InboxIsLast
    <3>. QED
      BY <2>1, <2>2, <3>1 DEF Way, InboxIsLast
  <2>5. ChannelInOrder(r)'
    BY <1>1, <1>7, <2>2 DEF Way, ChannelInOrder
  <2>6. RestIsComing(r)'
    BY <1>1, <1>7, <2>0, <2>2 DEF Way, RestIsComing
  <2>. QED
    BY <2>3, <2>4, <2>5, <2>6 DEF Way
<1>. QED
  BY <1>6, <1>7

(* A message is published: it is the last one of the inbox of its room. *)
LEMMA WayAfterPublish ==
    ASSUME TypeOK, NEW q \in Topics, Publish(q), NEW r \in RoomIds, Way(r)
    PROVE  Way(r)'
<1>1. /\ UNCHANGED <<cancelled, rooms, broadcast, hands, members, conn, lastSent>>
      /\ published' = [published EXCEPT ![q] = published[q] + 1]
      /\ inbox' = IF q \in rooms THEN [inbox EXCEPT ![q] = Append(inbox[q], published[q] + 1)]
                  ELSE inbox
  BY DEF Publish, maps
<1>2. q \in RoomIds /\ published \in [RoomIds -> 0 .. MaxMsgs]
      /\ inbox \in [RoomIds -> Seq(1 .. MaxMsgs)]
  BY DEF RoomIds, TypeOK
<1>3. CASE r # q
  BY <1>1, <1>2, <1>3, WayStays DEF Following
<1>4. CASE r = q /\ r \notin rooms
  <2>1. published'[r] = published[r] + 1 /\ inbox'[r] = <<>>
    BY <1>1, <1>2, <1>4 DEF Way, RoomEmpty
  <2>2. RoomEmpty(r)'
    BY <1>1, <1>4, <2>1 DEF Way, RoomEmpty, Held, Following
  <2>3. InboxIsLast(r)' /\ ChannelInOrder(r)'
    <3>1. DOMAIN inbox'[r] = {}
      BY <2>1
    <3>. QED
      BY <2>2, <3>1 DEF RoomEmpty, InboxIsLast, ChannelInOrder, Held
  <2>4. RestIsComing(r)'
    BY <2>2 DEF RoomEmpty, RestIsComing
  <2>. QED
    BY <1>1, <1>4, <2>2, <2>3, <2>4 DEF Way
<1>5. CASE r = q /\ r \in rooms
  <2>1. inbox[r] \in Seq(1 .. MaxMsgs) /\ Len(inbox[r]) \in Nat /\ published[r] \in Nat
    BY WayTypes
  <2>2. published'[r] = published[r] + 1 /\ inbox'[r] = Append(inbox[r], published[r] + 1)
    BY <1>1, <1>2, <1>5
  <2>3. /\ Len(inbox'[r]) = Len(inbox[r]) + 1 /\ DOMAIN inbox'[r] = 1 .. Len(inbox[r]) + 1
        /\ \A i \in 1 .. Len(inbox[r]) : inbox'[r][i] = inbox[r][i]
        /\ inbox'[r][Len(inbox[r]) + 1] = published[r] + 1
    BY <2>1, <2>2
  <2>4. TakenUpTo(r)' = TakenUpTo(r) /\ PutUpTo(r)' = PutUpTo(r) /\ Held(r)' = Held(r)
    BY <1>1, <2>1, <2>2, <2>3 DEF TakenUpTo, PutUpTo, Held
  <2>5. InboxIsLast(r)'
    <3>1. \A i \in 1 .. Len(inbox[r]) : inbox[r][i] = TakenUpTo(r) + i
      BY <2>1 DEF Way, InboxIsLast
    <3>2. published[r] + 1 = TakenUpTo(r) + (Len(inbox[r]) + 1)
      BY <2>1 DEF TakenUpTo
    <3>3. \A i \in DOMAIN inbox'[r] : inbox'[r][i] = TakenUpTo(r) + i
      BY <2>1, <2>3, <3>1, <3>2
    <3>. QED
      BY <1>1, <2>4, <3>3 DEF Way, InboxIsLast
  <2>6. ChannelInOrder(r)'
    BY <1>1, <2>4 DEF Way, ChannelInOrder
  <2>7. RestIsComing(r)'
    BY <1>1, <2>4 DEF Way, RestIsComing, Following
  <2>. QED
    BY <1>1, <1>5, <2>5, <2>6, <2>7 DEF Way
<1>. QED
  BY <1>3, <1>4, <1>5

(* The goroutine of a room takes the first message of the inbox. *)
LEMMA WayAfterTake ==
    ASSUME TypeOK, NEW q \in Topics, Take(q), NEW r \in RoomIds, Way(r)
    PROVE  Way(r)'
<1> DEFINE m == [room |-> q, n |-> Head(inbox[q]), old |-> FALSE]
<1>1. /\ q \in rooms /\ inbox[q] # <<>> /\ ~Held(q)
      /\ UNCHANGED <<cancelled, rooms, broadcast, published, members, conn, lastSent>>
      /\ hands' = hands \cup {m} /\ inbox' = [inbox EXCEPT ![q] = Tail(inbox[q])]
  BY DEF Take, maps, Held, Live
<1>2. q \in RoomIds /\ inbox \in [RoomIds -> Seq(1 .. MaxMsgs)]
  BY DEF RoomIds, TypeOK
<1>3. CASE r # q
  <2>0. ~Live(m, r)
    BY <1>3 DEF Live
  <2>1. \A x \in hands' : Live(x, r) => x \in hands
    BY <1>1, <2>0
  <2>2. inbox'[r] = inbox[r]
    BY <1>1, <1>2, <1>3
  <2>a. Held(r)' <=> Held(r)
    BY <1>1, <2>1 DEF Held
  <2>b. TakenUpTo(r)' = TakenUpTo(r)
    BY <1>1, <2>2 DEF TakenUpTo
  <2>3. (Held(r)' <=> Held(r)) /\ TakenUpTo(r)' = TakenUpTo(r) /\ PutUpTo(r)' = PutUpTo(r)
    BY <2>a, <2>b DEF PutUpTo
  <2>4. (r \notin rooms => RoomEmpty(r))' /\ InboxIsLast(r)'
    BY <1>1, <2>1, <2>2, <2>3 DEF Way, RoomEmpty, InboxIsLast, Following
  <2>5. ChannelInOrder(r)'
    BY <1>1, <2>3 DEF Way, ChannelInOrder
  <2>6. RestIsComing(r)'
    BY <1>1, <2>3 DEF Way, RestIsComing, Following
  <2>. QED
    BY <2>4, <2>5, <2>6 DEF Way
<1>4. CASE r = q
  <2>1. /\ inbox[r] \in Seq(1 .. MaxMsgs) /\ Len(inbox[r]) \in Nat /\ published[r] \in Nat
        /\ DOMAIN inbox[r] = 1 .. Len(inbox[r]) /\ TakenUpTo(r) \in Int
    BY WayTypes
  <2>2. inbox'[r] = Tail(inbox[r]) /\ inbox[r] # <<>>
    BY <1>1, <1>2, <1>4
  <2>3. /\ Len(inbox[r]) > 0 /\ Len(inbox'[r]) = Len(inbox[r]) - 1
        /\ DOMAIN inbox'[r] = 1 .. Len(inbox[r]) - 1
        /\ \A i \in 1 .. Len(inbox[r]) - 1 : inbox'[r][i] = inbox[r][i + 1]
        /\ Head(inbox[r]) = inbox[r][1]
    BY <2>1, <2>2
  <2>4. TakenUpTo(r)' = TakenUpTo(r) + 1
    BY <1>1, <2>1, <2>3 DEF TakenUpTo
  <2>5. Live(m, r) /\ m \in hands'
    BY <1>1, <1>4 DEF Live
  <2>6. Held(r)' /\ ~Held(r)
    BY <1>1, <1>4, <2>5 DEF Held
  <2>7. PutUpTo(r)' = PutUpTo(r)
    BY <2>1, <2>4, <2>6 DEF PutUpTo
  <2>8. InboxIsLast(r)'
    <3>1. \A i \in 1 .. Len(inbox[r]) : inbox[r][i] = TakenUpTo(r) + i
      BY <2>1 DEF Way, InboxIsLast
    <3>2. ASSUME NEW i \in DOMAIN inbox'[r]
          PROVE  inbox'[r][i] = TakenUpTo(r) + 1 + i
      <4>1. i \in 1 .. Len(inbox[r]) - 1 /\ i + 1 \in 1 .. Len(inbox[r])
        BY <2>1, <2>3
      <4>2. inbox'[r][i] = inbox[r][i + 1] /\ inbox[r][i + 1] = TakenUpTo(r) + (i + 1)
        BY <2>3, <3>1, <4>1
      <4>. QED
        BY <2>1, <4>1, <4>2
    <3>3. m.n = TakenUpTo(r) + 1
      <4>1. m.n = inbox[r][1]
        BY <1>4, <2>3
      <4>2. 1 \in 1 .. Len(inbox[r])
        BY <2>1, <2>3
      <4>. QED
        BY <3>1, <4>1, <4>2
    <3>4. \A x \in hands' : Live(x, r) => x = m
      BY <1>1, <2>6 DEF Held
    <3>. QED
      BY <2>4, <3>2, <3>3, <3>4 DEF InboxIsLast
  <2>9. ChannelInOrder(r)'
    BY <1>1, <2>7 DEF Way, ChannelInOrder
  <2>10. RestIsComing(r)'
    BY <1>1, <2>7 DEF Way, RestIsComing, Following
  <2>. QED
    BY <1>1, <1>4, <2>8, <2>9, <2>10 DEF Way
<1>. QED
  BY <1>3, <1>4

(* The goroutine of a room puts the message it holds into the channel. *)
LEMMA WayAfterBroadcast ==
    ASSUME TypeOK, NEW m \in hands, Broadcast(m), NEW r \in RoomIds, Way(r)
    PROVE  Way(r)'
<1>1. /\ UNCHANGED <<cancelled, rooms, published, inbox, members, conn, lastSent>>
      /\ broadcast' = Append(broadcast, m) /\ hands' = hands \ {m}
  BY DEF Broadcast, maps
<1>2. /\ Len(broadcast) \in Nat /\ DOMAIN broadcast = 1 .. Len(broadcast)
      /\ \A i \in DOMAIN broadcast : broadcast[i] \in Msg /\ broadcast[i].n \in Int
      /\ \A c \in Clients : lastSent[c][r] \in Int
      /\ TakenUpTo(r) \in Int /\ PutUpTo(r) \in Int /\ members[r] \subseteq Clients
  BY WayTypes
<1> DEFINE L == Len(broadcast) + 1
<1>3. broadcast \in Seq(Msg) /\ hands \subseteq Msg
  BY DEF TypeOK
<1>4. /\ DOMAIN broadcast' = 1 .. L /\ broadcast'[L] = m
      /\ \A i \in DOMAIN broadcast : broadcast'[i] = broadcast[i] /\ i \in 1 .. L /\ i < L
      /\ \A i \in 1 .. L : i \in DOMAIN broadcast \/ i = L
      /\ L \in 1 .. L
  BY <1>1, <1>2, <1>3
<1>5. TakenUpTo(r)' = TakenUpTo(r) /\ Following(r)' = Following(r)
  BY <1>1 DEF TakenUpTo, Following
<1>6. \A c \in Following(r) : lastSent[c][r] \in Int
  BY <1>2 DEF Following
<1> HIDE DEF L
<1>7. CASE ~Live(m, r)
  <2>1. Held(r)' <=> Held(r)
    BY <1>1, <1>7 DEF Held
  <2>2. PutUpTo(r)' = PutUpTo(r)
    BY <1>5, <2>1 DEF PutUpTo
  <2>3. \A i \in 1 .. L : Live(broadcast'[i], r) => i \in DOMAIN broadcast
    BY <1>4, <1>7
  <2>4. (r \notin rooms => RoomEmpty(r))'
    BY <1>1, <1>4, <1>5, <2>1, <2>3 DEF Way, RoomEmpty
  <2>5. InboxIsLast(r)'
    BY <1>1, <1>5 DEF Way, InboxIsLast
  <2>6. ChannelInOrder(r)'
    BY <1>1, <1>4, <2>2, <2>3 DEF Way, ChannelInOrder
  <2>7. RestIsComing(r)'
    BY <1>1, <1>4, <1>5, <2>2, <2>3 DEF Way, RestIsComing
  <2>. QED
    BY <2>4, <2>5, <2>6, <2>7 DEF Way
<1>8. CASE Live(m, r)
  <2>1. Held(r) /\ m.n = TakenUpTo(r) /\ PutUpTo(r) = TakenUpTo(r) - 1
    BY <1>8 DEF Held, PutUpTo, Way, InboxIsLast
  <2>2. \A x \in hands' : ~Live(x, r)
    <3>1. ASSUME NEW x \in hands, Live(x, r)
          PROVE  x = m
      <4>1. x.n = m.n /\ x.room = m.room /\ x.old = m.old /\ x \in Msg /\ m \in Msg
        BY <1>3, <1>8, <2>1, <3>1 DEF Way, InboxIsLast, Live, Msg
      <4>. QED
        BY <4>1 DEF Msg
    <3>. QED
      BY <1>1, <3>1
  <2>3. PutUpTo(r)' = PutUpTo(r) + 1 /\ m.n = PutUpTo(r)'
    BY <1>2, <1>5, <2>1, <2>2 DEF PutUpTo, Held
  <2>4. r \in rooms
    BY <2>1 DEF Way, RoomEmpty
  <2>5. InboxIsLast(r)'
    BY <1>1, <1>5, <2>2 DEF Way, InboxIsLast
  <2>6. ChannelInOrder(r)'
    <3>1. SUFFICES ASSUME NEW i \in 1 .. L, Live(broadcast'[i], r)
                   PROVE  /\ broadcast'[i].n <= PutUpTo(r)'
                          /\ \A j \in 1 .. L :
                                i < j /\ Live(broadcast'[j], r) => broadcast'[i].n < broadcast'[j].n
                          /\ ~cancelled => \A k \in broadcast'[i].n + 1 .. PutUpTo(r)' :
                                \E j \in 1 .. L :
                                   i < j /\ Live(broadcast'[j], r) /\ broadcast'[j].n = k
      BY <1>1, <1>4 DEF ChannelInOrder
    <3>2. CASE i = L
      <4>1. \A j \in 1 .. L : ~(L < j)
        BY <1>2 DEF L
      <4>. QED
        BY <1>2, <1>4, <2>3, <3>2, <4>1
    <3>3. CASE i \in DOMAIN broadcast
      <4>1. broadcast'[i] = broadcast[i] /\ Live(broadcast[i], r) /\ broadcast[i].n \in Int
        BY <1>2, <1>4, <3>1, <3>3
      <4>2. /\ broadcast[i].n <= PutUpTo(r)
            /\ \A j \in DOMAIN broadcast :
                  i < j /\ Live(broadcast[j], r) => broadcast[i].n < broadcast[j].n
            /\ ~cancelled => \A k \in broadcast[i].n + 1 .. PutUpTo(r) :
                  \E j \in DOMAIN broadcast :
                     i < j /\ Live(broadcast[j], r) /\ broadcast[j].n = k
        BY <3>3, <4>1 DEF Way, ChannelInOrder
      <4>3. broadcast[i].n < m.n
        BY <1>2, <2>3, <4>1, <4>2
      <4>4. \A j \in 1 .. L : i < j /\ Live(broadcast'[j], r) => broadcast'[i].n < broadcast'[j].n
        BY <1>4, <4>1, <4>2, <4>3
      <4>5. ASSUME ~cancelled, NEW k \in broadcast[i].n + 1 .. PutUpTo(r)'
            PROVE  \E j \in 1 .. L : i < j /\ Live(broadcast'[j], r) /\ broadcast'[j].n = k
        <5>1. CASE k = m.n
          BY <1>4, <1>8, <3>3, <5>1
        <5>2. CASE k # m.n
          <6>1. k \in broadcast[i].n + 1 .. PutUpTo(r)
            BY <1>2, <2>3, <4>1, <5>2
          <6>. QED
            BY <1>4, <4>2, <4>5, <6>1
        <5>. QED
          BY <5>1, <5>2
      <4>. QED
        BY <1>2, <2>3, <4>1, <4>3, <4>4, <4>5
    <3>. QED
      BY <1>4, <3>2, <3>3
  <2>7. RestIsComing(r)'
    <3>1. SUFFICES ASSUME NEW c \in Following(r)
                   PROVE  /\ lastSent[c][r] <= PutUpTo(r)'
                          /\ \A i \in 1 .. L :
                                Live(broadcast'[i], r) => lastSent[c][r] < broadcast'[i].n
                          /\ conn[c] = "open" => \A k \in lastSent[c][r] + 1 .. PutUpTo(r)' :
                                \E j \in 1 .. L : Live(broadcast'[j], r) /\ broadcast'[j].n = k
      BY <1>1, <1>4, <1>5 DEF RestIsComing
    <3>2. /\ lastSent[c][r] <= PutUpTo(r)
          /\ \A i \in DOMAIN broadcast :
                Live(broadcast[i], r) => lastSent[c][r] < broadcast[i].n
          /\ conn[c] = "open" => \A k \in lastSent[c][r] + 1 .. PutUpTo(r) :
                \E j \in DOMAIN broadcast : Live(broadcast[j], r) /\ broadcast[j].n = k
      BY DEF Way, RestIsComing
    <3>3. lastSent[c][r] \in Int
      BY <1>6
    <3>4. lastSent[c][r] < m.n /\ lastSent[c][r] <= PutUpTo(r)'
      BY <1>2, <2>3, <3>2, <3>3
    <3>5. \A i \in 1 .. L : Live(broadcast'[i], r) => lastSent[c][r] < broadcast'[i].n
      BY <1>4, <3>2, <3>4
    <3>6. ASSUME conn[c] = "open", NEW k \in lastSent[c][r] + 1 .. PutUpTo(r)'
          PROVE  \E j \in 1 .. L : Live(broadcast'[j], r) /\ broadcast'[j].n = k
      <4>1. CASE k = m.n
        BY <1>4, <1>8, <4>1
      <4>2. CASE k # m.n
        <5>1. k \in lastSent[c][r] + 1 .. PutUpTo(r)
          BY <1>2, <2>3, <3>3, <4>2
        <5>. QED
          BY <1>4, <3>2, <3>6, <5>1
      <4>. QED
        BY <4>1, <4>2
    <3>. QED
      BY <3>4, <3>5, <3>6
  <2>. QED
    BY <1>1, <2>4, <2>5, <2>6, <2>7 DEF Way
<1>. QED
  BY <1>7, <1>8

(* A closed hub: a goroutine gives the message it holds up. *)
LEMMA WayAfterAbandon ==
    ASSUME TypeOK, ClosedHasNone, NEW m \in hands, Abandon(m), NEW r \in RoomIds, Way(r)
    PROVE  Way(r)'
<1>1. /\ UNCHANGED <<cancelled, rooms, published, inbox, members, conn, lastSent, broadcast>>
      /\ hands' = hands \ {m} /\ cancelled
  BY DEF Abandon, BroadcastGivesUp, maps
<1>2. /\ \A i \in DOMAIN broadcast : broadcast[i].n \in Int
      /\ \A c \in Clients : lastSent[c][r] \in Int
      /\ TakenUpTo(r) \in Int /\ PutUpTo(r) \in Int /\ members[r] \subseteq Clients
  BY WayTypes
<1>3. TakenUpTo(r)' = TakenUpTo(r) /\ Following(r)' = Following(r) /\ (Held(r)' => Held(r))
  BY <1>1 DEF TakenUpTo, Following, Held
<1>4. PutUpTo(r) <= PutUpTo(r)' /\ PutUpTo(r)' \in Int
  BY <1>2, <1>3 DEF PutUpTo
<1>5. (r \notin rooms => RoomEmpty(r))' /\ InboxIsLast(r)'
  BY <1>1, <1>3 DEF Way, RoomEmpty, InboxIsLast
<1>6. ChannelInOrder(r)'
  <2>1. \A i \in DOMAIN broadcast : Live(broadcast[i], r) =>
           /\ broadcast[i].n <= PutUpTo(r)
           /\ \A j \in DOMAIN broadcast :
                 i < j /\ Live(broadcast[j], r) => broadcast[i].n < broadcast[j].n
    BY DEF Way, ChannelInOrder
  <2>2. \A i \in DOMAIN broadcast : Live(broadcast[i], r) => broadcast[i].n <= PutUpTo(r)'
    BY <1>2, <1>4, <2>1
  <2>. QED
    BY <1>1, <2>1, <2>2 DEF ChannelInOrder
<1>7. RestIsComing(r)'
  <2>1. \A c \in Following(r) :
           /\ lastSent[c][r] <= PutUpTo(r) /\ c \in Clients
           /\ \A i \in DOMAIN broadcast :
                 Live(broadcast[i], r) => lastSent[c][r] < broadcast[i].n
    BY <1>2 DEF Way, RestIsComing, Following
  <2>2. \A c \in Following(r) : lastSent[c][r] <= PutUpTo(r)' /\ conn[c] # "open"
    BY <1>1, <1>2, <1>4, <2>1 DEF ClosedHasNone
  <2>. QED
    BY <1>1, <1>3, <2>1, <2>2 DEF RestIsComing
<1>. QED
  BY <1>1, <1>5, <1>6, <1>7 DEF Way

(* The message at the head of the channel. *)
First == Head(broadcast)

(* What a broadcast does to the room of the message: the members `to' are sent it,
   and whoever of the others is left is not open. *)
SentTo(to) ==
    /\ \A c \in Clients : \A r \in RoomIds :
          lastSent'[c][r] = IF c \in to /\ ~First.old /\ r = First.room
                            THEN First.n ELSE lastSent[c][r]
    /\ \A c \in members[First.room] : conn'[c] = "open" => c \in to

(* A broadcast takes the first message out of the channel; the open members of its
   room get it, and whoever is left out is cut off. *)
LEMMA BroadcastEffect ==
    ASSUME TypeOK, handleBroadcast
    PROVE  /\ First \in Msg
           /\ UNCHANGED <<cancelled, rooms, published, inbox, hands, members>>
           /\ DOMAIN broadcast' = 1 .. Len(broadcast) - 1
           /\ \A i \in 1 .. Len(broadcast) - 1 : broadcast'[i] = broadcast[i + 1]
           /\ Len(broadcast) > 0 /\ First = broadcast[1]
           /\ First.room \notin rooms => UNCHANGED <<conn, lastSent>>
           /\ \A c \in Clients : conn'[c] = "open" => conn[c] = "open"
           /\ First.room \in rooms => \E to \in SUBSET members[First.room] : SentTo(to)
<1>1. broadcast \in Seq(Msg) /\ broadcast # <<>> /\ broadcast' = Tail(broadcast)
  BY DEF handleBroadcast, TypeOK
<1>2. /\ DOMAIN broadcast' = 1 .. Len(broadcast) - 1
      /\ \A i \in 1 .. Len(broadcast) - 1 : broadcast'[i] = broadcast[i + 1]
      /\ Len(broadcast) > 0 /\ First = broadcast[1] /\ First \in Msg
  BY <1>1 DEF First
<1>3. UNCHANGED <<cancelled, rooms, published, inbox, hands, members>>
  BY DEF handleBroadcast, maps
<1>4. First.room \notin rooms => UNCHANGED <<conn, lastSent>>
  BY DEF handleBroadcast, First
<1>5. ASSUME First.room \in rooms
      PROVE  /\ \E to \in SUBSET members[First.room] : SentTo(to)
             /\ \A c \in Clients : conn'[c] = "open" => conn[c] = "open"
  <2>0. PICK to \in SUBSET Ready(First.room) :
           /\ \A c \in Ready(First.room) : conn[c] = "open" => c \in to
           /\ Deliver(First, to) /\ Cancel(Dropped(First.room))
    BY <1>5 DEF handleBroadcast, First
  <2>1. /\ lastSent' = [c \in Clients |->
              IF c \in to /\ ~First.old
                THEN [lastSent[c] EXCEPT ![First.room] = First.n] ELSE lastSent[c]]
        /\ Cancel(Dropped(First.room))
    BY <2>0 DEF Deliver
  <2>2. First.room \in RoomIds
    BY <1>2 DEF Msg
  <2>3. members[First.room] \subseteq Clients /\ buffered \in [Clients -> 0 .. SendCap]
        /\ lastSent \in [Clients -> [RoomIds -> 0 .. MaxMsgs]]
    BY <2>2 DEF TypeOK
  <2>4. Dropped(First.room) \in SUBSET Clients
    BY <2>3 DEF Dropped
  <2>5. \A c \in Clients : conn'[c] = "open" => conn[c] = "open" /\ c \notin Dropped(First.room)
    BY <2>1, <2>4, CancelTypes
  <2>6. ASSUME NEW c \in Clients, buffered[c] # SendCap
        PROVE  buffered[c] < SendCap
    <3>1. buffered[c] \in 0 .. SendCap /\ SendCap \in Nat
      BY <2>3, HubAssumption
    <3>. QED
      BY <2>6, <3>1
  <2>7. \A c \in members[First.room] : conn'[c] = "open" => c \in to
    BY <2>0, <2>3, <2>5, <2>6 DEF Ready, Dropped
  <2>8. \A c \in Clients : \A r \in RoomIds :
           lastSent'[c][r] = IF c \in to /\ ~First.old /\ r = First.room
                             THEN First.n ELSE lastSent[c][r]
    BY <2>1, <2>2, <2>3
  <2>9. to \in SUBSET members[First.room] /\ SentTo(to)
    BY <2>7, <2>8 DEF Ready, SentTo
  <2>. QED
    BY <2>5, <2>9
<1>. QED
  BY <1>2, <1>3, <1>4, <1>5

(* After a broadcast the way of every room is still without a gap. *)
LEMMA WayAfterHandleBroadcast ==
    ASSUME TypeOK, ClosedHasNone, handleBroadcast, NEW r \in RoomIds, Way(r)
    PROVE  Way(r)'
<1> DEFINE L == Len(broadcast) - 1
<1>1. /\ First \in Msg
      /\ UNCHANGED <<cancelled, rooms, published, inbox, hands, members>>
      /\ DOMAIN broadcast' = 1 .. L
      /\ \A i \in 1 .. L : broadcast'[i] = broadcast[i + 1]
      /\ Len(broadcast) > 0 /\ First = broadcast[1]
  BY BroadcastEffect
<1>2. /\ Len(broadcast) \in Nat /\ DOMAIN broadcast = 1 .. Len(broadcast)
      /\ \A i \in DOMAIN broadcast : broadcast[i] \in Msg /\ broadcast[i].n \in Int
      /\ \A c \in Clients : lastSent[c][r] \in Int
      /\ TakenUpTo(r) \in Int /\ PutUpTo(r) \in Int /\ members[r] \subseteq Clients
  BY WayTypes
<1>3. /\ L \in Nat /\ 1 \in DOMAIN broadcast
      /\ \A i \in 1 .. L : i \in Int /\ i + 1 \in DOMAIN broadcast /\ 1 < i + 1
      /\ \A i \in DOMAIN broadcast : i \in Int /\ (i > 1 => i - 1 \in 1 .. L /\ broadcast'[i - 1] = broadcast[i])
  BY <1>1, <1>2
<1> HIDE DEF L
<1>4. /\ TakenUpTo(r)' = TakenUpTo(r) /\ (Held(r)' <=> Held(r))
  BY <1>1 DEF TakenUpTo, Held
<1>5. PutUpTo(r)' = PutUpTo(r)
  BY <1>4 DEF PutUpTo
<1>6. InboxIsLast(r)'
  BY <1>1, <1>4 DEF Way, InboxIsLast
<1>7. ChannelInOrder(r)'
  <2>1. SUFFICES ASSUME NEW i \in 1 .. L, Live(broadcast'[i], r)
                 PROVE  /\ broadcast'[i].n <= PutUpTo(r)
                        /\ \A j \in 1 .. L :
                              i < j /\ Live(broadcast'[j], r) => broadcast'[i].n < broadcast'[j].n
                        /\ ~cancelled => \A k \in broadcast'[i].n + 1 .. PutUpTo(r) :
                              \E j \in 1 .. L :
                                 i < j /\ Live(broadcast'[j], r) /\ broadcast'[j].n = k
    BY <1>1, <1>5 DEF ChannelInOrder
  <2>2. i + 1 \in DOMAIN broadcast /\ broadcast'[i] = broadcast[i + 1] /\ Live(broadcast[i + 1], r)
    BY <1>1, <1>3, <2>1
  <2>3. /\ broadcast[i + 1].n <= PutUpTo(r)
        /\ \A j \in DOMAIN broadcast :
              i + 1 < j /\ Live(broadcast[j], r) => broadcast[i + 1].n < broadcast[j].n
        /\ ~cancelled => \A k \in broadcast[i + 1].n + 1 .. PutUpTo(r) :
              \E j \in DOMAIN broadcast :
                 i + 1 < j /\ Live(broadcast[j], r) /\ broadcast[j].n = k
    BY <2>2 DEF Way, ChannelInOrder
  <2>4. ASSUME NEW j \in 1 .. L, i < j, Live(broadcast'[j], r)
        PROVE  broadcast'[i].n < broadcast'[j].n
    <3>0. i \in Int /\ j \in Int
      BY <1>3
    <3>1. j + 1 \in DOMAIN broadcast /\ broadcast'[j] = broadcast[j + 1]
      BY <1>1, <1>3
    <3>2. i + 1 < j + 1
      BY <2>4, <3>0
    <3>. QED
      BY <2>2, <2>3, <2>4, <3>1, <3>2
  <2>5. ASSUME ~cancelled, NEW k \in broadcast'[i].n + 1 .. PutUpTo(r)
        PROVE  \E j \in 1 .. L : i < j /\ Live(broadcast'[j], r) /\ broadcast'[j].n = k
    <3>1. PICK j \in DOMAIN broadcast :
             i + 1 < j /\ Live(broadcast[j], r) /\ broadcast[j].n = k
      BY <2>2, <2>3, <2>5
    <3>2. j - 1 \in 1 .. L /\ broadcast'[j - 1] = broadcast[j] /\ i < j - 1
      BY <1>3, <3>1
    <3>. QED
      BY <3>1, <3>2
  <2>. QED
    BY <2>2, <2>3, <2>4, <2>5
<1>8. CASE r \notin rooms
  <2>1. Following(r)' = {}
    <3>1. \A c \in members[r] : lastSent'[c][r] = lastSent[c][r]
      <4>1. CASE First.room \notin rooms
        BY <4>1, BroadcastEffect
      <4>2. CASE First.room \in rooms
        <5>1. r # First.room
          BY <1>8, <4>2
        <5>2. PICK to \in SUBSET members[First.room] : SentTo(to)
          BY <4>2, BroadcastEffect
        <5>. QED
          BY <1>2, <5>1, <5>2 DEF SentTo
      <4>. QED
        BY <4>1, <4>2
    <3>2. Following(r) = {}
      BY <1>8 DEF Way, RoomEmpty
    <3>. QED
      BY <1>1, <3>1, <3>2 DEF Following
  <2>2. RoomEmpty(r)'
    BY <1>1, <1>3, <1>4, <1>8, <2>1 DEF Way, RoomEmpty
  <2>. QED
    BY <1>6, <1>7, <2>1, <2>2 DEF Way, RestIsComing
<1>9. CASE r \in rooms /\ ~Live(First, r)
  <2>1. \A c \in Following(r)' : c \in Following(r) /\ lastSent'[c][r] = lastSent[c][r]
    <3>1. \A c \in members[r] : lastSent'[c][r] = lastSent[c][r]
      <4>1. CASE First.room \notin rooms
        BY <4>1, BroadcastEffect
      <4>2. CASE First.room \in rooms
        <5>1. First.old \/ r # First.room
          BY <1>9 DEF Live
        <5>2. PICK to \in SUBSET members[First.room] : SentTo(to)
          BY <4>2, BroadcastEffect
        <5>. QED
          BY <1>2, <5>1, <5>2 DEF SentTo
      <4>. QED
        BY <4>1, <4>2
    <3>. QED
      BY <1>1, <3>1 DEF Following
  <2>2. RestIsComing(r)'
    <3>1. SUFFICES ASSUME NEW c \in Following(r), lastSent'[c][r] = lastSent[c][r]
                   PROVE  /\ lastSent[c][r] <= PutUpTo(r)
                          /\ \A i \in 1 .. L :
                                Live(broadcast'[i], r) => lastSent[c][r] < broadcast'[i].n
                          /\ conn'[c] = "open" => \A k \in lastSent[c][r] + 1 .. PutUpTo(r) :
                                \E j \in 1 .. L : Live(broadcast'[j], r) /\ broadcast'[j].n = k
      BY <1>1, <1>5, <2>1 DEF RestIsComing
    <3>2. /\ lastSent[c][r] <= PutUpTo(r)
          /\ \A i \in DOMAIN broadcast :
                Live(broadcast[i], r) => lastSent[c][r] < broadcast[i].n
          /\ conn'[c] = "open" => \A k \in lastSent[c][r] + 1 .. PutUpTo(r) :
                \E j \in DOMAIN broadcast : Live(broadcast[j], r) /\ broadcast[j].n = k
      BY <1>2, BroadcastEffect DEF Way, RestIsComing, Following
    <3>3. ASSUME conn'[c] = "open", NEW k \in lastSent[c][r] + 1 .. PutUpTo(r)
          PROVE  \E j \in 1 .. L : Live(broadcast'[j], r) /\ broadcast'[j].n = k
      <4>1. PICK j \in DOMAIN broadcast : Live(broadcast[j], r) /\ broadcast[j].n = k
        BY <3>2, <3>3
      <4>2. j > 1
        BY <1>1, <1>2, <1>9, <4>1
      <4>3. j - 1 \in 1 .. L /\ broadcast'[j - 1] = broadcast[j]
        BY <1>3, <4>2
      <4>. QED
        BY <4>1, <4>3
    <3>. QED
      BY <1>1, <1>3, <3>2, <3>3
  <2>. QED
    BY <1>1, <1>6, <1>7, <1>9, <2>2 DEF Way
<1>10. CASE r \in rooms /\ Live(First, r)
  <2>1. First.room = r /\ ~First.old /\ First.n = broadcast[1].n /\ First.n \in Int
    BY <1>1, <1>2, <1>3, <1>10 DEF Live
  <2>2. \A c \in Following(r)' :
           \/ lastSent'[c][r] = First.n
           \/ c \in Following(r) /\ lastSent'[c][r] = lastSent[c][r] /\ conn'[c] # "open"
    <3>0. PICK to \in SUBSET members[First.room] : SentTo(to)
      BY <1>10, <2>1, BroadcastEffect
    <3>1. \A c \in members[r] : conn'[c] = "open" => c \in to
      BY <2>1, <3>0 DEF SentTo
    <3>2. \A c \in Clients : lastSent'[c][r] = IF c \in to THEN First.n ELSE lastSent[c][r]
      BY <2>1, <3>0 DEF SentTo
    <3>. QED
      BY <1>1, <1>2, <3>1, <3>2 DEF Following
  <2>3. /\ First.n <= PutUpTo(r)
        /\ \A j \in DOMAIN broadcast : 1 < j /\ Live(broadcast[j], r) => First.n < broadcast[j].n
        /\ ~cancelled => \A k \in First.n + 1 .. PutUpTo(r) :
              \E j \in DOMAIN broadcast : 1 < j /\ Live(broadcast[j], r) /\ broadcast[j].n = k
    BY <1>1, <1>3, <1>10, <2>1 DEF Way, ChannelInOrder
  <2>4. \A i \in 1 .. L : Live(broadcast'[i], r) => First.n < broadcast'[i].n
    BY <1>1, <1>3, <2>3
  <2>5. ASSUME ~cancelled, NEW k \in First.n + 1 .. PutUpTo(r)
        PROVE  \E j \in 1 .. L : Live(broadcast'[j], r) /\ broadcast'[j].n = k
    <3>1. PICK j \in DOMAIN broadcast : 1 < j /\ Live(broadcast[j], r) /\ broadcast[j].n = k
      BY <2>3, <2>5
    <3>2. j - 1 \in 1 .. L /\ broadcast'[j - 1] = broadcast[j]
      BY <1>3, <3>1
    <3>. QED
      BY <3>1, <3>2
  <2>6. RestIsComing(r)'
    <3>1. SUFFICES ASSUME NEW c \in Following(r)'
                   PROVE  /\ lastSent'[c][r] <= PutUpTo(r)
                          /\ \A i \in 1 .. L :
                                Live(broadcast'[i], r) => lastSent'[c][r] < broadcast'[i].n
                          /\ conn'[c] = "open" => \A k \in lastSent'[c][r] + 1 .. PutUpTo(r) :
                                \E j \in 1 .. L : Live(broadcast'[j], r) /\ broadcast'[j].n = k
      BY <1>1, <1>5 DEF RestIsComing
    <3>2. c \in Clients /\ (conn'[c] = "open" => ~cancelled)
      BY <1>1, <1>2, BroadcastEffect DEF Following, ClosedHasNone
    <3>3. CASE lastSent'[c][r] = First.n
      BY <2>3, <2>4, <2>5, <3>2, <3>3
    <3>4. CASE c \in Following(r) /\ lastSent'[c][r] = lastSent[c][r] /\ conn'[c] # "open"
      <4>1. /\ lastSent[c][r] <= PutUpTo(r)
            /\ \A i \in DOMAIN broadcast : Live(broadcast[i], r) => lastSent[c][r] < broadcast[i].n
        BY <3>4 DEF Way, RestIsComing
      <4>. QED
        BY <1>1, <1>3, <3>4, <4>1
    <3>. QED
      BY <2>2, <3>3, <3>4
  <2>. QED
    BY <1>1, <1>6, <1>7, <1>10, <2>6 DEF Way
<1>. QED
  BY <1>8, <1>9, <1>10

(* The hub starts with nothing on its way. *)
LEMMA FeedInit == Init => FeedInv
<1> SUFFICES ASSUME Init
             PROVE  FeedInv
  OBVIOUS
<1>1. NewIsNowhere /\ ClosedHasNone
  BY DEF Init, NewIsNowhere, ClosedHasNone
<1>2. ASSUME NEW r \in RoomIds
      PROVE  Way(r)
  <2>1. /\ inbox[r] = <<>> /\ DOMAIN inbox[r] = {} /\ ~Held(r) /\ Following(r) = {}
        /\ DOMAIN broadcast = {} /\ hands = {}
    BY DEF Init, Held, Following
  <2>. QED
    BY <2>1 DEF Way, RoomEmpty, InboxIsLast, ChannelInOrder, RestIsComing
<1>. QED
  BY <1>1, <1>2 DEF FeedInv

(* Every step keeps it. *)
LEMMA FeedStep == TypeOK /\ FeedInv /\ [Next]_vars => FeedInv'
<1> SUFFICES ASSUME TypeOK, FeedInv, [Next]_vars
             PROVE  FeedInv'
  OBVIOUS
<1>0. NewIsNowhere /\ ClosedHasNone /\ \A r \in RoomIds : Way(r)
  BY DEF FeedInv
<1>a. conn \in [Clients -> {"new", "open", "done", "closed"}] /\ \A r \in RoomIds : members[r] \subseteq Clients
  BY DEF TypeOK
(* A step that moves no message. *)
<1>1. ASSUME UNCHANGED <<broadcast, published, inbox, hands>>, rooms \subseteq rooms',
             cancelled => cancelled', NewIsNowhere', ClosedHasNone',
             \A c \in Clients : conn'[c] = "open" => conn[c] \in {"new", "open"},
             \A r \in RoomIds : \A c \in Following(r)' :
                 c \in Following(r) /\ lastSent'[c][r] = lastSent[c][r]
      PROVE  FeedInv'
  <2>1. ASSUME NEW r \in RoomIds
        PROVE  Way(r)'
    <3>1. \A c \in Following(r) : c \in Clients /\ conn[c] # "new"
      BY <1>0, <1>a DEF Following, NewIsNowhere
    <3>. QED
      BY <1>0, <1>1, <3>1, WayStays
  <2>. QED
    BY <1>1, <2>1 DEF FeedInv
(* A step that leaves the connections and the requests alone. *)
<1>2. ASSUME UNCHANGED cancelled, register' \subseteq register, subscribe' \subseteq subscribe,
             \A c \in Clients : /\ conn'[c] = "open" => conn[c] = "open"
                                /\ conn'[c] = "new" => conn[c] = "new",
             \A r \in RoomIds : members'[r] \subseteq members[r]
      PROVE  NewIsNowhere' /\ ClosedHasNone'
  BY <1>0, <1>2 DEF NewIsNowhere, ClosedHasNone
(* A step that only ends connections. *)
<1>3. ASSUME NEW S \in SUBSET Clients, Cancel(S),
             UNCHANGED <<register, subscribe, members>>, cancelled' = cancelled \/ S = Clients
      PROVE  NewIsNowhere' /\ ClosedHasNone'
  <2>1. /\ \A c \in Clients : conn'[c] = "open" => conn[c] = "open" /\ c \notin S
        /\ \A c \in Clients : conn'[c] = "new" <=> conn[c] = "new"
    BY <1>3, CancelTypes
  <2>. QED
    BY <1>0, <1>3, <2>1 DEF NewIsNowhere, ClosedHasNone
<1>4. ASSUME NEW c \in Clients, Connect(c)
      PROVE  FeedInv'
  <2>1. /\ conn[c] = "new" /\ ~cancelled /\ conn' = [conn EXCEPT ![c] = "open"]
        /\ register' = register \cup {c}
        /\ UNCHANGED <<cancelled, subscribe, rooms, members, broadcast, published, inbox, hands, lastSent>>
    BY <1>4 DEF Connect, maps, messages
  <2>2. NewIsNowhere' /\ ClosedHasNone'
    BY <1>0, <1>a, <2>1 DEF NewIsNowhere, ClosedHasNone
  <2>3. \A r \in RoomIds : \A d \in Following(r)' :
           d \in Following(r) /\ lastSent'[d][r] = lastSent[d][r]
    BY <1>0, <1>a, <2>1 DEF Following, NewIsNowhere
  <2>4. \A d \in Clients : conn'[d] = "open" => conn[d] \in {"new", "open"}
    BY <1>a, <2>1
  <2>. QED
    BY <1>1, <2>1, <2>2, <2>3, <2>4
<1>5. ASSUME NEW c \in Clients, Disconnect(c) \/ CloseConn(c) \/ Send(c) \/ Write(c)
      PROVE  FeedInv'
  <2>1. UNCHANGED <<cancelled, register, subscribe, rooms, members, broadcast, published, inbox, hands, lastSent>>
    BY <1>5 DEF Disconnect, CloseConn, Send, Write, requests, maps, messages
  <2>2. Cancel({c}) \/ conn' = conn \/ (conn[c] = "done" /\ conn' = [conn EXCEPT ![c] = "closed"])
    BY <1>5 DEF Disconnect, CloseConn, Send, Write
  <2>4. \A d \in Clients : /\ conn'[d] = "open" => conn[d] = "open"
                           /\ conn'[d] = "new" => conn[d] = "new"
    BY <1>a, <2>2, CancelTypes
  <2>3. NewIsNowhere' /\ ClosedHasNone'
    BY <1>2, <2>1, <2>4
  <2>5. \A r \in RoomIds : \A d \in Following(r)' :
           d \in Following(r) /\ lastSent'[d][r] = lastSent[d][r]
    BY <1>a, <2>1, <2>4 DEF Following
  <2>. QED
    BY <1>1, <2>1, <2>3, <2>4, <2>5
<1>6. ASSUME NEW c \in Clients, NEW q \in Topics, Join(c, q) \/ Leave(c, q)
      PROVE  FeedInv'
  <2>1. /\ UNCHANGED <<cancelled, conn, register, rooms, members, broadcast, published, inbox, hands, lastSent>>
        /\ subscribe' \in {subscribe, subscribe \cup {<<c, q>>}} /\ conn[c] # "new"
    BY <1>6 DEF Join, Leave, maps, messages
  <2>2. NewIsNowhere' /\ ClosedHasNone'
    BY <1>0, <1>a, <2>1 DEF NewIsNowhere, ClosedHasNone
  <2>. QED
    BY <1>1, <2>1, <2>2 DEF Following
(* A client is put into a room: it follows the room from the next message on. *)
<1>7. ASSUME NEW c \in Clients, NEW q \in RoomIds, AddToRoom(c, q), conn[c] # "new",
             register' \subseteq register, subscribe' \subseteq subscribe,
             UNCHANGED <<cancelled, conn, broadcast, published, inbox, hands>>
      PROVE  FeedInv'
  <2>1. /\ rooms' = rooms \cup {q}
        /\ members' = [members EXCEPT ![q] = members[q] \cup {c}]
        /\ lastSent' = IF c \in members[q] THEN lastSent ELSE [lastSent EXCEPT ![c][q] = 0]
    BY <1>7 DEF AddToRoom
  <2>2. members \in [RoomIds -> SUBSET Clients] /\ lastSent \in [Clients -> [RoomIds -> 0 .. MaxMsgs]]
    BY DEF TypeOK
  <2>3. NewIsNowhere' /\ ClosedHasNone'
    BY <1>0, <1>7, <2>1, <2>2 DEF NewIsNowhere, ClosedHasNone
  <2>4. ASSUME NEW r \in RoomIds, NEW d \in Following(r)'
        PROVE  d \in Following(r) /\ lastSent'[d][r] = lastSent[d][r]
    <3>1. d \in members'[r] /\ lastSent'[d][r] > 0
      BY <1>7, <2>4 DEF Following
    <3>2. CASE d \in members[r]
      <4>1. lastSent'[d][r] = lastSent[d][r]
        BY <1>a, <2>1, <2>2, <3>2
      <4>. QED
        BY <3>1, <3>2, <4>1 DEF Following
    <3>3. CASE d \notin members[r]
      <4>1. d = c /\ r = q
        BY <2>1, <2>2, <3>1, <3>3
      <4>2. lastSent'[c][q] = 0
        BY <2>1, <2>2, <3>3, <4>1
      <4>. QED
        BY <3>1, <4>1, <4>2
    <3>. QED
      BY <3>2, <3>3
  <2>. QED
    BY <1>1, <1>7, <2>1, <2>3, <2>4
<1>8. ASSUME NEW c \in Clients, handleRegister(c)
      PROVE  FeedInv'
  <2>1. conn[c] # "new"
    BY <1>0, <1>8 DEF handleRegister, NewIsNowhere
  <2>2. /\ register' \subseteq register
        /\ UNCHANGED <<cancelled, conn, subscribe, broadcast, published, inbox, hands>>
    BY <1>8 DEF handleRegister
  <2>3. CASE c \in clients
    <3>1. UNCHANGED <<rooms, members, lastSent>>
      BY <1>8, <2>3 DEF handleRegister, maps
    <3>2. NewIsNowhere' /\ ClosedHasNone'
      BY <1>2, <2>2, <3>1
    <3>. QED
      BY <1>1, <2>2, <3>1, <3>2 DEF Following
  <2>4. CASE c \notin clients
    <3>1. AddToRoom(c, UserRoom[UserOf[c]]) /\ UserRoom[UserOf[c]] \in RoomIds
      BY <1>8, <2>4, HubAssumption DEF handleRegister, RoomIds
    <3>. QED
      BY <1>7, <2>1, <2>2, <3>1
  <2>. QED
    BY <2>3, <2>4
<1>9. ASSUME NEW c \in Clients, NEW q \in Topics, handleSubscribe(c, q)
      PROVE  FeedInv'
  <2>1. q \in RoomIds /\ AddToRoom(c, q) /\ subscribe' \subseteq subscribe
        /\ UNCHANGED <<cancelled, conn, register, broadcast, published, inbox, hands>>
    BY <1>9 DEF handleSubscribe, RoomIds
  <2>2. conn[c] # "new"
    BY <1>0, <1>9, <2>1 DEF handleSubscribe, NewIsNowhere
  <2>. QED
    BY <1>7, <2>1, <2>2
(* A client leaves rooms. *)
<1>10. ASSUME NEW c \in Clients, NEW S \in SUBSET RoomIds, RemoveFromRooms(c, S),
              UNCHANGED <<cancelled, conn, register, subscribe, published, lastSent>>
       PROVE  FeedInv'
  <2>1. \A r \in RoomIds : members'[r] \subseteq members[r]
    BY <1>10 DEF RemoveFromRooms
  <2>2. NewIsNowhere' /\ ClosedHasNone'
    BY <1>2, <1>10, <2>1
  <2>3. ASSUME NEW r \in RoomIds
        PROVE  Way(r)'
    BY <1>0, <1>10, <2>3, WayAfterRemoval
  <2>. QED
    BY <2>2, <2>3 DEF FeedInv
<1>11. ASSUME NEW c \in Clients, handleUnregister(c)
       PROVE  FeedInv'
  <2>1. UNCHANGED <<cancelled, conn, register, subscribe, published, lastSent>>
    BY <1>11 DEF handleUnregister
  <2>2. CASE c \in clients
    <3>1. RemoveFromRooms(c, clientRooms[c]) /\ clientRooms[c] \in SUBSET RoomIds
      BY <1>11, <2>2 DEF handleUnregister, TypeOK
    <3>. QED
      BY <1>10, <2>1, <3>1
  <2>3. CASE c \notin clients
    <3>1. UNCHANGED <<rooms, members, broadcast, inbox, hands>>
      BY <1>11, <2>3 DEF handleUnregister, maps
    <3>2. NewIsNowhere' /\ ClosedHasNone'
      BY <1>2, <2>1, <3>1
    <3>. QED
      BY <1>1, <2>1, <3>1, <3>2 DEF Following
  <2>. QED
    BY <2>2, <2>3
<1>12. ASSUME NEW c \in Clients, NEW q \in Topics, handleUnsubscribe(c, q)
       PROVE  FeedInv'
  <2>1. UNCHANGED <<cancelled, conn, register, subscribe, published, lastSent>>
    BY <1>12 DEF handleUnsubscribe
  <2>2. CASE c \in clients /\ q \in rooms
    <3>1. RemoveFromRooms(c, {q}) /\ {q} \in SUBSET RoomIds
      BY <1>12, <2>2 DEF handleUnsubscribe, RoomIds
    <3>. QED
      BY <1>10, <2>1, <3>1
  <2>3. CASE ~(c \in clients /\ q \in rooms)
    <3>1. UNCHANGED <<rooms, members, broadcast, inbox, hands>>
      BY <1>12, <2>3 DEF handleUnsubscribe
    <3>2. NewIsNowhere' /\ ClosedHasNone'
      BY <1>2, <2>1, <3>1
    <3>. QED
      BY <1>1, <2>1, <3>1, <3>2 DEF Following
  <2>. QED
    BY <2>2, <2>3
<1>13. CASE handleBroadcast
  <2>1. UNCHANGED <<cancelled, register, subscribe, members>>
    BY <1>13 DEF handleBroadcast, maps
  <2>2. First \in Msg /\ First.room \in RoomIds
    BY <1>13, BroadcastEffect DEF Msg
  <2>3. conn' = conn \/ (Cancel(Dropped(First.room)) /\ Dropped(First.room) \in SUBSET Clients)
    BY <1>13, <1>a, <2>2 DEF handleBroadcast, First, Dropped
  <2>4. NewIsNowhere' /\ ClosedHasNone'
    BY <1>2, <1>3, <2>1, <2>3
  <2>5. ASSUME NEW r \in RoomIds
        PROVE  Way(r)'
    BY <1>0, <1>13, <2>1, <2>5, WayAfterHandleBroadcast
  <2>. QED
    BY <2>4, <2>5 DEF FeedInv
<1>14. CASE Close
  <2>1. NewIsNowhere' /\ ClosedHasNone' /\ cancelled'
    BY <1>3, <1>14 DEF Close, maps
  <2>2. UNCHANGED <<rooms, members, broadcast, published, inbox, hands, lastSent>> /\ Cancel(Clients)
    BY <1>14 DEF Close, maps, messages
  <2>3. \A c \in Clients : conn'[c] = "open" => conn[c] = "open"
    BY <2>2, CancelTypes
  <2>. QED
    BY <1>1, <2>1, <2>2, <2>3 DEF Following
<1>15. CASE Shutdown \/ Stop \/ UNCHANGED vars
  <2>1. /\ UNCHANGED <<cancelled, conn, register, subscribe, rooms, members>>
        /\ UNCHANGED <<broadcast, published, inbox, hands, lastSent>>
    BY <1>15 DEF Shutdown, Stop, vars, requests, maps, messages
  <2>2. NewIsNowhere' /\ ClosedHasNone'
    BY <1>2, <2>1
  <2>. QED
    BY <1>1, <2>1, <2>2 DEF Following
<1>16. ASSUME NEW q \in Topics, Publish(q) \/ Take(q)
       PROVE  FeedInv'
  <2>1. UNCHANGED <<cancelled, conn, register, subscribe, members>>
    BY <1>16 DEF Publish, Take, requests, maps
  <2>2. NewIsNowhere' /\ ClosedHasNone'
    BY <1>2, <2>1
  <2>3. ASSUME NEW r \in RoomIds
        PROVE  Way(r)'
    BY <1>0, <1>16, <2>1, <2>3, WayAfterPublish, WayAfterTake
  <2>. QED
    BY <2>2, <2>3 DEF FeedInv
<1>17. ASSUME NEW m \in hands, Broadcast(m) \/ Abandon(m)
       PROVE  FeedInv'
  <2>1. UNCHANGED <<cancelled, conn, register, subscribe, members>>
    BY <1>17 DEF Broadcast, Abandon, requests, maps
  <2>2. NewIsNowhere' /\ ClosedHasNone'
    BY <1>2, <2>1
  <2>3. ASSUME NEW r \in RoomIds
        PROVE  Way(r)'
    BY <1>0, <1>17, WayAfterBroadcast, WayAfterAbandon
  <2>. QED
    BY <2>2, <2>3 DEF FeedInv
<1>. QED
  BY <1>4, <1>5, <1>6, <1>8, <1>9, <1>11, <1>12, <1>13, <1>14, <1>15, <1>16, <1>17
     DEF Next, Handle

(* The next message sent to a member comes after the last, and is the one after it
   if the member is open. *)
LEMMA NextIsNext ==
    ASSUME TypeOK, FeedInv, [Next]_vars, NEW c \in Clients, NEW r \in RoomIds,
           0 < lastSent[c][r], lastSent[c][r] # lastSent'[c][r], lastSent'[c][r] # 0
    PROVE  /\ lastSent[c][r] < lastSent'[c][r]
           /\ conn[c] = "open" => lastSent'[c][r] = lastSent[c][r] + 1
<1>1. lastSent \in [Clients -> [RoomIds -> 0 .. MaxMsgs]]
  BY DEF TypeOK
<1>2. ASSUME NEW d, NEW q, AddToRoom(d, q)
      PROVE  FALSE
  <2>1. lastSent' = lastSent \/ lastSent' = [lastSent EXCEPT ![d][q] = 0]
    BY <1>2 DEF AddToRoom
  <2>. QED
    BY <1>1, <2>1
<1>3. handleBroadcast
  BY <1>2 DEF vars, requests, maps, messages, Next, Handle, Connect, Disconnect, CloseConn,
     Send, Write, Join, Leave, handleRegister, handleUnregister, handleSubscribe, handleUnsubscribe, Shutdown,
     Stop, Publish, Take, Broadcast, Abandon, Close
<1>4. c \in members[r] /\ ~First.old /\ r = First.room /\ lastSent'[c][r] = First.n
  <2>1. First.room \in rooms
    BY <1>3, BroadcastEffect
  <2>2. PICK to \in SUBSET members[First.room] : SentTo(to)
    BY <1>3, <2>1, BroadcastEffect
  <2>. QED
    BY <2>2 DEF SentTo
<1>5. c \in Following(r)
  BY <1>4 DEF Following
<1>7. Way(r)
  BY DEF FeedInv
<1>8. /\ Len(broadcast) \in Nat /\ DOMAIN broadcast = 1 .. Len(broadcast)
      /\ \A i \in DOMAIN broadcast : broadcast[i] \in Msg /\ broadcast[i].n \in Int
      /\ lastSent[c][r] \in Int /\ PutUpTo(r) \in Int
  BY WayTypes
<1>9. First = broadcast[1] /\ 1 \in DOMAIN broadcast /\ Live(broadcast[1], r)
  BY <1>3, <1>4, <1>8, BroadcastEffect DEF Live
<1>10. lastSent[c][r] < First.n /\ First.n <= PutUpTo(r)
  BY <1>5, <1>7, <1>9 DEF Way, RestIsComing, ChannelInOrder
<1>11. ASSUME conn[c] = "open", lastSent[c][r] + 1 < First.n
       PROVE  FALSE
  <2>1. lastSent[c][r] + 1 \in lastSent[c][r] + 1 .. PutUpTo(r)
    BY <1>8, <1>9, <1>10
  <2>2. PICK j \in DOMAIN broadcast : Live(broadcast[j], r) /\ broadcast[j].n = lastSent[c][r] + 1
    BY <1>5, <1>7, <1>11, <2>1 DEF Way, RestIsComing
  <2>3. j = 1 \/ 1 < j
    BY <1>8
  <2>4. First.n <= broadcast[j].n
    BY <1>7, <1>8, <1>9, <2>2, <2>3 DEF Way, ChannelInOrder
  <2>. QED
    BY <1>8, <1>9, <1>11, <2>2, <2>4
<1>. QED
  BY <1>4, <1>8, <1>9, <1>10, <1>11

(* handleBroadcast, createRoom and Client.Send: a client that stays in a room is sent
   the messages of the room's subscription in order and none twice, and until it is
   cancelled without a gap, whatever joins, leaves, slow clients and full channels
   there are. *)
THEOREM NeverAGap == Spec => NoGap
<1> DEFINE Consecutive == \A c \in Clients, r \in RoomIds :
              (0 < lastSent[c][r] /\ lastSent[c][r] # lastSent'[c][r] /\ lastSent'[c][r] # 0)
                  => /\ lastSent[c][r] < lastSent'[c][r]
                     /\ conn[c] = "open" => lastSent'[c][r] = lastSent[c][r] + 1
<1>1. Spec => []MapsInv
  BY MapsInit, MapsStep, PTL DEF Spec
<1>2. MapsInv => TypeOK
  BY DEF MapsInv
<1>3. Spec => []FeedInv
  BY <1>1, <1>2, FeedInit, FeedStep, PTL DEF Spec
<1>4. TypeOK /\ FeedInv /\ [Next]_vars => Consecutive
  BY NextIsNext
<1>. QED
  BY <1>1, <1>2, <1>3, <1>4, PTL DEF Spec, NoGap
=============================================================================
