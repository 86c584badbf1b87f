-------------------------------- MODULE Hub --------------------------------
(***************************************************************************)
(* The WebSocket hub of internal/ws.  One goroutine (Hub.start) owns the   *)
(* maps and takes requests from five channels.  `select' picks any channel *)
(* that is ready, and the clients' messages are routed in goroutines of    *)
(* their own, so requests on different channels overtake each other: each  *)
(* of register, unregister, subscribe and unsubscribe is a set of requests *)
(* on their way.  The broadcast channel is a queue with a capacity.        *)
(*                                                                         *)
(* A room exists while it has a Redis subscription and a goroutine that    *)
(* forwards its messages to the broadcast channel.  Messages of a room are *)
(* numbered in the order of their publication.                             *)
(***************************************************************************)
EXTENDS Integers, Sequences, FiniteSets

CONSTANTS
    Clients,        \* connections (*Client); a new connection is a new client
    Users,
    Anonymous,      \* repos.AnonymousUser
    UserOf,         \* Client.User
    Topics,         \* rooms that a client may join and leave
    UserRoom,       \* UserRoom[u]: the room "user:<id>"
    MaxMsgs,        \* bound: messages published in a topic
    BroadcastCap,   \* capacity of the broadcast channel
    SendCap         \* clientSendBufSize

RoomIds == Topics \cup {UserRoom[u] : u \in Users}

ASSUME HubAssumption ==
    /\ Anonymous \in Users
    /\ UserOf \in [Clients -> Users]
    /\ \A u \in Users : UserRoom[u] \notin Topics
    /\ MaxMsgs \in Nat
    /\ BroadcastCap \in Nat \ {0}
    /\ SendCap \in Nat \ {0}

VARIABLES
    hub,            \* the hub goroutine: "loop", "waiting" (stop), "stopped"
    cancelled,      \* Hub.Close was called: h.ctx is done
    conn,           \* conn[c]: "new", "open", "done" once c.Ctx is done, or
                    \* "closed" once the socket is closed
    register,       \* requests on their way to the hub ...
    unregister,
    subscribe,
    unsubscribe,
    broadcast,      \* the broadcast channel
    clients,        \* h.clients
    clientRooms,    \* h.clientRooms
    rooms,          \* the rooms in h.rooms
    members,        \* members[r]: roomState.clients
    userRegistered, \* h.userRegistered
    published,      \* published[r]: number of messages published
    inbox,          \* inbox[r]: messages received by the subscription of r
    hands,          \* messages a forwarding goroutine holds
    buffered,       \* buffered[c]: messages in c.send
    lastSent        \* lastSent[c][r]: number of the last message put in c.send
                    \* since c joined r, or 0

requests == <<register, unregister, subscribe, unsubscribe>>
maps == <<clients, clientRooms, rooms, members, userRegistered>>
messages == <<broadcast, published, inbox, hands, buffered, lastSent>>
vars == <<hub, cancelled, conn, requests, maps, messages>>

Msg == [room : RoomIds, n : 1 .. MaxMsgs, old : BOOLEAN]

Init ==
    /\ hub = "loop" /\ cancelled = FALSE
    /\ conn = [c \in Clients |-> "new"]
    /\ register = {} /\ unregister = {} /\ subscribe = {} /\ unsubscribe = {}
    /\ broadcast = <<>>
    /\ clients = {}
    /\ clientRooms = [c \in Clients |-> {}]
    /\ rooms = {}
    /\ members = [r \in RoomIds |-> {}]
    /\ userRegistered = [u \in Users |-> 0]
    /\ published = [r \in RoomIds |-> 0]
    /\ inbox = [r \in RoomIds |-> <<>>]
    /\ hands = {}
    /\ buffered = [c \in Clients |-> 0]
    /\ lastSent = [c \in Clients |-> [r \in RoomIds |-> 0]]

-----------------------------------------------------------------------------
(* The clients. *)

(* ServeWS: NewClient, Register, Start. *)
Connect(c) ==
    /\ conn[c] = "new" /\ ~ cancelled
    /\ conn' = [conn EXCEPT ![c] = "open"]
    /\ register' = register \cup {c}
    /\ UNCHANGED <<hub, cancelled, unregister, subscribe, unsubscribe, maps, messages>>

(* c.cancel() for the clients in S: the goroutine that waits for c.Ctx calls
   Unregister once. *)
Cancel(S) ==
    LET ended == {c \in S : conn[c] = "open"} IN
    /\ conn' = [c \in Clients |-> IF c \in ended THEN "done" ELSE conn[c]]
    /\ unregister' = unregister \cup ended

(* The peer is gone, a pump fails, or a message is refused. *)
Disconnect(c) ==
    /\ conn[c] = "open"
    /\ Cancel({c})
    /\ UNCHANGED <<hub, cancelled, register, subscribe, unsubscribe, maps, messages>>

(* The goroutine that waited for c.Ctx closes the socket. *)
CloseConn(c) ==
    /\ conn[c] = "done"
    /\ conn' = [conn EXCEPT ![c] = "closed"]
    /\ UNCHANGED <<hub, cancelled, requests, maps, messages>>

(* A message of c is routed to a handler that calls Join or Leave; a handler
   takes its time and does not look at c.Ctx. *)
Join(c, r) ==
    /\ conn[c] # "new"
    /\ subscribe' = subscribe \cup {<<c, r>>}
    /\ UNCHANGED <<hub, cancelled, conn, register, unregister, unsubscribe,
                   maps, messages>>

Leave(c, r) ==
    /\ conn[c] # "new"
    /\ unsubscribe' = unsubscribe \cup {<<c, r>>}
    /\ UNCHANGED <<hub, cancelled, conn, register, unregister, subscribe,
                   maps, messages>>

(* Client.Send, SendBatchJSON: an answer of a handler; a client whose buffer
   is full is disconnected. *)
Send(c) ==
    /\ conn[c] # "new"
    /\ IF buffered[c] < SendCap
         THEN /\ buffered' = [buffered EXCEPT ![c] = @ + 1]
              /\ UNCHANGED <<conn, unregister>>
         ELSE Cancel({c}) /\ UNCHANGED buffered
    /\ UNCHANGED <<hub, cancelled, register, subscribe, unsubscribe, maps,
                   broadcast, published, inbox, hands, lastSent>>

(* writePump: everything buffered goes out as one frame.  The pump does not look
   at c.Ctx: it goes on until the socket is closed. *)
Write(c) ==
    /\ conn[c] \in {"open", "done"} /\ buffered[c] > 0
    /\ buffered' = [buffered EXCEPT ![c] = 0]
    /\ UNCHANGED <<hub, cancelled, conn, requests, maps, broadcast, published,
                   inbox, hands, lastSent>>

-----------------------------------------------------------------------------
(* The hub's handlers. *)

(* c is added to room r, which is created (createRoom) if it does not exist. *)
AddToRoom(c, r) ==
    /\ clients' = clients \cup {c}
    /\ clientRooms' = [clientRooms EXCEPT ![c] = @ \cup {r}]
    /\ rooms' = rooms \cup {r}
    /\ members' = [members EXCEPT ![r] = @ \cup {c}]
    /\ lastSent' = IF c \in members[r] THEN lastSent
                   ELSE [lastSent EXCEPT ![c][r] = 0]

(* The rooms in S lose c; the ones left empty are deleted (deleteRoom): their
   subscription ends, and what it brought is old. *)
NotDeleted(S, c) == {}
Emptied(S, c) == {r \in S : members[r] \subseteq {c}}

RemoveFromRooms(c, S) ==
    LET gone == Emptied(S, c)
        Old(m) == [m EXCEPT !.old = @ \/ m.room \in gone] IN
    /\ members' = [r \in RoomIds |-> IF r \in S THEN members[r] \ {c} ELSE members[r]]
    /\ rooms' = rooms \ gone
    /\ inbox' = [r \in RoomIds |-> IF r \in gone THEN <<>> ELSE inbox[r]]
    /\ broadcast' = [i \in DOMAIN broadcast |-> Old(broadcast[i])]
    /\ hands' = {Old(m) : m \in hands}

(* userRegistered[u]++ and -- (an entry that reaches 0 is deleted). *)
CountUp(u, d) ==
    userRegistered' = IF u = Anonymous THEN userRegistered
                      ELSE [userRegistered EXCEPT ![u] = @ + 1]
Count(u, d) ==
    userRegistered' =
        IF u = Anonymous THEN userRegistered
        ELSE [userRegistered EXCEPT ![u] = IF @ + d > 0 THEN @ + d ELSE 0]

handleRegister(c) ==
    /\ hub = "loop" /\ c \in register
    /\ register' = register \ {c}
    /\ IF c \in clients THEN UNCHANGED <<maps, lastSent>>
       ELSE /\ Count(UserOf[c], 1)
            /\ AddToRoom(c, UserRoom[UserOf[c]])
    /\ UNCHANGED <<hub, cancelled, conn, unregister, subscribe, unsubscribe,
                   broadcast, published, inbox, hands, buffered>>

handleUnregister(c) ==
    /\ hub = "loop" /\ c \in unregister
    /\ unregister' = unregister \ {c}
    /\ IF c \notin clients THEN UNCHANGED <<maps, broadcast, inbox, hands>>
       ELSE /\ Count(UserOf[c], -1)
            /\ RemoveFromRooms(c, clientRooms[c])
            /\ clientRooms' = [clientRooms EXCEPT ![c] = {}]
            /\ clients' = clients \ {c}
    /\ UNCHANGED <<hub, cancelled, conn, register, subscribe, unsubscribe,
                   published, buffered, lastSent>>

handleSubscribe(c, r) ==
    /\ hub = "loop" /\ <<c, r>> \in subscribe
    /\ subscribe' = subscribe \ {<<c, r>>}
    /\ AddToRoom(c, r)
    /\ UNCHANGED <<hub, cancelled, conn, register, unregister, unsubscribe,
                   userRegistered, broadcast, published, inbox, hands, buffered>>

handleUnsubscribe(c, r) ==
    /\ hub = "loop" /\ <<c, r>> \in unsubscribe
    /\ unsubscribe' = unsubscribe \ {<<c, r>>}
    /\ IF c \in clients /\ r \in rooms
         THEN /\ clientRooms' = [clientRooms EXCEPT ![c] = @ \ {r}]
              /\ RemoveFromRooms(c, {r})
         ELSE UNCHANGED <<clientRooms, members, rooms, broadcast, inbox, hands>>
    /\ UNCHANGED <<hub, cancelled, conn, register, unregister, subscribe,
                   clients, userRegistered, published, buffered, lastSent>>

(* The members that a broadcast drops instead of sending to: those whose
   buffer is full. *)
SlowSkipped(r) == {}
Dropped(r) == {c \in members[r] : buffered[c] = SendCap}

(* The members with room in their buffer; m is put in the buffers of `to'. *)
Ready(r) == {c \in members[r] : buffered[c] < SendCap}

Deliver(m, to) ==
    /\ buffered' = [c \in Clients |-> IF c \in to THEN buffered[c] + 1 ELSE buffered[c]]
    /\ lastSent' = [c \in Clients |->
          IF c \in to /\ ~ m.old
            THEN [lastSent[c] EXCEPT ![m.room] = m.n] ELSE lastSent[c]]

(* For a client that is cancelled and has room in its buffer two cases of the
   `select' are ready, and either is taken: it is sent the message or not. *)
handleBroadcast ==
    /\ hub = "loop" /\ broadcast # <<>>
    /\ broadcast' = Tail(broadcast)
    /\ LET m == Head(broadcast) IN
       IF m.room \notin rooms
         THEN UNCHANGED <<conn, unregister, buffered, lastSent>>
         ELSE \E to \in SUBSET Ready(m.room) :
                 /\ \A c \in Ready(m.room) : conn[c] = "open" => c \in to
                 /\ Deliver(m, to)
                 /\ Cancel(Dropped(m.room))
    /\ UNCHANGED <<hub, cancelled, register, subscribe, unsubscribe, maps,
                   published, inbox, hands>>

-----------------------------------------------------------------------------
(* Redis publishes a message: only a room that exists receives it.  Messages
   of a user's room take the same way as those of the topics. *)
Publish(r) ==
    /\ published[r] < MaxMsgs
    /\ published' = [published EXCEPT ![r] = @ + 1]
    /\ inbox' = IF r \in rooms
                  THEN [inbox EXCEPT ![r] = Append(@, published[r] + 1)]
                  ELSE inbox
    /\ UNCHANGED <<hub, cancelled, conn, requests, maps, broadcast, hands,
                   buffered, lastSent>>

(* The goroutine of createRoom takes a message of its subscription ... *)
Take(r) ==
    /\ r \in rooms /\ inbox[r] # <<>> /\ hub # "stopped"
    /\ ~ \E m \in hands : m.room = r /\ ~ m.old
    /\ hands' = hands \cup {[room |-> r, n |-> Head(inbox[r]), old |-> FALSE]}
    /\ inbox' = [inbox EXCEPT ![r] = Tail(@)]
    /\ UNCHANGED <<hub, cancelled, conn, requests, maps, broadcast, published,
                   buffered, lastSent>>

(* ... and calls Broadcast, which waits for room in the channel. *)
Broadcast(m) ==
    /\ m \in hands
    /\ Len(broadcast) < BroadcastCap
    /\ broadcast' = Append(broadcast, m)
    /\ hands' = hands \ {m}
    /\ UNCHANGED <<hub, cancelled, conn, requests, maps, published, inbox,
                   buffered, lastSent>>

-----------------------------------------------------------------------------
(* Shutdown. *)

(* Hub.Close: the contexts of the clients derive from h.ctx. *)
Close ==
    /\ ~ cancelled
    /\ cancelled' = TRUE
    /\ Cancel(Clients)
    /\ UNCHANGED <<hub, register, subscribe, unsubscribe, maps, messages>>

(* h.start sees that h.ctx is done: cleanupOnShutdown, then stop. *)
Shutdown ==
    /\ hub = "loop" /\ cancelled
    /\ hub' = "waiting"
    /\ clients' = {}
    /\ clientRooms' = [c \in Clients |-> {}]
    /\ UNCHANGED <<cancelled, conn, requests, rooms, members, userRegistered, messages>>

(* A Broadcast call gives up, since it also waits for h.ctx. *)
BroadcastWaits(m) == FALSE
BroadcastGivesUp(m) == cancelled

Abandon(m) ==
    /\ m \in hands /\ BroadcastGivesUp(m)
    /\ hands' = hands \ {m}
    /\ UNCHANGED <<hub, cancelled, conn, requests, maps, broadcast, published,
                   inbox, buffered, lastSent>>

(* h.wg.Wait returns: no forwarding goroutine holds a message (the others see
   that their context is done). *)
Stop ==
    /\ hub = "waiting" /\ hands = {}
    /\ hub' = "stopped"
    /\ UNCHANGED <<cancelled, conn, requests, maps, messages>>

Handle ==
    \/ \E c \in Clients : handleRegister(c) \/ handleUnregister(c)
    \/ \E c \in Clients, r \in Topics : handleSubscribe(c, r) \/ handleUnsubscribe(c, r)
    \/ handleBroadcast
    \/ Shutdown \/ Stop

Next ==
    \/ \E c \in Clients :
          \/ Connect(c) \/ Disconnect(c) \/ CloseConn(c) \/ Send(c) \/ Write(c)
          \/ \E r \in Topics : Join(c, r) \/ Leave(c, r)
    \/ Handle
    \/ \E r \in Topics : Publish(r) \/ Take(r)
    \/ \E m \in hands : Broadcast(m) \/ Abandon(m)
    \/ Close

(* Goroutines that can go on do.  `select' is fair among the channels that
   are ready, so a request on its way is handled in the end.  Nobody has to
   connect, publish, or close the hub. *)
Fairness ==
    /\ WF_vars(Shutdown) /\ WF_vars(Stop)
    /\ WF_vars(handleBroadcast)
    /\ \A c \in Clients :
          /\ WF_vars(handleRegister(c)) /\ WF_vars(handleUnregister(c))
          /\ \A r \in Topics :
                WF_vars(handleSubscribe(c, r)) /\ WF_vars(handleUnsubscribe(c, r))
    /\ \A r \in Topics, n \in 1 .. MaxMsgs, old \in BOOLEAN :
          LET m == [room |-> r, n |-> n, old |-> old] IN
          WF_vars(Broadcast(m) \/ Abandon(m))

Spec == Init /\ [][Next]_vars
FairSpec == Spec /\ Fairness

-----------------------------------------------------------------------------
(* The types; neither the broadcast channel nor the buffer of a client outgrows
   its capacity, and a request is about a client and a room that exist. *)
TypeOK ==
    /\ hub \in {"loop", "waiting", "stopped"}
    /\ cancelled \in BOOLEAN
    /\ conn \in [Clients -> {"new", "open", "done", "closed"}]
    /\ register \subseteq Clients /\ unregister \subseteq Clients
    /\ subscribe \subseteq Clients \X Topics
    /\ unsubscribe \subseteq Clients \X Topics
    /\ broadcast \in Seq(Msg) /\ Len(broadcast) <= BroadcastCap
    /\ clients \subseteq Clients
    /\ clientRooms \in [Clients -> SUBSET RoomIds]
    /\ rooms \subseteq RoomIds
    /\ members \in [RoomIds -> SUBSET Clients]
    /\ userRegistered \in [Users -> Nat]
    /\ published \in [RoomIds -> 0 .. MaxMsgs]
    /\ inbox \in [RoomIds -> Seq(1 .. MaxMsgs)]
    /\ hands \subseteq Msg
    /\ buffered \in [Clients -> 0 .. SendCap]
    /\ lastSent \in [Clients -> [RoomIds -> 0 .. MaxMsgs]]

(* The two maps of the hub agree after every handler: a client is in a room
   iff the room is among the client's rooms, a room exists (and holds a Redis
   subscription) iff somebody is in it, and only clients of the hub are in
   rooms, in whatever order requests are handled. *)
MembersMatch ==
    hub = "loop" =>
        /\ \A c \in Clients, r \in RoomIds : c \in members[r] <=> r \in clientRooms[c]
        /\ \A r \in RoomIds : r \in rooms <=> members[r] # {}
        /\ \A c \in Clients : clientRooms[c] # {} => c \in clients

(* A user is shown as logged in (userRegistered) by at most as many
   connections as the hub has of her, and by none once they are gone. *)
OnlineSound ==
    hub = "loop" =>
        \A u \in Users : userRegistered[u] <=
            Cardinality({c \in clients : UserOf[c] = u})

(* A client that stays in a room is sent the messages of the room's subscription
   in order and none twice, and until it is cancelled without a gap: a slow
   client is cancelled, it never misses a message before that.  A cancelled
   client, whose pump still writes, may miss one message and be sent the next.
   (What a subscription that was closed left on its way is marked old and not
   counted.) *)
NoGap ==
    [][\A c \in Clients, r \in RoomIds :
          (0 < lastSent[c][r] /\ lastSent[c][r] # lastSent'[c][r] /\ lastSent'[c][r] # 0)
              => /\ lastSent[c][r] < lastSent'[c][r]
                 /\ conn[c] = "open" => lastSent'[c][r] = lastSent[c][r] + 1]_vars

(* Hub.Close stops the hub: stop() does not wait for ever for a goroutine
   that waits for the hub. *)
ShutsDown == cancelled ~> hub = "stopped"

=============================================================================
