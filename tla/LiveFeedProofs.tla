--------------------------- MODULE LiveFeedProofs ---------------------------
(***************************************************************************)
(* A page and its connection, for any users, any number of lost            *)
(* connections, logins, logouts and reloads, any messages, capacities and  *)
(* changes of the balance.                                                 *)
(*                                                                         *)
(* The websocket client alone: it has one connection, speaks for the user  *)
(* of the page, and implements Link.  The feeds on top of it take no step  *)
(* that the client does not take.                                          *)
(*                                                                         *)
(* The balance: unless a push was lost, a balance that is not the current  *)
(* one is still to be pushed.  The chat: what the page shows, the frames   *)
(* under way and the messages not yet published are, in this order, one    *)
(* run of numbers that ends with the last message.                         *)
(***************************************************************************)
EXTENDS LiveFeed, SequenceTheorems, TLAPS

-----------------------------------------------------------------------------
(* The client. *)

(* Inductive: the shape of the state, the single connection, and for whom the
   socket speaks. *)
WsInv == WsTypeOK /\ OneConnection /\ SpeaksForUser

(* A page that was just loaded has its one connection. *)
LEMMA WsInvInit == WsInit => WsInv
<1> SUFFICES ASSUME WsInit
             PROVE  WsInv
  OBVIOUS
<1>1. events \in 0..MaxEvents
  BY WsAssumption DEF WsInit
<1>2. WsTypeOK
  BY <1>1 DEF WsInit, WsTypeOK
<1>3. OneConnection /\ SpeaksForUser
  BY DEF WsInit, OneConnection, SpeaksForUser
<1>. QED
  BY <1>2, <1>3 DEF WsInv

(* Each action keeps the client with one connection that speaks for the user. *)
LEMMA WsInvStep == WsInv /\ [WsNext]_wsVars => WsInv'
<1> SUFFICES ASSUME WsInv, [WsNext]_wsVars
             PROVE  WsInv'
  OBVIOUS
<1> USE WsAssumption DEF WsInv, WsTypeOK, OneConnection, SpeaksForUser, ConnectOnce, Event
<1>1. CASE GetWSClient
  BY <1>1 DEF GetWSClient
<1>2. CASE HandleOpen
  BY <1>2 DEF HandleOpen
<1>3. CASE HandleClose
  <2>1. events' \in 0..MaxEvents
    BY <1>3 DEF HandleClose
  <2>. QED
    BY <1>3, <2>1 DEF HandleClose
<1>4. CASE Reconnect
  BY <1>4 DEF Reconnect
<1>5. CASE LoginAnswered
  BY <1>5 DEF LoginAnswered
<1>6. CASE LoginHandled
  BY <1>6 DEF LoginHandled, Disonnect
<1>7. CASE LogoutAnswered
  BY <1>7 DEF LogoutAnswered
<1>8. CASE AnswerLost
  BY <1>8 DEF AnswerLost
<1>9. CASE Reload
  <2>1. events' \in 0..MaxEvents
    BY <1>9 DEF Reload
  <2>. QED
    BY <1>9, <2>1 DEF Reload
<1>10. CASE UNCHANGED wsVars
  BY <1>10 DEF wsVars
<1>. QED
  BY <1>1, <1>2, <1>3, <1>4, <1>5, <1>6, <1>7, <1>8, <1>9, <1>10 DEF WsNext

(* The invariant holds in every behaviour of the client. *)
LEMMA WsInvAlways == WsSpec => []WsInv
  BY WsInvInit, WsInvStep, PTL DEF WsSpec

(* socket.ts: a client that was created has a socket or a timer to get a new one,
   never both and never neither, although connectOnce does not look. *)
THEOREM SingleConnection == WsSpec => []OneConnection
<1>1. WsInv => OneConnection
  BY DEF WsInv
<1>. QED
  BY <1>1, WsInvAlways, PTL

(* Login.tsx, Register.tsx, ProfileCompletionModal.tsx: after a login was handled
   no socket of the visitor is in use. *)
THEOREM SocketOfUser == WsSpec => []SpeaksForUser
<1>1. WsInv => SpeaksForUser
  BY DEF WsInv
<1>. QED
  BY <1>1, WsInvAlways, PTL

(* The client implements Link: every step of it is a step of Link or changes
   nothing that Link sees. *)
THEOREM ImplementsLink == WsSpec => LinkSpec
<1>1. WsInit => L!Init
  BY DEF WsInit, L!Init
<1>2. WsInv /\ [WsNext]_wsVars => [L!Next]_(L!vars)
  <2> SUFFICES ASSUME WsInv, [WsNext]_wsVars
               PROVE  L!Up \/ L!Lose \/ L!Change \/ L!Settle \/ UNCHANGED L!vars
    BY DEF L!Next
  <2> USE WsAssumption DEF WsInv, WsTypeOK, OneConnection, ConnectOnce, L!Up, L!Lose, L!Change, L!Settle, L!vars
  <2>1. CASE GetWSClient
    <3>1. L!Up
      BY <2>1 DEF GetWSClient
    <3>. QED
      BY <3>1
  <2>2. CASE HandleOpen
    BY <2>2 DEF HandleOpen
  <2>3. CASE HandleClose
    <3>1. L!Lose
      BY <2>3 DEF HandleClose
    <3>. QED
      BY <3>1
  <2>4. CASE Reconnect
    <3>1. ws = "null"
      BY <2>4 DEF Reconnect
    <3>2. L!Up
      BY <2>4, <3>1 DEF Reconnect
    <3>. QED
      BY <3>2
  <2>5. CASE LoginAnswered
    <3>1. L!Change
      BY <2>5 DEF LoginAnswered
    <3>. QED
      BY <3>1
  <2>6. CASE LoginHandled
    <3>1. L!Settle
      BY <2>6 DEF LoginHandled, Disonnect
    <3>. QED
      BY <3>1
  <2>7. CASE LogoutAnswered
    <3>1. L!Change
      BY <2>7 DEF LogoutAnswered
    <3>. QED
      BY <3>1
  <2>8. CASE AnswerLost
    BY <2>8 DEF AnswerLost
  <2>9. CASE Reload
    <3>1. L!Settle
      BY <2>9 DEF Reload
    <3>. QED
      BY <3>1
  <2>10. CASE UNCHANGED wsVars
    BY <2>10 DEF wsVars
  <2>. QED
    BY <2>1, <2>2, <2>3, <2>4, <2>5, <2>6, <2>7, <2>8, <2>9, <2>10 DEF WsNext
<1>. QED
  BY <1>1, <1>2, WsInvAlways, PTL DEF WsSpec, LinkSpec, L!Spec

-----------------------------------------------------------------------------
(* The feeds. *)

Frame == [room : Rooms \cup {"balance"}, ids : Seq(Nat)]

(* A frame carries what the server has had. *)
Sound(f) == IF f.room = "balance" THEN \E v \in 0 .. balance : f.ids = <<v>>
            ELSE f.ids \in Seq(1 .. last[f.room])

(* Inductive: the types. *)
RoomTypes ==
    /\ last \in [Rooms -> 0 .. MaxMsgs] /\ unsent \in [Rooms -> SUBSET Nat]
    /\ list \in [Rooms -> Seq(Nat)] /\ shown \in [Rooms -> Seq(Nat)]
    /\ sub \in [Rooms -> {"no", "asked", "sent", "joined", "failed"}] /\ sure \in [Rooms -> BOOLEAN]
    /\ listed \in [Rooms -> Nat]
    /\ \A r \in Rooms :
          /\ listed[r] <= last[r] /\ unsent[r] \subseteq 1 .. last[r]
          /\ list[r] \in Seq(1 .. last[r]) /\ Len(list[r]) <= Cap
          /\ shown[r] \in Seq(1 .. last[r]) /\ Len(shown[r]) <= Cap
BalanceTypes ==
    /\ balance \in 0 .. MaxBalance /\ pushes \subseteq 0 .. balance
    /\ changed \in Nat /\ resolved \in Nat
    /\ cached \in {None} \cup 0 .. balance
    /\ fetch \in {None, Asked} \cup 0 .. balance
    /\ late \in BOOLEAN /\ reg \in {"no", "asked", "in", "out"}
FrameTypes == inbox \in Seq(Frame) /\ \A i \in DOMAIN inbox : Sound(inbox[i])
TypeInv == RoomTypes /\ BalanceTypes /\ FrameTypes

(* Inductive with the types: a balance that is behind is still to be pushed, also while
   a load is under way. *)
PushComing == cached # None /\ ~late /\ ~Coming(inbox) => cached = balance

(* s is the Cap numbers down from n; ids is the Cap numbers up to n. *)
Full(s, n) == Len(s) = Cap /\ \A k \in 1 .. Cap : s[k] = n - k + 1
IsList(ids, n) == Len(ids) = Cap /\ \A k \in 1 .. Cap : ids[k] = n - Cap + k

(* The store of the chat is full up to e[0], or the list is under way as frame j and fills
   it up to e[j]; the frames of the chat after it each carry the next message, so that the
   store is full up to e[i] when frame i is handled, and up to p in the end. *)
Chat(f) == f.room = "chat"
Way(box, store, p, j, e) ==
    /\ IF j = 0 THEN Full(store, e[0]) ELSE Chat(box[j]) /\ IsList(box[j].ids, e[j])
    /\ \A i \in j + 1 .. Len(box) :
          IF Chat(box[i]) THEN e[i] = e[i - 1] + 1 /\ box[i].ids = <<e[i]>> ELSE e[i] = e[i - 1]
    /\ \A i \in j .. Len(box) : (\A k \in i + 1 .. Len(box) : ~Chat(box[k])) => e[i] = p
FullUpTo(box, store, p) == \E j \in 0 .. Len(box), e \in [0 .. Len(box) -> Nat] : Way(box, store, p, j, e)

(* Inductive with the types: the list of the server holds the last messages, and while
   nothing went wrong all messages up to p, those of the list that was sent and those
   published after it, are shown or under way. *)
Newest == \A k \in 1 .. Len(list["chat"]) : list["chat"][k] = last["chat"] - k + 1
InOrder ==
    \E p \in listed["chat"] .. last["chat"] :
        NotInList("chat") = p + 1 .. last["chat"] /\ FullUpTo(inbox, shown["chat"], p)
ChatInv == Newest /\ (sure["chat"] => Len(list["chat"]) = Cap /\ InOrder)

-----------------------------------------------------------------------------
(* The connection of the feeds is the client. *)

(* A step of the feeds is a step of the client or leaves it alone. *)
LEMMA ClientStep == [Next]_vars => [WsNext]_wsVars
<1> SUFFICES ASSUME [Next]_vars
             PROVE  WsNext \/ UNCHANGED wsVars
  OBVIOUS
<1>1. CASE Opened \/ Register \/ Closed \/ Left \/ Other
  BY <1>1 DEF Opened, Register, Closed, Left, Other, WsNext
<1>2. CASE \E r \in Rooms : Post(r) \/ Publish(r) \/ SendList(r) \/ JoinFails(r) \/ Join(r)
  BY <1>2 DEF Post, Publish, SendList, JoinFails, Join
<1>3. CASE \/ ChangeBalance \/ ReadBalance \/ ReadResolved \/ PushFails \/ PushBalance
           \/ LoadBalance \/ GetBalance \/ BalanceLoaded \/ BalanceFails \/ HandleMessage
  BY <1>3 DEF ChangeBalance, ReadBalance, ReadResolved, PushFails, PushBalance, LoadBalance,
     GetBalance, BalanceLoaded, BalanceFails, HandleMessage
<1>4. CASE UNCHANGED vars
  BY <1>4 DEF vars
<1>. QED
  BY <1>1, <1>2, <1>3, <1>4 DEF Next

(* WsProvider.tsx, socket.ts: the page with its feeds is a page with its client, so that
   what holds of the client alone holds of the page. *)
THEOREM FeedsKeepClient == Spec => WsSpec
<1>1. Init => WsInit
  BY DEF Init
<1>. QED
  BY <1>1, ClientStep, PTL DEF Spec, WsSpec

-----------------------------------------------------------------------------
(* Sequences. *)

(* The stores and the lists are cut to the capacity. *)
LEMMA TrimProps ==
    ASSUME NEW S, NEW s \in Seq(S)
    PROVE  /\ Trim(s) \in Seq(S) /\ Len(Trim(s)) <= Cap
           /\ Len(Trim(s)) = IF Len(s) < Cap THEN Len(s) ELSE Cap
           /\ \A k \in 1 .. Len(Trim(s)) : Trim(s)[k] = s[k]
<1> DEFINE n == IF Len(s) < Cap THEN Len(s) ELSE Cap
<1>1. Len(s) \in Nat /\ Cap \in Nat /\ n \in Nat /\ n <= Len(s) /\ n <= Cap
  BY LenProperties, FeedAssumption
<1>2. Trim(s) = SubSeq(s, 1, n)
  BY DEF Trim
<1> HIDE DEF n
<1>3. \A i \in 1 .. n : s[i] \in S
  BY <1>1, ElementOfSeq
<1>4. /\ SubSeq(s, 1, n) \in Seq(S)
      /\ Len(SubSeq(s, 1, n)) = IF 1 <= n THEN n - 1 + 1 ELSE 0
      /\ \A i \in 1 .. n - 1 + 1 : SubSeq(s, 1, n)[i] = s[1 + i - 1]
  BY <1>1, <1>3, SubSeqProperties
<1>5. Len(SubSeq(s, 1, n)) = n /\ \A i \in 1 .. n : SubSeq(s, 1, n)[i] = s[i]
  BY <1>1, <1>4
<1>. QED
  BY <1>1, <1>2, <1>4, <1>5 DEF n

(* The chat is sent from the oldest. *)
LEMMA ReverseProps ==
    ASSUME NEW S, NEW s \in Seq(S)
    PROVE  /\ Reverse(s) \in Seq(S) /\ Len(Reverse(s)) = Len(s)
           /\ \A k \in 1 .. Len(s) : Reverse(s)[k] = s[Len(s) - k + 1]
<1>1. Len(s) \in Nat /\ \A i \in 1 .. Len(s) : s[i] \in S
  BY LenProperties, ElementOfSeq
<1>2. Reverse(s) = [i \in 1 .. Len(s) |-> s[(Len(s) - i) + 1]]
  BY DEF Reverse
<1>3. \A i \in 1 .. Len(s) : (Len(s) - i) + 1 \in 1 .. Len(s)
  BY <1>1
<1>4. Reverse(s) \in [1 .. Len(s) -> S]
  BY <1>1, <1>2, <1>3
<1>5. Reverse(s) \in Seq(S)
  BY <1>1, <1>4, SeqDef
<1>6. Len(Reverse(s)) \in Nat /\ DOMAIN Reverse(s) = 1 .. Len(Reverse(s))
  BY <1>5, LenProperties
<1>7. 1 .. Len(Reverse(s)) = 1 .. Len(s)
  BY <1>4, <1>6
<1>8. Len(Reverse(s)) = Len(s)
  BY <1>1, <1>6, <1>7
<1>9. \A k \in 1 .. Len(s) : Reverse(s)[k] = s[Len(s) - k + 1]
  BY <1>2
<1>. QED
  BY <1>5, <1>8, <1>9

(* What is put in front of a list or a store. *)
LEMMA InFrontProps ==
    ASSUME NEW S, NEW new \in Seq(S), NEW old \in Seq(S)
    PROVE  /\ Trim(new \o old) \in Seq(S) /\ Len(Trim(new \o old)) <= Cap
           /\ Len(Trim(new \o old)) = IF Len(new) + Len(old) < Cap THEN Len(new) + Len(old) ELSE Cap
           /\ \A k \in 1 .. Len(Trim(new \o old)) :
                 Trim(new \o old)[k] = IF k <= Len(new) THEN new[k] ELSE old[k - Len(new)]
<1>1. /\ new \o old \in Seq(S) /\ Len(new \o old) = Len(new) + Len(old)
      /\ \A i \in 1 .. Len(new) + Len(old) :
            (new \o old)[i] = IF i <= Len(new) THEN new[i] ELSE old[i - Len(new)]
  BY ConcatProperties
<1>2. Len(new) \in Nat /\ Len(old) \in Nat /\ Cap \in Nat
  BY LenProperties, FeedAssumption
<1> DEFINE s == new \o old
<1>3. /\ Trim(s) \in Seq(S) /\ Len(Trim(s)) <= Cap
      /\ Len(Trim(s)) = IF Len(s) < Cap THEN Len(s) ELSE Cap
      /\ \A k \in 1 .. Len(Trim(s)) : Trim(s)[k] = s[k]
  BY <1>1, TrimProps
<1>4. 1 .. Len(Trim(s)) \subseteq 1 .. Len(new) + Len(old)
  BY <1>1, <1>2, <1>3
<1>. QED
  BY <1>1, <1>3, <1>4

(* One message is put in front of a list. *)
LEMMA OnTop ==
    ASSUME NEW n \in Nat, NEW s \in Seq(Nat)
    PROVE  /\ Len(Trim(<<n>> \o s)) = IF 1 + Len(s) < Cap THEN 1 + Len(s) ELSE Cap
           /\ \A k \in 1 .. Len(Trim(<<n>> \o s)) :
                 Trim(<<n>> \o s)[k] = IF k <= 1 THEN <<n>>[k] ELSE s[k - 1]
<1> DEFINE one == <<n>>
<1>1. one \in Seq(Nat) /\ Len(one) = 1
  OBVIOUS
<1> HIDE DEF one
<1>2. /\ Len(Trim(one \o s)) = IF Len(one) + Len(s) < Cap THEN Len(one) + Len(s) ELSE Cap
      /\ \A k \in 1 .. Len(Trim(one \o s)) :
            Trim(one \o s)[k] = IF k <= Len(one) THEN one[k] ELSE s[k - Len(one)]
  BY <1>1, InFrontProps, ZenonT(30)
<1>3. /\ Len(Trim(one \o s)) = IF 1 + Len(s) < Cap THEN 1 + Len(s) ELSE Cap
      /\ \A k \in 1 .. Len(Trim(one \o s)) :
            Trim(one \o s)[k] = IF k <= 1 THEN one[k] ELSE s[k - 1]
  BY <1>1, <1>2
<1>. QED
  BY <1>3 DEF one

-----------------------------------------------------------------------------
(* The types. *)

(* No step takes a message or a balance away, so that frames stay sound. *)
LEMMA ServerGrows ==
    ASSUME TypeInv, [Next]_vars
    PROVE  /\ balance' \in Nat /\ balance \in Nat /\ balance <= balance'
           /\ \A r \in Rooms : last'[r] \in Nat /\ last[r] \in Nat /\ last[r] <= last'[r]
           /\ \A f \in Frame : Sound(f) => Sound(f)'
<1>0. balance \in Nat /\ last \in [Rooms -> 0 .. MaxMsgs] /\ \A r \in Rooms : last[r] \in Nat
  BY FeedAssumption DEF TypeInv, BalanceTypes, RoomTypes
<1>1. balance' = balance \/ balance' = balance + 1
  BY DEF Next, vars, server, feeds, money, Opened, Register, Closed, Left, Other, Post, Publish,
     SendList, JoinFails, Join, ChangeBalance, ReadBalance, ReadResolved, PushFails, PushBalance,
     LoadBalance, GetBalance, BalanceLoaded, BalanceFails, HandleMessage
<1>2. last' = last \/ \E r \in Rooms : last' = [last EXCEPT ![r] = @ + 1]
  BY DEF Next, vars, server, feeds, money, Opened, Register, Closed, Left, Other, Post, Publish,
     SendList, JoinFails, Join, ChangeBalance, ReadBalance, ReadResolved, PushFails, PushBalance,
     LoadBalance, GetBalance, BalanceLoaded, BalanceFails, HandleMessage
<1>3. \A r \in Rooms : last'[r] \in Nat /\ last[r] <= last'[r]
  BY <1>0, <1>2
<1>4. balance' \in Nat /\ balance <= balance'
  BY <1>0, <1>1
<1>5. ASSUME NEW f \in Frame, Sound(f)
      PROVE  Sound(f)'
  <2>1. CASE f.room = "balance"
    <3>1. PICK v \in 0 .. balance : f.ids = <<v>>
      BY <1>5, <2>1 DEF Sound
    <3>2. v \in 0 .. balance'
      BY <1>0, <1>4
    <3>. QED
      BY <2>1, <3>1, <3>2 DEF Sound
  <2>2. CASE f.room # "balance"
    <3>1. f.ids \in Seq(1 .. last[f.room]) /\ f.room \in Rooms
      BY <1>5, <2>2 DEF Sound, Frame
    <3>2. 1 .. last[f.room] \subseteq 1 .. last'[f.room]
      BY <1>0, <1>3, <3>1
    <3>3. f.ids \in Seq(1 .. last'[f.room])
      BY <3>1, <3>2, SeqMonotonic
    <3>. QED
      BY <2>2, <3>3 DEF Sound
  <2>. QED
    BY <2>1, <2>2
<1>. QED
  BY <1>0, <1>3, <1>4, <1>5

(* What becomes of the frames: all stay, all are cut, the first is handled, or a sound
   one is added. *)
LEMMA InboxStep ==
    ASSUME TypeInv, [Next]_vars
    PROVE  \/ inbox' = inbox \/ inbox' = <<>>
           \/ inbox # <<>> /\ inbox' = Tail(inbox)
           \/ \E f \in Frame : inbox' = Append(inbox, f) /\ Sound(f)
<1>0. /\ list \in [Rooms -> Seq(Nat)] /\ unsent \in [Rooms -> SUBSET Nat]
      /\ \A r \in Rooms : unsent[r] \subseteq 1 .. last[r] /\ list[r] \in Seq(1 .. last[r])
      /\ pushes \subseteq 0 .. balance
      /\ "balance" \notin Rooms
  BY FeedAssumption DEF TypeInv, RoomTypes, BalanceTypes
<1>1. CASE \E r \in Rooms : Publish(r)
  <2>0. PICK r \in Rooms : Publish(r)
    BY <1>1
  <2>1. PICK m \in unsent[r], ok \in BOOLEAN :
           inbox' = IF ok /\ sub[r] = "joined" THEN Append(inbox, [room |-> r, ids |-> <<m>>]) ELSE inbox
    BY <2>0 DEF Publish
  <2>2. m \in 1 .. last[r] /\ m \in Nat
    BY <1>0
  <2>3. <<m>> \in Seq(Nat) /\ <<m>> \in Seq(1 .. last[r])
    BY <2>2
  <2> DEFINE f == [room |-> r, ids |-> <<m>>]
  <2>4. f \in Frame /\ Sound(f)
    BY <1>0, <2>3 DEF Frame, Sound
  <2> HIDE DEF f
  <2>. QED
    BY <2>1, <2>4 DEF f
<1>2. CASE \E r \in Rooms : SendList(r)
  <2>1. PICK r \in Rooms : inbox' = Append(inbox, [room |-> r, ids |-> Snapshot(r)])
    BY <1>2 DEF SendList
  <2>2. Snapshot(r) \in Seq(Nat) /\ Snapshot(r) \in Seq(1 .. last[r])
    BY <1>0, ReverseProps DEF Snapshot
  <2> DEFINE f == [room |-> r, ids |-> Snapshot(r)]
  <2>3. f \in Frame /\ Sound(f)
    BY <1>0, <2>2 DEF Frame, Sound
  <2> HIDE DEF f
  <2>. QED
    BY <2>1, <2>3 DEF f
<1>3. CASE PushBalance
  <2>1. PICK v \in pushes :
           inbox' = IF Listening THEN Append(inbox, [room |-> "balance", ids |-> <<v>>]) ELSE inbox
    BY <1>3 DEF PushBalance
  <2>2. v \in 0 .. balance /\ <<v>> \in Seq(Nat)
    BY <1>0
  <2> DEFINE f == [room |-> "balance", ids |-> <<v>>]
  <2>3. f \in Frame /\ Sound(f)
    BY <2>2 DEF Frame, Sound
  <2> HIDE DEF f
  <2>. QED
    BY <2>1, <2>3 DEF f
<1>4. CASE \/ UNCHANGED vars \/ Opened \/ Register \/ Closed \/ Left \/ Other
           \/ \E r \in Rooms : Post(r) \/ JoinFails(r) \/ Join(r)
           \/ ChangeBalance \/ ReadBalance \/ ReadResolved \/ PushFails
           \/ LoadBalance \/ GetBalance \/ BalanceLoaded \/ BalanceFails \/ HandleMessage
  BY <1>4 DEF vars, Opened, Register, Closed, Left, Other, Cut, Post, JoinFails, Join, ChangeBalance,
     ReadBalance, ReadResolved, PushFails, LoadBalance, GetBalance, BalanceLoaded, BalanceFails,
     HandleMessage
<1>. QED
  BY <1>1, <1>2, <1>3, <1>4 DEF Next

(* Frames stay frames of what the server has had. *)
LEMMA FrameStep ==
    ASSUME TypeInv, [Next]_vars
    PROVE  FrameTypes'
<1>0. inbox \in Seq(Frame) /\ \A i \in DOMAIN inbox : Sound(inbox[i])
  BY DEF TypeInv, FrameTypes
<1>1. \A f \in Frame : Sound(f) => Sound(f)'
  BY ServerGrows
<1>2. DOMAIN inbox = 1 .. Len(inbox) /\ Len(inbox) \in Nat /\ \A i \in DOMAIN inbox : inbox[i] \in Frame
  BY <1>0, LenProperties, ElementOfSeq
<1>3. ASSUME inbox' \in Seq(Frame), \A i \in DOMAIN inbox' : Sound(inbox'[i])
      PROVE  FrameTypes'
  <2>1. \A i \in DOMAIN inbox' : inbox'[i] \in Frame
    BY <1>3, LenProperties, ElementOfSeq
  <2>2. \A i \in DOMAIN inbox' : Sound(inbox[i])'
    BY <1>1, <1>3, <2>1 DEF Sound
  <2>. QED
    BY <1>3, <2>2 DEF FrameTypes, Frame
<1>4. CASE inbox' = inbox
  BY <1>0, <1>3, <1>4
<1>5. CASE inbox' = <<>>
  <2>1. inbox' \in Seq(Frame) /\ DOMAIN inbox' = {}
    BY <1>5
  <2>. QED
    BY <1>3, <2>1
<1>6. CASE inbox # <<>> /\ inbox' = Tail(inbox)
  <2>1. /\ inbox' \in Seq(Frame) /\ Len(inbox') = Len(inbox) - 1
        /\ \A i \in 1 .. Len(inbox') : inbox'[i] = inbox[i + 1]
    BY <1>0, <1>6, HeadTailProperties
  <2>2. DOMAIN inbox' = 1 .. Len(inbox')
    BY <2>1, LenProperties
  <2>3. \A i \in DOMAIN inbox' : Sound(inbox'[i])
    BY <1>0, <1>2, <2>1, <2>2
  <2>. QED
    BY <1>3, <2>1, <2>3
<1>7. CASE \E f \in Frame : inbox' = Append(inbox, f) /\ Sound(f)
  <2>1. PICK f \in Frame : inbox' = Append(inbox, f) /\ Sound(f)
    BY <1>7
  <2>2. /\ inbox' \in Seq(Frame) /\ Len(inbox') = Len(inbox) + 1
        /\ \A i \in 1 .. Len(inbox) : inbox'[i] = inbox[i]
        /\ inbox'[Len(inbox) + 1] = f
    BY <1>0, <2>1, AppendProperties
  <2>3. DOMAIN inbox' = 1 .. Len(inbox')
    BY <2>2, LenProperties
  <2>4. ASSUME NEW i \in DOMAIN inbox'
        PROVE  Sound(inbox'[i])
    <3>1. i \in 1 .. Len(inbox) \/ i = Len(inbox) + 1
      BY <1>2, <2>2, <2>3
    <3>. QED
      BY <1>0, <1>2, <2>1, <2>2, <3>1
  <2>. QED
    BY <1>3, <2>2, <2>4
<1>. QED
  BY <1>4, <1>5, <1>6, <1>7, InboxStep

(* The frame that is handled. *)
LEMMA HeadFrame ==
    ASSUME FrameTypes, inbox # <<>>
    PROVE  /\ Head(inbox) \in Frame /\ Sound(Head(inbox)) /\ Head(inbox) = inbox[1]
           /\ Head(inbox).room = "balance" =>
                 Head(inbox).ids[1] \in 0 .. balance /\ Head(inbox).ids = <<Head(inbox).ids[1]>>
<1>1. inbox \in Seq(Frame) /\ DOMAIN inbox = 1 .. Len(inbox) /\ Len(inbox) \in Nat \ {0}
  BY LenProperties, EmptySeq DEF FrameTypes
<1>2. Head(inbox) = inbox[1]
  BY <1>1
<1>3. Head(inbox) \in Frame /\ Sound(Head(inbox))
  BY <1>1, <1>2, ElementOfSeq DEF FrameTypes
<1>4. ASSUME Head(inbox).room = "balance"
      PROVE  Head(inbox).ids[1] \in 0 .. balance /\ Head(inbox).ids = <<Head(inbox).ids[1]>>
  <2>1. PICK v \in 0 .. balance : Head(inbox).ids = <<v>>
    BY <1>3, <1>4 DEF Sound
  <2>. QED
    BY <2>1
<1>. QED
  BY <1>2, <1>3, <1>4

(* Lists and stores stay within their capacity and hold messages of their room. *)
LEMMA RoomStep ==
    ASSUME TypeInv, [Next]_vars
    PROVE  RoomTypes'
<1> DEFINE SubPhases == {"no", "asked", "sent", "joined", "failed"}
           Fits(s, n) == s \in Seq(1 .. n) /\ Len(s) <= Cap
<1>0. /\ last \in [Rooms -> 0 .. MaxMsgs] /\ unsent \in [Rooms -> SUBSET Nat]
      /\ list \in [Rooms -> Seq(Nat)] /\ shown \in [Rooms -> Seq(Nat)]
      /\ sub \in [Rooms -> SubPhases] /\ sure \in [Rooms -> BOOLEAN] /\ listed \in [Rooms -> Nat]
  BY DEF TypeInv, RoomTypes
<1>1. \A r \in Rooms : /\ last[r] \in Nat /\ unsent[r] \subseteq 1 .. last[r] /\ listed[r] <= last[r]
                       /\ Fits(list[r], last[r]) /\ Fits(shown[r], last[r])
  BY <1>0, FeedAssumption DEF TypeInv, RoomTypes
<1>2. Fits(<<>>, 0) /\ \A n \in Nat : Fits(<<>>, n)
  BY FeedAssumption
<1>3. ASSUME NEW n \in Nat, NEW s, Fits(s, n)
      PROVE  s \in Seq(Nat) /\ Fits(s, n + 1)
  <2>1. 1 .. n \subseteq 1 .. n + 1 /\ 1 .. n \subseteq Nat
    OBVIOUS
  <2>. QED
    BY <1>3, <2>1, SeqMonotonic
<1> HIDE DEF Fits, SubPhases
<1>4. ASSUME last' = last, unsent' \in [Rooms -> SUBSET Nat], list' = list, shown' \in [Rooms -> Seq(Nat)],
             sub' \in [Rooms -> SubPhases], sure' \in [Rooms -> BOOLEAN], listed' \in [Rooms -> Nat],
             \A r \in Rooms : listed'[r] <= last[r] /\ unsent'[r] \subseteq 1 .. last[r] /\ Fits(shown'[r], last[r])
      PROVE  RoomTypes'
  BY <1>0, <1>1, <1>4 DEF RoomTypes, Fits, SubPhases
<1>5. [r \in Rooms |-> "no"] \in [Rooms -> SubPhases] /\ Subscribed \in [Rooms -> SubPhases]
      /\ [r \in Rooms |-> FALSE] \in [Rooms -> BOOLEAN]
  BY DEF SubPhases, Subscribed
<1>6. ASSUME NEW r \in Rooms, Post(r)
      PROVE  RoomTypes'
  <2> DEFINE n == last[r] + 1
  <2>1. /\ last' = [last EXCEPT ![r] = n] /\ last[r] < MaxMsgs
        /\ list' = [list EXCEPT ![r] = Trim(<<n>> \o list[r])]
        /\ unsent' = [unsent EXCEPT ![r] = unsent[r] \cup {n}]
        /\ UNCHANGED <<shown, sub, sure, listed>>
    BY <1>6 DEF Post, page, link
  <2>2. n \in 0 .. MaxMsgs /\ n \in Nat /\ <<n>> \in Seq(1 .. n)
    BY <1>1, <2>1, FeedAssumption
  <2>3. list[r] \in Seq(1 .. n) /\ Fits(shown[r], n)
    BY <1>1, <1>3 DEF Fits
  <2> HIDE DEF n
  <2>4. Fits(Trim(<<n>> \o list[r]), n)
    BY <2>2, <2>3, InFrontProps DEF Fits
  <2>5. Trim(<<n>> \o list[r]) \in Seq(Nat)
    BY <1>3, <2>2, <2>4
  <2>6. last' \in [Rooms -> 0 .. MaxMsgs] /\ unsent' \in [Rooms -> SUBSET Nat] /\ list' \in [Rooms -> Seq(Nat)]
    BY <1>0, <2>1, <2>2, <2>5
  <2>7. ASSUME NEW x \in Rooms
        PROVE  /\ listed'[x] <= last'[x] /\ unsent'[x] \subseteq 1 .. last'[x]
               /\ Fits(list'[x], last'[x]) /\ Fits(shown'[x], last'[x])
    <3>1. CASE x = r
      <4>1. unsent[r] \cup {n} \subseteq 1 .. n
        BY <1>1, <2>2 DEF n
      <4>2. last'[x] = n /\ unsent'[x] = unsent[r] \cup {n} /\ list'[x] = Trim(<<n>> \o list[r])
        BY <1>0, <2>1, <3>1
      <4>3. listed[x] <= last'[x]
        BY <1>0, <1>1, <3>1, <4>2 DEF n
      <4>. QED
        BY <2>1, <2>3, <2>4, <3>1, <4>1, <4>2, <4>3
    <3>2. CASE x # r
      <4>1. last'[x] = last[x] /\ unsent'[x] = unsent[x] /\ list'[x] = list[x]
        BY <1>0, <2>1, <3>2
      <4>. QED
        BY <1>1, <2>1, <4>1
    <3>. QED
      BY <3>1, <3>2
  <2>. QED
    BY <1>0, <2>1, <2>6, <2>7 DEF RoomTypes, Fits, SubPhases
<1>7. ASSUME NEW r \in Rooms, Publish(r)
      PROVE  RoomTypes'
  <2>1. PICK m \in unsent[r], ok \in BOOLEAN :
           /\ unsent' = [unsent EXCEPT ![r] = @ \ {m}]
           /\ sure' = [sure EXCEPT ![r] = @ /\ AsNeeded(r, m, ok /\ sub[r] = "joined")]
           /\ UNCHANGED <<list, last, sub, shown, listed>>
    BY <1>7 DEF Publish, page, link
  <2>2. unsent' \in [Rooms -> SUBSET Nat]
    BY <1>0, <2>1
  <2>3. \A x \in Rooms : unsent'[x] \subseteq unsent[x]
    BY <1>0, <2>1
  <2>4. sure' \in [Rooms -> BOOLEAN]
    BY <1>0, <2>1
  <2>. QED
    BY <1>0, <1>1, <1>4, <2>1, <2>2, <2>3, <2>4
<1>8. ASSUME NEW r \in Rooms, SendList(r) \/ JoinFails(r) \/ Join(r)
      PROVE  RoomTypes'
  <2>1. UNCHANGED <<last, unsent, list, shown>>
    BY <1>8 DEF SendList, JoinFails, Join, server, feeds, page
  <2>2. \/ sub' = [sub EXCEPT ![r] = "sent"] \/ sub' = [sub EXCEPT ![r] = "failed"]
        \/ sub' = [sub EXCEPT ![r] = "joined"]
    BY <1>8 DEF SendList, JoinFails, Join
  <2>3. sub' \in [Rooms -> SubPhases]
    BY <1>0, <2>2 DEF SubPhases
  <2>4. sure' \in [Rooms -> BOOLEAN] /\ listed' \in [Rooms -> Nat] /\ \A x \in Rooms : listed'[x] <= last[x]
    <3>1. CASE SendList(r)
      BY <1>0, <1>1, <3>1 DEF SendList
    <3>2. CASE JoinFails(r) \/ Join(r)
      BY <1>0, <1>1, <3>2 DEF JoinFails, Join
    <3>. QED
      BY <1>8, <3>1, <3>2
  <2>. QED
    BY <1>0, <1>1, <1>4, <2>1, <2>3, <2>4
<1>9. CASE HandleMessage
  <2> DEFINE msg == Head(inbox)
  <2>1. UNCHANGED <<last, unsent, list, sub, sure, listed>> /\ inbox # <<>>
    BY <1>9 DEF HandleMessage, server, feeds, link
  <2>2. msg \in Frame /\ Sound(msg)
    BY <2>1, HeadFrame DEF TypeInv
  <2>3. CASE msg.room = "balance"
    <3>1. shown' = shown
      BY <1>9, <2>3 DEF HandleMessage
    <3>. QED
      BY <1>0, <1>1, <1>4, <2>1, <3>1
  <2>4. CASE msg.room # "balance"
    <3>1. /\ shown' = [shown EXCEPT ![msg.room] = Store(msg.room, msg.ids)]
          /\ msg.room \in Rooms /\ msg.ids \in Seq(1 .. last[msg.room])
      BY <1>9, <2>2, <2>4 DEF HandleMessage, Frame, Sound
    <3>2. Reverse(msg.ids) \in Seq(1 .. last[msg.room]) /\ shown[msg.room] \in Seq(1 .. last[msg.room])
      BY <1>1, <3>1, ReverseProps DEF Fits
    <3>3. Fits(Store(msg.room, msg.ids), last[msg.room])
      BY <3>2, InFrontProps DEF Store, Fits
    <3>4. Store(msg.room, msg.ids) \in Seq(Nat)
      BY <1>1, <1>3, <3>1, <3>3
    <3> HIDE DEF msg
    <3>5. shown' \in [Rooms -> Seq(Nat)] /\ \A x \in Rooms : Fits(shown'[x], last[x])
      BY <1>0, <1>1, <3>1, <3>3, <3>4
    <3>. QED
      BY <1>0, <1>1, <1>4, <2>1, <3>5
  <2>. QED
    BY <2>3, <2>4
<1>10. CASE Opened
  <2>1. UNCHANGED <<last, unsent, list, shown, sure, listed>> /\ sub' = Subscribed
    BY <1>10 DEF Opened, server, feeds, page
  <2>. QED
    BY <1>0, <1>1, <1>4, <1>5, <2>1
<1>11. CASE Closed \/ Left
  <2>1. /\ UNCHANGED <<last, unsent, list, listed>>
        /\ sub' = [r \in Rooms |-> "no"] /\ sure' = [r \in Rooms |-> FALSE]
        /\ shown' = shown \/ shown' = [r \in Rooms |-> <<>>]
    BY <1>11 DEF Closed, Left, Cut, server, feeds, page
  <2>2. shown' \in [Rooms -> Seq(Nat)] /\ \A r \in Rooms : Fits(shown'[r], last[r])
    <3>1. CASE shown' = shown
      BY <1>0, <1>1, <3>1
    <3>2. CASE shown' = [r \in Rooms |-> <<>>]
      BY <1>1, <1>2, <3>2
    <3>. QED
      BY <2>1, <3>1, <3>2
  <2>. QED
    BY <1>0, <1>1, <1>4, <1>5, <2>1, <2>2
<1>12. CASE \/ UNCHANGED vars \/ Other \/ Register \/ ChangeBalance \/ ReadBalance \/ ReadResolved
            \/ PushFails \/ PushBalance
            \/ LoadBalance \/ GetBalance \/ BalanceLoaded \/ BalanceFails
  <2>1. UNCHANGED <<last, unsent, list, shown, sub, sure, listed>>
    BY <1>12 DEF vars, server, feeds, link, page, Other, Register, ChangeBalance, ReadBalance,
       ReadResolved, PushFails, PushBalance, LoadBalance, GetBalance, BalanceLoaded, BalanceFails
  <2>. QED
    BY <1>0, <1>1, <1>4, <2>1
<1>. QED
  BY <1>6, <1>7, <1>8, <1>9, <1>10, <1>11, <1>12 DEF Next

(* The page has no balance that the server has not had. *)
LEMMA BalanceStep ==
    ASSUME TypeInv, [Next]_vars
    PROVE  BalanceTypes'
<1> USE FeedAssumption DEF None, Asked
<1>0. /\ balance \in 0 .. MaxBalance /\ pushes \subseteq 0 .. balance
      /\ changed \in Nat /\ resolved \in Nat
      /\ cached \in {None} \cup 0 .. balance /\ fetch \in {None, Asked} \cup 0 .. balance
      /\ late \in BOOLEAN /\ reg \in {"no", "asked", "in", "out"}
  BY DEF TypeInv, BalanceTypes
<1>1. CASE \/ UNCHANGED vars \/ Opened \/ Register \/ Other
           \/ \E r \in Rooms : Post(r) \/ Publish(r) \/ SendList(r) \/ JoinFails(r) \/ Join(r)
  <2>1. UNCHANGED <<balance, changed, resolved, pushes, cached, fetch, late>>
    BY <1>1 DEF vars, server, money, page, Opened, Register, Other, Post, Publish, SendList, JoinFails, Join
  <2>2. reg' = reg \/ reg' \in {"asked", "in", "out"}
    BY <1>1 DEF vars, link, Opened, Register, Other, Post, Publish, SendList, JoinFails, Join
  <2>. QED
    BY <1>0, <2>1, <2>2 DEF BalanceTypes
<1>2. CASE Closed
  <2>1. UNCHANGED <<balance, changed, resolved, pushes, cached, fetch>> /\ late' \in BOOLEAN /\ reg' = "no"
    BY <1>2 DEF server, money, page, Closed, Cut
  <2>. QED
    BY <1>0, <2>1 DEF BalanceTypes
<1>3. CASE Left
  <2>1. /\ UNCHANGED <<balance, changed, resolved, pushes>>
        /\ cached' = None /\ fetch' = None /\ late' = FALSE /\ reg' = "no"
    BY <1>3 DEF server, money, Left, Cut
  <2>. QED
    BY <1>0, <2>1 DEF BalanceTypes
<1>4. CASE ChangeBalance
  <2>1. /\ balance < MaxBalance /\ balance' = balance + 1
        /\ changed' \in {changed, changed + 1} /\ resolved' \in {resolved, resolved + 1}
        /\ UNCHANGED <<pushes, cached, fetch, reg, late>>
    BY <1>4 DEF ChangeBalance, page, link
  <2>2. 0 .. balance \subseteq 0 .. balance' /\ balance' \in 0 .. MaxBalance
    BY <1>0, <2>1
  <2>3. changed' \in Nat /\ resolved' \in Nat
    BY <1>0, <2>1
  <2>4. late' \in BOOLEAN
    BY <1>0, <2>1
  <2>. QED
    BY <1>0, <2>1, <2>2, <2>3, <2>4 DEF BalanceTypes
<1>5. CASE ReadBalance \/ ReadResolved \/ PushFails
  <2>1. /\ UNCHANGED <<balance, cached, fetch, reg>> /\ pushes' \subseteq pushes \cup {balance}
        /\ late' = late \/ late' = TRUE
    BY <1>0, <1>5 DEF ReadBalance, ReadResolved, PushFails, page, link
  <2>2. /\ changed' = changed \/ (changed > 0 /\ changed' = changed - 1)
        /\ resolved' = resolved \/ (resolved > 0 /\ resolved' = resolved - 1)
    BY <1>5 DEF ReadBalance, ReadResolved, PushFails
  <2>3. balance \in 0 .. balance /\ changed' \in Nat /\ resolved' \in Nat
    BY <1>0, <2>2
  <2>. QED
    BY <1>0, <2>1, <2>3 DEF BalanceTypes
<1>6. CASE PushBalance
  <2>1. /\ UNCHANGED <<balance, changed, resolved, cached, fetch, reg>>
        /\ pushes' \subseteq pushes /\ late' \in BOOLEAN
    BY <1>6 DEF PushBalance, page, link
  <2>. QED
    BY <1>0, <2>1 DEF BalanceTypes
<1>7. CASE LoadBalance \/ GetBalance \/ BalanceFails
  <2>1. /\ UNCHANGED <<balance, changed, resolved, pushes, cached, late, reg>>
        /\ fetch' \in {None, Asked, balance}
    BY <1>7 DEF LoadBalance, GetBalance, BalanceFails, server, money, link
  <2>. QED
    BY <1>0, <2>1 DEF BalanceTypes
<1>8. CASE BalanceLoaded
  <2>1. /\ UNCHANGED <<balance, changed, resolved, pushes, reg>>
        /\ fetch >= 0 /\ cached' = fetch /\ fetch' = None /\ late' \in BOOLEAN
    BY <1>8 DEF BalanceLoaded, server, money, link
  <2>. QED
    BY <1>0, <2>1 DEF BalanceTypes
<1>9. CASE HandleMessage
  <2>1. UNCHANGED <<balance, changed, resolved, pushes, fetch, reg>> /\ inbox # <<>>
    BY <1>9 DEF HandleMessage, server, money, link
  <2>2. late' \in BOOLEAN
    BY <1>0, <1>9 DEF HandleMessage
  <2>3. cached' = cached \/ (Head(inbox).room = "balance" /\ cached' = Head(inbox).ids[1])
    BY <1>9 DEF HandleMessage
  <2>4. cached' \in {None} \cup 0 .. balance
    BY <1>0, <2>1, <2>3, HeadFrame DEF TypeInv
  <2>. QED
    BY <1>0, <2>1, <2>2, <2>4 DEF BalanceTypes
<1>. QED
  BY <1>1, <1>2, <1>3, <1>4, <1>5, <1>6, <1>7, <1>8, <1>9 DEF Next

(* A page that was just loaded: two messages in every list, nothing shown. *)
LEMMA TypeInit == Init => TypeInv
<1> SUFFICES ASSUME Init
             PROVE  TypeInv
  OBVIOUS
<1> USE FeedAssumption
<1>0. 1 \in 1 .. 2 /\ 2 \in 1 .. 2 /\ 1 .. 2 \subseteq Nat /\ 2 \in 0 .. MaxMsgs /\ 2 <= Cap /\ 0 <= Cap
  OBVIOUS
<1>1. <<2, 1>> \in Seq(1 .. 2) /\ <<>> \in Seq(1 .. 2) /\ Len(<<2, 1>>) <= Cap /\ Len(<<>>) <= Cap
  BY <1>0
<1>2. RoomTypes
  <2>1. <<2, 1>> \in Seq(Nat) /\ <<>> \in Seq(Nat)
    OBVIOUS
  <2>2. /\ last \in [Rooms -> 0 .. MaxMsgs] /\ unsent \in [Rooms -> SUBSET Nat]
        /\ list \in [Rooms -> Seq(Nat)] /\ shown \in [Rooms -> Seq(Nat)]
        /\ sub \in [Rooms -> {"no", "asked", "sent", "joined", "failed"}] /\ sure \in [Rooms -> BOOLEAN]
        /\ listed \in [Rooms -> Nat]
    BY <1>0, <2>1 DEF Init
  <2>3. \A r \in Rooms : /\ unsent[r] = {} /\ last[r] = 2 /\ list[r] = <<2, 1>> /\ shown[r] = <<>>
                         /\ listed[r] = 0
    BY DEF Init
  <2>4. \A r \in Rooms : /\ listed[r] <= last[r] /\ unsent[r] \subseteq 1 .. last[r]
                         /\ list[r] \in Seq(1 .. last[r]) /\ Len(list[r]) <= Cap
                         /\ shown[r] \in Seq(1 .. last[r]) /\ Len(shown[r]) <= Cap
    <3>1. 0 <= 2 /\ {} \subseteq 1 .. 2
      OBVIOUS
    <3>. QED
      BY <1>1, <2>3, <3>1
  <2>. QED
    BY <2>2, <2>4 DEF RoomTypes
<1>3. BalanceTypes
  <2>1. /\ balance = 0 /\ changed = 0 /\ resolved = 0 /\ pushes = {}
        /\ cached = None /\ fetch = None /\ late = FALSE /\ reg = "no"
    BY DEF Init
  <2>2. 0 \in 0 .. MaxBalance
    OBVIOUS
  <2>. QED
    BY <2>1, <2>2 DEF BalanceTypes
<1>4. inbox = <<>>
  BY DEF Init
<1>5. inbox \in Seq(Frame) /\ DOMAIN inbox = {}
  BY <1>4
<1>6. FrameTypes
  BY <1>5 DEF FrameTypes
<1>. QED
  BY <1>2, <1>3, <1>6 DEF TypeInv

(* The types and the client, together. *)
LEMMA TypesAlways == Spec => [](WsInv /\ TypeInv)
<1>1. Init => WsInv /\ TypeInv
  BY WsInvInit, TypeInit DEF Init
<1>2. WsInv /\ TypeInv /\ [Next]_vars => (WsInv /\ TypeInv)'
  BY ClientStep, WsInvStep, RoomStep, BalanceStep, FrameStep DEF TypeInv
<1>. QED
  BY <1>1, <1>2, PTL DEF Spec

(* bets_live.go, chat_live.go, bets.ts, chats.ts, WsProvider.tsx: no list of the server
   and no store of the page outgrows its capacity, and the page holds only messages and
   balances that the server has had. *)
THEOREM FeedsTypeCorrect == Spec => []TypeOK
<1>1. WsInv /\ TypeInv => TypeOK
  <2> SUFFICES ASSUME WsInv, TypeInv
               PROVE  TypeOK
    OBVIOUS
  <2>1. WsTypeOK
    BY DEF WsInv
  <2>2. \A r \in Rooms : /\ last[r] \in 0 .. MaxMsgs /\ sure[r] \in BOOLEAN
                         /\ sub[r] \in {"no", "asked", "sent", "joined", "failed"}
                         /\ listed[r] \in 0 .. last[r]
    BY FeedAssumption DEF TypeInv, RoomTypes
  <2>. QED
    BY <2>1, <2>2 DEF TypeInv, RoomTypes, BalanceTypes, TypeOK
<1>. QED
  BY <1>1, TypesAlways, PTL

-----------------------------------------------------------------------------
(* The balance. *)

(* A step that leaves the page's balance and the server's alone, and takes no push away. *)
LEMMA PushKept ==
    ASSUME PushComing, Coming(inbox) => Coming(inbox)', UNCHANGED <<balance, cached>>, late => late'
    PROVE  PushComing'
BY DEF PushComing, Coming, None

(* A frame that is added hides none, and is a push to come if it carries the balance. *)
LEMMA ComingAppend ==
    ASSUME inbox \in Seq(Frame), NEW f \in Frame, inbox' = Append(inbox, f),
           UNCHANGED <<balance, changed, resolved>>,
           balance \in pushes => balance \in pushes' \/ f = [room |-> "balance", ids |-> <<balance>>]
    PROVE  Coming(inbox) => Coming(inbox)'
<1> SUFFICES ASSUME Coming(inbox)
             PROVE  Coming(inbox)'
  OBVIOUS
<1>1. /\ DOMAIN inbox = 1 .. Len(inbox) /\ DOMAIN inbox' = 1 .. Len(inbox) + 1 /\ Len(inbox) \in Nat
      /\ \A i \in 1 .. Len(inbox) : inbox'[i] = inbox[i]
      /\ inbox'[Len(inbox) + 1] = f
  <2>1. inbox' \in Seq(Frame) /\ Len(inbox') = Len(inbox) + 1
    BY AppendProperties
  <2>. QED
    BY <2>1, AppendProperties, LenProperties
<1>2. CASE changed > 0 \/ resolved > 0
  BY <1>2 DEF Coming
<1>3. CASE balance \in pushes
  <2>1. Len(inbox) + 1 \in DOMAIN inbox'
    BY <1>1
  <2>. QED
    BY <1>1, <1>3, <2>1 DEF Coming
<1>4. CASE \E i \in DOMAIN inbox : inbox[i] = [room |-> "balance", ids |-> <<balance>>]
  <2>1. PICK i \in 1 .. Len(inbox) : inbox[i] = [room |-> "balance", ids |-> <<balance>>]
    BY <1>1, <1>4
  <2>2. i \in DOMAIN inbox' /\ inbox'[i] = [room |-> "balance", ids |-> <<balance>>]
    BY <1>1, <2>1
  <2>. QED
    BY <2>2 DEF Coming
<1>. QED
  BY <1>2, <1>3, <1>4 DEF Coming

(* A balance that is behind stays to be pushed until the push is handled. *)
LEMMA PushStep ==
    ASSUME TypeInv, PushComing, [Next]_vars
    PROVE  PushComing'
<1>0. /\ balance \in 0 .. MaxBalance /\ changed \in Nat /\ resolved \in Nat /\ pushes \subseteq 0 .. balance
      /\ cached \in {None} \cup 0 .. balance /\ late \in BOOLEAN /\ balance \in Nat
  BY FeedAssumption DEF TypeInv, BalanceTypes
<1>1. inbox \in Seq(Frame) /\ DOMAIN inbox = 1 .. Len(inbox) /\ Len(inbox) \in Nat
  BY LenProperties DEF TypeInv, FrameTypes
<1>2. CASE \/ UNCHANGED vars \/ Opened \/ Register \/ Other
           \/ LoadBalance \/ GetBalance \/ BalanceFails
           \/ \E r \in Rooms : Post(r) \/ JoinFails(r) \/ Join(r)
  <2>1. UNCHANGED <<balance, changed, resolved, pushes, inbox, cached, late>>
    BY <1>2 DEF vars, server, money, page, Opened, Register, Other, LoadBalance, GetBalance,
       BalanceFails, Post, JoinFails, Join
  <2>. QED
    BY <2>1 DEF PushComing, Coming
<1>3. CASE Closed
  <2>1. /\ UNCHANGED <<balance, changed, resolved, pushes, cached>>
        /\ late' = (late \/ \E i \in DOMAIN inbox : inbox[i].room = "balance")
    BY <1>3 DEF Closed, server, money, page
  <2>2. CASE \E i \in DOMAIN inbox : inbox[i].room = "balance"
    BY <2>1, <2>2 DEF PushComing
  <2>3. CASE \A i \in DOMAIN inbox : inbox[i].room # "balance"
    <3>1. Coming(inbox) => Coming(inbox)'
      BY <2>1, <2>3 DEF Coming
    <3>. QED
      BY <2>1, <3>1, PushKept
  <2>. QED
    BY <2>2, <2>3
<1>4. CASE Left
  BY <1>4 DEF Left, PushComing, None
<1>5. ASSUME NEW r \in Rooms, Publish(r) \/ SendList(r)
      PROVE  PushComing'
  <2>1. UNCHANGED <<balance, changed, resolved, pushes, cached, late>>
    BY <1>5 DEF Publish, SendList, server, money, page
  <2>2. CASE inbox' = inbox
    BY <2>1, <2>2 DEF PushComing, Coming
  <2>3. CASE \E f \in Frame : inbox' = Append(inbox, f)
    <3>1. PICK f \in Frame : inbox' = Append(inbox, f)
      BY <2>3
    <3>2. Coming(inbox) => Coming(inbox)'
      BY <1>1, <2>1, <3>1, ComingAppend
    <3>. QED
      BY <2>1, <3>2, PushKept
  <2>4. /\ list[r] \in Seq(Nat) /\ unsent[r] \subseteq Nat
    BY DEF TypeInv, RoomTypes
  <2>5. CASE Publish(r)
    <3>1. PICK m \in unsent[r], ok \in BOOLEAN :
             inbox' = IF ok /\ sub[r] = "joined" THEN Append(inbox, [room |-> r, ids |-> <<m>>]) ELSE inbox
      BY <2>5 DEF Publish
    <3>2. <<m>> \in Seq(Nat)
      BY <2>4
    <3>3. [room |-> r, ids |-> <<m>>] \in Frame
      BY <3>2 DEF Frame
    <3>. QED
      BY <2>2, <2>3, <3>1, <3>3
  <2>6. CASE SendList(r)
    <3>1. inbox' = Append(inbox, [room |-> r, ids |-> Snapshot(r)])
      BY <2>6 DEF SendList
    <3>2. Snapshot(r) \in Seq(Nat)
      BY <2>4, ReverseProps DEF Snapshot
    <3>3. [room |-> r, ids |-> Snapshot(r)] \in Frame
      BY <3>2 DEF Frame
    <3>. QED
      BY <2>3, <3>1, <3>3
  <2>. QED
    BY <1>5, <2>5, <2>6
<1>6. CASE ChangeBalance
  <2>1. changed' > 0 \/ resolved' > 0
    BY <1>0, <1>6 DEF ChangeBalance
  <2>. QED
    BY <2>1 DEF PushComing, Coming
<1>7. CASE ReadBalance \/ ReadResolved \/ PushFails
  <2>1. balance' \in pushes' \/ late'
    BY <1>7 DEF ReadBalance, ReadResolved, PushFails
  <2>. QED
    BY <2>1 DEF PushComing, Coming
<1>8. CASE PushBalance
  <2>1. PICK v \in pushes :
           /\ pushes' = pushes \ {v}
           /\ inbox' = IF Listening THEN Append(inbox, [room |-> "balance", ids |-> <<v>>]) ELSE inbox
           /\ late' = (late \/ ~Listening)
           /\ UNCHANGED <<balance, changed, resolved, cached>>
    BY <1>8 DEF PushBalance, page
  <2>2. CASE ~Listening
    BY <2>1, <2>2 DEF PushComing
  <2>3. CASE Listening
    <3>1. <<v>> \in Seq(Nat)
      BY <1>0
    <3> DEFINE f == [room |-> "balance", ids |-> <<v>>]
    <3>2. f \in Frame
      BY <3>1 DEF Frame
    <3>3. balance \in pushes => balance \in pushes' \/ f = [room |-> "balance", ids |-> <<balance>>]
      BY <2>1
    <3>4. inbox' = Append(inbox, f)
      BY <2>1, <2>3
    <3> HIDE DEF f
    <3>5. Coming(inbox) => Coming(inbox)'
      BY <1>1, <2>1, <3>2, <3>3, <3>4, ComingAppend
    <3>. QED
      BY <2>1, <3>5, PushKept
  <2>. QED
    BY <2>2, <2>3
<1>9. CASE BalanceLoaded
  <2>1. /\ UNCHANGED <<balance, changed, resolved, pushes, inbox>> /\ cached' = fetch
        /\ late' = (fetch # balance /\ ~Coming(inbox))
    BY <1>9 DEF BalanceLoaded, server, money
  <2>2. Coming(inbox)' = Coming(inbox)
    BY <2>1 DEF Coming
  <2>. QED
    BY <2>1, <2>2 DEF PushComing
<1>10. CASE HandleMessage
  <2> DEFINE msg == Head(inbox)
  <2>1. UNCHANGED <<balance, changed, resolved, pushes>> /\ inbox # <<>> /\ inbox' = Tail(inbox)
    BY <1>10 DEF HandleMessage, server, money
  <2>2. /\ msg \in Frame /\ msg = inbox[1]
        /\ msg.room = "balance" => msg.ids[1] \in 0 .. balance /\ msg.ids = <<msg.ids[1]>>
    BY <2>1, HeadFrame DEF TypeInv
  <2>3. /\ inbox' \in Seq(Frame) /\ Len(inbox') = Len(inbox) - 1
        /\ \A i \in 1 .. Len(inbox') : inbox'[i] = inbox[i + 1]
    BY <1>1, <2>1, HeadTailProperties
  <2>4. DOMAIN inbox' = 1 .. Len(inbox) - 1
    BY <2>3, LenProperties
  <2>5. Coming(inbox) => Coming(inbox)' \/ msg = [room |-> "balance", ids |-> <<balance>>]
    <3> SUFFICES ASSUME \E i \in DOMAIN inbox : inbox[i] = [room |-> "balance", ids |-> <<balance>>],
                        msg # [room |-> "balance", ids |-> <<balance>>]
                 PROVE  Coming(inbox)'
      BY <2>1 DEF Coming
    <3>1. PICK i \in 1 .. Len(inbox) : inbox[i] = [room |-> "balance", ids |-> <<balance>>]
      BY <1>1
    <3>2. i # 1
      BY <2>2, <3>1
    <3>3. i - 1 \in DOMAIN inbox' /\ inbox'[i - 1] = inbox[i]
      BY <1>1, <2>3, <2>4, <3>2
    <3>. QED
      BY <2>1, <3>1, <3>3 DEF Coming
  <2>6. CASE msg.room # "balance"
    <3>1. UNCHANGED <<cached, late>>
      BY <1>10, <2>6 DEF HandleMessage
    <3>2. Coming(inbox) => Coming(inbox)'
      BY <2>5, <2>6
    <3>. QED
      BY <2>1, <3>1, <3>2, PushKept
  <2>7. CASE msg.room = "balance"
    <3> DEFINE v == msg.ids[1]
    <3>1. /\ cached' = IF Newer(v) THEN v ELSE cached
          /\ late' = (late /\ ~(Newer(v) /\ v = balance))
      BY <1>10, <2>7 DEF HandleMessage
    <3>2. v \in 0 .. balance /\ msg.ids = <<v>>
      BY <2>2, <2>7
    <3> HIDE DEF v
    <3>3. CASE v = balance
      <4>1. CASE Newer(v)
        BY <2>1, <3>1, <3>3, <4>1 DEF PushComing
      <4>2. CASE ~Newer(v)
        <5>1. cached = None \/ cached = balance
          BY <1>0, <3>3, <4>2 DEF Newer, None
        <5>. QED
          BY <2>1, <3>1, <4>2, <5>1 DEF PushComing
      <4>. QED
        BY <4>1, <4>2
    <3>4. CASE v # balance
      <4>1. msg # [room |-> "balance", ids |-> <<balance>>]
        BY <3>2, <3>4
      <4>2. Coming(inbox) => Coming(inbox)'
        BY <2>5, <4>1
      <4>3. CASE ~Newer(v)
        BY <2>1, <3>1, <4>2, <4>3, PushKept
      <4>4. CASE Newer(v)
        <5>1. cached # None /\ cached # balance
          BY <1>0, <3>2, <3>4, <4>4 DEF Newer, None
        <5>2. late' = late
          BY <1>0, <3>1, <3>4
        <5>. QED
          BY <4>2, <5>1, <5>2 DEF PushComing
      <4>. QED
        BY <4>3, <4>4
    <3>. QED
      BY <3>3, <3>4
  <2>. QED
    BY <2>6, <2>7
<1>. QED
  BY <1>2, <1>3, <1>4, <1>5, <1>6, <1>7, <1>8, <1>9, <1>10 DEF Next

(* WsProvider.tsx 105-113, live_balance.go 103-230: the page ends up with the current
   balance, in whatever order the goroutines push it, unless, since the last current
   balance it got, a push was lost with the connection, came before the hub had registered
   it or it was never put in the room of its user, a market was settled while the user was
   not in the hash of the users online, a market was cancelled, a push failed, or a load
   that read an older balance was the last to arrive. *)
THEOREM BalanceEndsCurrent == Spec => []BalanceCurrent
<1>1. Init => PushComing
  BY DEF Init, PushComing
<1>2. TypeInv /\ PushComing /\ [Next]_vars => PushComing'
  BY PushStep
<1>3. PushComing => BalanceCurrent
  BY DEF PushComing, BalanceCurrent
<1>. QED
  BY <1>1, <1>2, <1>3, TypesAlways, PTL DEF Spec

-----------------------------------------------------------------------------
(* The chat. *)

(* The list that is sent when the page joins fills the store, whatever was shown. *)
LEMMA StoreList ==
    ASSUME NEW ids \in Seq(Nat), NEW s \in Seq(Nat), NEW n \in Nat, IsList(ids, n)
    PROVE  Full(Trim(Reverse(ids) \o s), n)
<1>1. /\ Reverse(ids) \in Seq(Nat) /\ Len(Reverse(ids)) = Len(ids) /\ Len(ids) = Cap
      /\ \A k \in 1 .. Cap : Reverse(ids)[k] = ids[Cap - k + 1] /\ ids[k] = n - Cap + k
  BY ReverseProps DEF IsList
<1>2. Len(s) \in Nat /\ Cap \in Nat
  BY LenProperties, FeedAssumption
<1> DEFINE t == Trim(Reverse(ids) \o s)
<1>3. /\ Len(t) = IF Cap + Len(s) < Cap THEN Cap + Len(s) ELSE Cap
      /\ \A k \in 1 .. Len(t) : t[k] = IF k <= Cap THEN Reverse(ids)[k] ELSE s[k - Cap]
  BY <1>1, InFrontProps
<1> HIDE DEF t
<1>4. Len(t) = Cap
  BY <1>2, <1>3
<1>5. ASSUME NEW k \in 1 .. Cap
      PROVE  t[k] = n - k + 1
  <2>1. Cap - k + 1 \in 1 .. Cap
    BY <1>2
  <2>2. t[k] = Reverse(ids)[k]
    BY <1>2, <1>3, <1>4
  <2>3. t[k] = n - Cap + (Cap - k + 1)
    BY <1>1, <2>1, <2>2
  <2>. QED
    BY <1>2, <2>3
<1>6. Full(t, n)
  BY <1>4, <1>5 DEF Full
<1>. QED
  BY <1>6 DEF t

(* The next message keeps the store full. *)
LEMMA StoreNext ==
    ASSUME NEW s \in Seq(Nat), NEW n \in Nat, Full(s, n)
    PROVE  Full(Trim(Reverse(<<n + 1>>) \o s), n + 1)
<1>0. <<n + 1>> \in Seq(Nat) /\ Len(<<n + 1>>) = 1 /\ <<n + 1>>[1] = n + 1
  OBVIOUS
<1> DEFINE one == <<n + 1>>
<1>1. /\ Reverse(one) \in Seq(Nat) /\ Len(Reverse(one)) = 1 /\ Reverse(one)[1] = n + 1
  <2>1. /\ Reverse(one) \in Seq(Nat) /\ Len(Reverse(one)) = Len(one)
        /\ \A k \in 1 .. Len(one) : Reverse(one)[k] = one[Len(one) - k + 1]
    BY <1>0, ReverseProps
  <2>. QED
    BY <1>0, <2>1
<1> HIDE DEF one
<1>2. Cap \in Nat /\ Cap > 0 /\ Len(s) = Cap /\ \A k \in 1 .. Cap : s[k] = n - k + 1
  BY FeedAssumption DEF Full
<1> DEFINE t == Trim(Reverse(one) \o s)
<1>3. /\ Len(t) = IF 1 + Cap < Cap THEN 1 + Cap ELSE Cap
      /\ \A k \in 1 .. Len(t) : t[k] = IF k <= 1 THEN Reverse(one)[k] ELSE s[k - 1]
  <2>1. /\ Len(t) = IF Len(Reverse(one)) + Len(s) < Cap THEN Len(Reverse(one)) + Len(s) ELSE Cap
        /\ \A k \in 1 .. Len(t) :
              t[k] = IF k <= Len(Reverse(one)) THEN Reverse(one)[k] ELSE s[k - Len(Reverse(one))]
    BY <1>1, InFrontProps, ZenonT(30)
  <2> HIDE DEF t
  <2>. QED
    BY <1>1, <1>2, <2>1
<1> HIDE DEF t
<1>4. Len(t) = Cap
  BY <1>2, <1>3
<1>5. ASSUME NEW k \in 1 .. Cap
      PROVE  t[k] = (n + 1) - k + 1
  <2>1. CASE k = 1
    <3>1. t[k] = Reverse(one)[1]
      BY <1>3, <1>4, <2>1
    <3>. QED
      BY <1>1, <2>1, <3>1
  <2>2. CASE k # 1
    <3>1. k - 1 \in 1 .. Cap /\ t[k] = s[k - 1]
      BY <1>2, <1>3, <1>4, <2>2
    <3>2. s[k - 1] = n - (k - 1) + 1
      BY <1>2, <3>1
    <3>. QED
      BY <1>2, <3>1, <3>2
  <2>. QED
    BY <2>1, <2>2
<1>6. Full(t, n + 1)
  BY <1>4, <1>5 DEF Full
<1>. QED
  BY <1>6 DEF t, one

(* A frame of another room, or of the next message of the chat, at the end of the box. *)
LEMMA WayAppend ==
    ASSUME NEW box \in Seq(Frame), NEW store, NEW p \in Nat, NEW f \in Frame, NEW q \in Nat,
           FullUpTo(box, store, p),
           IF Chat(f) THEN q = p + 1 /\ f.ids = <<q>> ELSE q = p
    PROVE  FullUpTo(Append(box, f), store, q)
<1> DEFINE n == Len(box)
           new == Append(box, f)
<1>1. /\ n \in Nat /\ Len(new) = n + 1 /\ new[n + 1] = f
      /\ \A i \in 1 .. n : new[i] = box[i]
  BY LenProperties, AppendProperties
<1>2. PICK j \in 0 .. n, e \in [0 .. n -> Nat] : Way(box, store, p, j, e)
  BY DEF FullUpTo
<1> HIDE DEF n, new
<1>3. /\ IF j = 0 THEN Full(store, e[0]) ELSE Chat(box[j]) /\ IsList(box[j].ids, e[j])
      /\ \A i \in j + 1 .. n :
            IF Chat(box[i]) THEN e[i] = e[i - 1] + 1 /\ box[i].ids = <<e[i]>> ELSE e[i] = e[i - 1]
      /\ \A i \in j .. n : (\A k \in i + 1 .. n : ~Chat(box[k])) => e[i] = p
  BY <1>2 DEF Way, n
<1>4. e[n] = p
  <2>1. n \in j .. n /\ n + 1 .. n = {}
    BY <1>1
  <2>. QED
    BY <1>3, <2>1
<1> DEFINE d == [i \in 0 .. n + 1 |-> IF i = n + 1 THEN q ELSE e[i]]
<1>5. /\ d \in [0 .. n + 1 -> Nat] /\ d[n + 1] = q
      /\ \A i \in 0 .. n : d[i] = e[i]
  <2>1. \A i \in 0 .. n + 1 : i # n + 1 => i \in 0 .. n
    BY <1>1
  <2>2. n + 1 \in 0 .. n + 1 /\ \A i \in 0 .. n : i \in 0 .. n + 1 /\ i # n + 1
    BY <1>1
  <2>. QED
    BY <2>1, <2>2
<1> HIDE DEF d
<1>6. j \in 0 .. n + 1
  BY <1>1
<1>7. IF j = 0 THEN Full(store, d[0]) ELSE Chat(new[j]) /\ IsList(new[j].ids, d[j])
  <2>1. CASE j = 0
    BY <1>3, <1>5, <2>1
  <2>2. CASE j # 0
    <3>1. j \in 1 .. n
      BY <1>1, <2>2
    <3>. QED
      BY <1>1, <1>3, <1>5, <2>2, <3>1
  <2>. QED
    BY <2>1, <2>2
<1>8. ASSUME NEW i \in j + 1 .. n + 1
      PROVE  IF Chat(new[i]) THEN d[i] = d[i - 1] + 1 /\ new[i].ids = <<d[i]>> ELSE d[i] = d[i - 1]
  <2>1. CASE i = n + 1
    <3>1. d[i] = q /\ d[i - 1] = p /\ new[i] = f
      BY <1>1, <1>4, <1>5, <2>1
    <3>. QED
      BY <3>1
  <2>2. CASE i # n + 1
    <3>1. i \in j + 1 .. n /\ i \in 1 .. n /\ i \in 0 .. n /\ i - 1 \in 0 .. n
      BY <1>1, <2>2
    <3>. QED
      BY <1>1, <1>3, <1>5, <3>1
  <2>. QED
    BY <2>1, <2>2
<1>9. ASSUME NEW i \in j .. n + 1, \A k \in i + 1 .. n + 1 : ~Chat(new[k])
      PROVE  d[i] = q
  <2>1. CASE i = n + 1
    BY <1>5, <2>1
  <2>2. CASE i # n + 1
    <3>1. i \in j .. n /\ i \in 0 .. n /\ n + 1 \in i + 1 .. n + 1
      BY <1>1, <2>2
    <3>2. ~Chat(f) /\ q = p
      BY <1>1, <1>9, <3>1
    <3>3. \A k \in i + 1 .. n : k \in i + 1 .. n + 1 /\ k \in 1 .. n
      BY <1>1
    <3>4. \A k \in i + 1 .. n : ~Chat(box[k])
      BY <1>1, <1>9, <3>3
    <3>. QED
      BY <1>3, <1>5, <3>1, <3>2, <3>4
  <2>. QED
    BY <2>1, <2>2
<1>10. Len(new) = n + 1 /\ Way(new, store, q, j, d)
  BY <1>1, <1>7, <1>8, <1>9 DEF Way
<1>11. FullUpTo(new, store, q)
  BY <1>5, <1>6, <1>10 DEF FullUpTo
<1>. QED
  BY <1>11 DEF new

(* The list at the end of the box. *)
LEMMA WayList ==
    ASSUME NEW box \in Seq(Frame), NEW store, NEW q \in Nat, NEW f \in Frame,
           Chat(f), IsList(f.ids, q)
    PROVE  FullUpTo(Append(box, f), store, q)
<1> DEFINE n == Len(box)
           new == Append(box, f)
<1>1. n \in Nat /\ Len(new) = n + 1 /\ new[n + 1] = f
  BY LenProperties, AppendProperties
<1> HIDE DEF n, new
<1> DEFINE d == [i \in 0 .. n + 1 |-> q]
<1>2. d \in [0 .. n + 1 -> Nat] /\ d[n + 1] = q
  BY <1>1
<1> HIDE DEF d
<1>3. n + 1 # 0 /\ n + 1 \in 0 .. n + 1 /\ (n + 1) + 1 .. n + 1 = {} /\ n + 1 .. n + 1 = {n + 1}
  BY <1>1
<1>4. Way(new, store, q, n + 1, d)
  BY <1>1, <1>2, <1>3 DEF Way
<1>5. FullUpTo(new, store, q)
  BY <1>1, <1>2, <1>3, <1>4 DEF FullUpTo
<1>. QED
  BY <1>5 DEF new

(* The first frame is handled. *)
LEMMA WayTail ==
    ASSUME NEW box \in Seq(Frame), box # <<>>, NEW s \in Seq(Nat), NEW t, NEW p \in Nat,
           FullUpTo(box, s, p),
           t = IF Chat(Head(box)) THEN Trim(Reverse(Head(box).ids) \o s) ELSE s
    PROVE  FullUpTo(Tail(box), t, p)
<1> DEFINE n == Len(box)
           rest == Tail(box)
<1>1. /\ n \in Nat /\ n >= 1 /\ Len(rest) = n - 1
      /\ \A i \in 1 .. n - 1 : rest[i] = box[i + 1]
  BY LenProperties, EmptySeq, HeadTailProperties
<1>2. Head(box) = box[1] /\ box[1] \in Frame
  BY <1>1, ElementOfSeq
<1>3. PICK j \in 0 .. n, e \in [0 .. n -> Nat] : Way(box, s, p, j, e)
  BY DEF FullUpTo
<1> HIDE DEF n, rest
<1>4. /\ IF j = 0 THEN Full(s, e[0]) ELSE Chat(box[j]) /\ IsList(box[j].ids, e[j])
      /\ \A i \in j + 1 .. n :
            IF Chat(box[i]) THEN e[i] = e[i - 1] + 1 /\ box[i].ids = <<e[i]>> ELSE e[i] = e[i - 1]
      /\ \A i \in j .. n : (\A k \in i + 1 .. n : ~Chat(box[k])) => e[i] = p
  BY <1>3 DEF Way, n
<1> DEFINE d == [i \in 0 .. n - 1 |-> e[i + 1]]
           h == IF j = 0 THEN 0 ELSE j - 1
<1>5. d \in [0 .. n - 1 -> Nat] /\ \A i \in 0 .. n - 1 : d[i] = e[i + 1]
  <2>1. \A i \in 0 .. n - 1 : i + 1 \in 0 .. n
    BY <1>1
  <2>. QED
    BY <2>1
<1>6. h \in 0 .. n - 1 /\ j <= h + 1 /\ 0 <= h
  BY <1>1
<1>7. IF h = 0 THEN Full(t, d[0]) ELSE Chat(rest[h]) /\ IsList(rest[h].ids, d[h])
  <2>0. d[0] = e[1] /\ 1 \in 0 .. n /\ 0 \in 0 .. n /\ e[0] \in Nat /\ e[1] \in Nat
    BY <1>1, <1>5
  <2>1. CASE j = 0
    <3>1. Full(s, e[0]) /\ 1 \in j + 1 .. n
      BY <1>1, <1>4, <2>1
    <3>2. CASE Chat(box[1])
      <4>1. e[1] = e[0] + 1 /\ box[1].ids = <<e[0] + 1>>
        BY <1>4, <2>1, <3>1, <3>2
      <4>2. Full(t, e[0] + 1)
        BY <1>2, <2>0, <3>1, <3>2, <4>1, StoreNext
      <4>. QED
        BY <2>0, <2>1, <4>1, <4>2
    <3>3. CASE ~Chat(box[1])
      <4>1. e[1] = e[0]
        BY <1>4, <2>1, <3>1, <3>3
      <4>. QED
        BY <1>2, <2>0, <2>1, <3>1, <3>3, <4>1
    <3>. QED
      BY <3>2, <3>3
  <2>2. CASE j = 1
    <3>1. Chat(box[1]) /\ IsList(box[1].ids, e[1]) /\ box[1].ids \in Seq(Nat)
      BY <1>2, <1>4, <2>2 DEF Frame
    <3>2. Full(t, e[1])
      BY <1>2, <2>0, <3>1, StoreList
    <3>. QED
      BY <2>0, <2>2, <3>2
  <2>3. CASE j # 0 /\ j # 1
    <3>1. h = j - 1 /\ h # 0 /\ h \in 1 .. n - 1 /\ h \in 0 .. n - 1 /\ h + 1 = j
      BY <1>1, <2>3
    <3>2. rest[h] = box[j] /\ d[h] = e[j]
      BY <1>1, <1>5, <3>1
    <3>. QED
      BY <1>4, <2>3, <3>1, <3>2
  <2>. QED
    BY <2>1, <2>2, <2>3
<1> HIDE DEF d, h
<1>8. ASSUME NEW i \in h + 1 .. n - 1
      PROVE  IF Chat(rest[i]) THEN d[i] = d[i - 1] + 1 /\ rest[i].ids = <<d[i]>> ELSE d[i] = d[i - 1]
  <2>1. /\ i + 1 \in j + 1 .. n /\ i \in 1 .. n - 1 /\ i \in 0 .. n - 1 /\ i - 1 \in 0 .. n - 1
        /\ (i - 1) + 1 = (i + 1) - 1
    BY <1>1, <1>6
  <2>2. rest[i] = box[i + 1] /\ d[i] = e[i + 1] /\ d[i - 1] = e[(i + 1) - 1]
    BY <1>1, <1>5, <2>1
  <2>. QED
    BY <1>4, <2>1, <2>2
<1>9. ASSUME NEW i \in h .. n - 1, \A k \in i + 1 .. n - 1 : ~Chat(rest[k])
      PROVE  d[i] = p
  <2>1. i + 1 \in j .. n /\ i \in 0 .. n - 1
    BY <1>1, <1>6
  <2>2. ASSUME NEW k \in (i + 1) + 1 .. n
        PROVE  ~Chat(box[k])
    <3>1. k - 1 \in i + 1 .. n - 1 /\ k - 1 \in 1 .. n - 1 /\ (k - 1) + 1 = k
      BY <1>1, <2>1
    <3>2. rest[k - 1] = box[k]
      BY <1>1, <3>1
    <3>. QED
      BY <1>9, <3>1, <3>2
  <2>. QED
    BY <1>4, <1>5, <2>1, <2>2
<1>10. Way(rest, t, p, h, d)
  BY <1>1, <1>7, <1>8, <1>9 DEF Way
<1>11. FullUpTo(rest, t, p)
  BY <1>1, <1>5, <1>6, <1>10 DEF FullUpTo
<1>. QED
  BY <1>11 DEF rest

(* While the page is sure of the chat, all that was published is shown or under way. *)
LEMMA ChatStep ==
    ASSUME "chat" \in Rooms, TypeInv, ChatInv, [Next]_vars
    PROVE  ChatInv'
<1> DEFINE r == "chat"
           N == last[r]
<1>0. /\ last \in [Rooms -> 0 .. MaxMsgs] /\ unsent \in [Rooms -> SUBSET Nat]
      /\ list \in [Rooms -> Seq(Nat)] /\ shown \in [Rooms -> Seq(Nat)]
      /\ sure \in [Rooms -> BOOLEAN]
      /\ N \in Nat /\ list[r] \in Seq(Nat) /\ shown[r] \in Seq(Nat)
      /\ listed \in [Rooms -> Nat] /\ listed[r] \in Nat /\ listed[r] <= N /\ unsent[r] \subseteq 1 .. N
  BY FeedAssumption DEF TypeInv, RoomTypes
<1>1. inbox \in Seq(Frame)
  BY DEF TypeInv, FrameTypes
<1>2. ASSUME UNCHANGED <<list, last>>, ~sure'[r]
      PROVE  ChatInv'
  BY <1>2 DEF ChatInv, Newest
<1>3. ASSUME UNCHANGED <<list, last>>, UNCHANGED <<unsent[r], sure[r], listed[r]>>,
             \A p \in 0 .. N : FullUpTo(inbox, shown[r], p) => FullUpTo(inbox', shown'[r], p)
      PROVE  ChatInv'
  <2>0. \A p \in listed[r] .. N : p \in 0 .. N
    BY <1>0
  <2>1. InOrder => InOrder'
    BY <1>3, <2>0 DEF InOrder, NotInList
  <2>. QED
    BY <1>3, <2>1 DEF ChatInv, Newest
<1>4. ASSUME NEW f \in Frame, ~Chat(f), inbox' = Append(inbox, f), UNCHANGED <<list, last, shown>>,
             UNCHANGED <<unsent[r], sure[r], listed[r]>>
      PROVE  ChatInv'
  <2>1. \A p \in 0 .. N : p \in Nat
    BY <1>0
  <2>2. \A p \in 0 .. N : FullUpTo(inbox, shown[r], p) => FullUpTo(inbox', shown'[r], p)
    BY <1>1, <1>4, <2>1, WayAppend
  <2>. QED
    BY <1>3, <1>4, <2>2
<1>5. CASE \/ UNCHANGED vars \/ Opened \/ Register \/ Other
           \/ ChangeBalance \/ ReadBalance \/ ReadResolved \/ PushFails
           \/ LoadBalance \/ GetBalance \/ BalanceLoaded \/ BalanceFails
           \/ \E x \in Rooms : JoinFails(x) \/ Join(x)
  <2>1. UNCHANGED <<list, last, unsent, sure, inbox, shown, listed>>
    BY <1>5 DEF vars, server, feeds, link, page, Opened, Register, Other, ChangeBalance, ReadBalance,
       ReadResolved, PushFails, LoadBalance, GetBalance, BalanceLoaded, BalanceFails, JoinFails, Join
  <2>. QED
    BY <1>3, <2>1
<1>6. CASE Closed \/ Left
  <2>1. UNCHANGED <<list, last>> /\ sure' = [x \in Rooms |-> FALSE]
    BY <1>6 DEF Closed, Left, Cut, server, feeds
  <2>. QED
    BY <1>2, <2>1
<1>7. CASE PushBalance
  <2>1. PICK v \in pushes :
           inbox' = IF Listening THEN Append(inbox, [room |-> "balance", ids |-> <<v>>]) ELSE inbox
    BY <1>7 DEF PushBalance
  <2>2. UNCHANGED <<list, last, unsent, sure, shown, listed>>
    BY <1>7 DEF PushBalance, feeds, link, page
  <2>3. <<v>> \in Seq(Nat)
    BY FeedAssumption DEF TypeInv, BalanceTypes
  <2> DEFINE f == [room |-> "balance", ids |-> <<v>>]
  <2>4. f \in Frame /\ ~Chat(f)
    BY <2>3 DEF Frame, Chat
  <2>5. inbox' = Append(inbox, f) \/ inbox' = inbox
    BY <2>1
  <2> HIDE DEF f
  <2>. QED
    BY <1>3, <1>4, <2>2, <2>4, <2>5
<1>8. ASSUME NEW x \in Rooms, Post(x)
      PROVE  ChatInv'
  <2>1. /\ last' = [last EXCEPT ![x] = last[x] + 1]
        /\ list' = [list EXCEPT ![x] = Trim(<<last[x] + 1>> \o list[x])]
        /\ unsent' = [unsent EXCEPT ![x] = unsent[x] \cup {last[x] + 1}]
        /\ UNCHANGED <<inbox, shown, sure, listed>>
    BY <1>8 DEF Post, link, page
  <2>2. CASE x # r
    <3>1. last'[r] = last[r] /\ list'[r] = list[r] /\ unsent'[r] = unsent[r]
      BY <1>0, <2>1, <2>2
    <3>. QED
      BY <2>1, <3>1 DEF ChatInv, Newest, InOrder, NotInList
  <2>3. CASE x = r
    <3> DEFINE new == Trim(<<N + 1>> \o list[r])
    <3>1. last'[r] = N + 1 /\ list'[r] = new /\ unsent'[r] = unsent[r] \cup {N + 1}
      BY <1>0, <2>1, <2>3
    <3>2. <<N + 1>> \in Seq(Nat) /\ Len(<<N + 1>>) = 1 /\ <<N + 1>>[1] = N + 1
      BY <1>0
    <3>3. /\ Len(new) = IF 1 + Len(list[r]) < Cap THEN 1 + Len(list[r]) ELSE Cap
          /\ \A k \in 1 .. Len(new) : new[k] = IF k <= 1 THEN <<N + 1>>[k] ELSE list[r][k - 1]
      BY <1>0, OnTop
    <3> HIDE DEF new
    <3>4. Len(list[r]) \in Nat /\ Cap \in Nat
      BY <1>0, LenProperties, FeedAssumption
    <3>5. ASSUME NEW k \in 1 .. Len(new)
          PROVE  new[k] = (N + 1) - k + 1
      <4>1. CASE k = 1
        <5>1. new[k] = N + 1
          BY <3>2, <3>3, <4>1
        <5>. QED
          BY <1>0, <4>1, <5>1
      <4>2. CASE k # 1
        <5>1. k - 1 \in 1 .. Len(list[r]) /\ new[k] = list[r][k - 1]
          BY <3>3, <3>4, <4>2
        <5>2. list[r][k - 1] = N - (k - 1) + 1
          BY <5>1 DEF ChatInv, Newest
        <5>. QED
          BY <1>0, <5>1, <5>2
      <4>. QED
        BY <4>1, <4>2
    <3>6. Newest'
      BY <3>1, <3>5 DEF Newest
    <3>7. ASSUME sure'[r]
          PROVE  Len(list'[r]) = Cap /\ InOrder'
      <4>1. Len(list[r]) = Cap /\ InOrder
        BY <2>1, <3>7 DEF ChatInv
      <4>2. Len(new) = Cap
        BY <3>3, <3>4, <4>1
      <4>3. PICK p \in listed[r] .. N : NotInList(r) = p + 1 .. N /\ FullUpTo(inbox, shown[r], p)
        BY <4>1 DEF InOrder
      <4>4. p \in listed[r] .. N + 1 /\ p + 1 .. N + 1 = (p + 1 .. N) \cup {N + 1}
        BY <1>0
      <4>5. NotInList(r)' = NotInList(r) \cup {N + 1}
        BY <1>0, <2>1, <3>1 DEF NotInList
      <4>6. InOrder'
        BY <2>1, <3>1, <4>3, <4>4, <4>5 DEF InOrder
      <4>. QED
        BY <3>1, <4>2, <4>6
    <3>. QED
      BY <3>6, <3>7 DEF ChatInv
  <2>. QED
    BY <2>2, <2>3
<1>9. ASSUME NEW x \in Rooms, Publish(x)
      PROVE  ChatInv'
  <2>1. PICK m \in unsent[x], ok \in BOOLEAN :
           LET delivered == ok /\ sub[x] = "joined" IN
           /\ unsent' = [unsent EXCEPT ![x] = @ \ {m}]
           /\ inbox' = IF delivered THEN Append(inbox, [room |-> x, ids |-> <<m>>]) ELSE inbox
           /\ sure' = [sure EXCEPT ![x] = @ /\ AsNeeded(x, m, delivered)]
           /\ UNCHANGED <<list, last, shown, listed>>
    BY <1>9 DEF Publish, page, link
  <2> DEFINE D == ok /\ sub[x] = "joined"
  <2> DEFINE f == [room |-> x, ids |-> <<m>>]
  <2>2. m \in Nat /\ <<m>> \in Seq(Nat)
    BY <1>0
  <2>3. f \in Frame /\ f.room = x /\ f.ids = <<m>>
    BY <2>2 DEF Frame
  <2>4. inbox' = IF D THEN Append(inbox, f) ELSE inbox
    BY <2>1
  <2> HIDE DEF f
  <2>5. CASE x # r
    <3>1. UNCHANGED <<unsent[r], sure[r], listed[r]>>
      BY <1>0, <2>1, <2>5
    <3>2. ~Chat(f)
      BY <2>3, <2>5 DEF Chat
    <3>. QED
      BY <1>3, <1>4, <2>1, <2>3, <2>4, <3>1, <3>2
  <2>6. CASE x = r
    <3>1. unsent'[r] = unsent[r] \ {m}
      BY <1>0, <2>1, <2>6
    <3>2. sure'[r] = (sure[r] /\ AsNeeded(r, m, D))
      BY <1>0, <2>1, <2>6
    <3>3. CASE ~sure'[r]
      BY <1>2, <2>1, <3>3
    <3>4. CASE sure'[r]
      <4>1. sure[r] /\ AsNeeded(r, m, D)
        BY <3>2, <3>4
      <4>2. Len(list[r]) = Cap /\ InOrder
        BY <4>1 DEF ChatInv
      <4>3. PICK p \in listed[r] .. N : NotInList(r) = p + 1 .. N /\ FullUpTo(inbox, shown[r], p)
        BY <4>2 DEF InOrder
      <4>4. NotInList(r)' = NotInList(r) \ {m} /\ p \in Nat /\ listed'[r] = listed[r]
        BY <1>0, <2>1, <3>1 DEF NotInList
      <4>5. CASE m <= listed[r]
        <5>1. ~D /\ inbox' = inbox
          BY <2>4, <4>1, <4>5 DEF AsNeeded
        <5>2. NotInList(r)' = NotInList(r)
          BY <1>0, <2>2, <4>4, <4>5 DEF NotInList
        <5>3. InOrder'
          BY <2>1, <4>3, <4>4, <5>1, <5>2 DEF InOrder
        <5>. QED
          BY <2>1, <4>2, <5>3 DEF ChatInv, Newest
      <4>6. CASE ~(m <= listed[r])
        <5>1. D /\ \A n \in NotInList(r) : n >= m
          BY <4>1, <4>6 DEF AsNeeded
        <5>2. m \in p + 1 .. N
          <6>1. m \in NotInList(r)
            BY <1>0, <2>2, <2>6, <4>6 DEF NotInList
          <6>. QED
            BY <4>3, <6>1
        <5>3. p + 1 \in p + 1 .. N
          BY <1>0, <4>4, <5>2
        <5>4. m = p + 1
          <6>1. p + 1 >= m
            BY <4>3, <5>1, <5>3
          <6>. QED
            BY <2>2, <4>4, <5>2, <6>1
        <5>5. m \in listed[r] .. N /\ NotInList(r)' = m + 1 .. N
          <6>1. (p + 1 .. N) \ {m} = m + 1 .. N
            BY <1>0, <2>2, <4>4, <5>2, <5>4
          <6>2. m \in listed[r] .. N
            BY <1>0, <2>2, <4>4, <5>2, <5>4
          <6>. QED
            BY <4>3, <4>4, <6>1, <6>2
        <5>6. Chat(f) /\ f.ids = <<m>>
          BY <2>3, <2>6 DEF Chat
        <5>7. FullUpTo(Append(inbox, f), shown[r], m)
          BY <1>1, <2>2, <2>3, <4>3, <4>4, <5>4, <5>6, WayAppend
        <5>8. inbox' = Append(inbox, f)
          BY <2>4, <5>1
        <5>9. InOrder'
          BY <2>1, <4>4, <5>5, <5>7, <5>8 DEF InOrder
        <5>. QED
          BY <2>1, <4>2, <5>9 DEF ChatInv, Newest
      <4>. QED
        BY <4>5, <4>6
    <3>. QED
      BY <3>3, <3>4
  <2>. QED
    BY <2>5, <2>6
<1>10. ASSUME NEW x \in Rooms, SendList(x)
       PROVE  ChatInv'
  <2>1. /\ inbox' = Append(inbox, [room |-> x, ids |-> Snapshot(x)])
        /\ sure' = [sure EXCEPT ![x] = Len(list[x]) = Cap]
        /\ listed' = [listed EXCEPT ![x] = last[x]]
        /\ UNCHANGED <<list, last, unsent, shown>>
    BY <1>10 DEF SendList, server, feeds, page
  <2> DEFINE f == [room |-> x, ids |-> Snapshot(x)]
  <2>2. Snapshot(x) \in Seq(Nat)
    BY <1>0, ReverseProps DEF Snapshot
  <2>3. f \in Frame /\ f.room = x /\ f.ids = Snapshot(x)
    BY <2>2 DEF Frame
  <2>4. inbox' = Append(inbox, f)
    BY <2>1
  <2> HIDE DEF f
  <2>5. CASE x # r
    <3>1. UNCHANGED <<unsent[r], sure[r], listed[r]>>
      BY <1>0, <2>1, <2>5
    <3>2. ~Chat(f)
      BY <2>3, <2>5 DEF Chat
    <3>. QED
      BY <1>4, <2>1, <2>3, <2>4, <3>1, <3>2
  <2>6. CASE x = r
    <3>1. sure'[r] = (Len(list[r]) = Cap) /\ listed'[r] = N
      BY <1>0, <2>1, <2>6
    <3>2. CASE ~sure'[r]
      BY <1>2, <2>1, <3>2
    <3>3. CASE sure'[r]
      <4>1. Len(list[r]) = Cap /\ Cap \in Nat
        BY <3>1, <3>3, FeedAssumption
      <4>2. /\ f.ids = Reverse(list[r]) /\ Len(Reverse(list[r])) = Cap
            /\ \A k \in 1 .. Cap : Reverse(list[r])[k] = list[r][Cap - k + 1]
        BY <1>0, <2>3, <2>6, <4>1, ReverseProps DEF Snapshot
      <4>3. ASSUME NEW k \in 1 .. Cap
            PROVE  f.ids[k] = N - Cap + k
        <5>1. Cap - k + 1 \in 1 .. Len(list[r])
          BY <4>1
        <5>2. f.ids[k] = N - (Cap - k + 1) + 1
          BY <4>2, <5>1 DEF ChatInv, Newest
        <5>. QED
          BY <1>0, <4>1, <5>2
      <4>4. IsList(f.ids, N) /\ Chat(f)
        BY <2>3, <2>6, <4>2, <4>3 DEF IsList, Chat
      <4>5. FullUpTo(inbox', shown'[r], N)
        BY <1>0, <1>1, <2>1, <2>3, <2>4, <4>4, WayList
      <4>6. N \in N .. N /\ N + 1 .. N = {} /\ NotInList(r)' = {}
        BY <1>0, <2>1, <3>1 DEF NotInList
      <4>7. InOrder'
        BY <2>1, <3>1, <4>1, <4>5, <4>6 DEF InOrder
      <4>. QED
        BY <2>1, <4>1, <4>7 DEF ChatInv, Newest
    <3>. QED
      BY <3>2, <3>3
  <2>. QED
    BY <2>5, <2>6
<1>11. CASE HandleMessage
  <2> DEFINE msg == Head(inbox)
  <2>1. UNCHANGED <<list, last, unsent, sure, listed>> /\ inbox # <<>> /\ inbox' = Tail(inbox)
    BY <1>11 DEF HandleMessage, server, feeds, link
  <2>2. msg \in Frame /\ msg.room \in Rooms \cup {"balance"}
    BY <2>1, HeadFrame DEF TypeInv, Frame
  <2>3. shown'[r] = IF Chat(msg) THEN Trim(Reverse(msg.ids) \o shown[r]) ELSE shown[r]
    <3>1. CASE msg.room = "balance"
      <4>1. shown' = shown
        BY <1>11, <3>1 DEF HandleMessage
      <4>. QED
        BY <3>1, <4>1 DEF Chat
    <3>2. CASE msg.room # "balance"
      <4>1. shown' = [shown EXCEPT ![msg.room] = Trim(Reverse(msg.ids) \o shown[msg.room])]
        BY <1>11, <3>2 DEF HandleMessage, Store
      <4> HIDE DEF msg
      <4>2. CASE msg.room = r
        BY <1>0, <4>1, <4>2 DEF Chat
      <4>3. CASE msg.room # r
        BY <1>0, <4>1, <4>3 DEF Chat
      <4>. QED
        BY <4>2, <4>3
    <3>. QED
      BY <3>1, <3>2
  <2>4. \A p \in 0 .. N : p \in Nat
    BY <1>0
  <2>5. \A p \in 0 .. N : FullUpTo(inbox, shown[r], p) => FullUpTo(inbox', shown'[r], p)
    BY <1>0, <1>1, <2>1, <2>3, <2>4, WayTail
  <2>. QED
    BY <1>3, <2>1, <2>5
<1>. QED
  BY <1>5, <1>6, <1>7, <1>8, <1>9, <1>10, <1>11 DEF Next

(* With nothing under way, a store that is full up to the last message is the list. *)
LEMMA ChatComplete ==
    ASSUME "chat" \in Rooms, TypeInv, ChatInv
    PROVE  Settled("chat") => shown["chat"] = list["chat"]
<1> DEFINE r == "chat"
           N == last[r]
<1> SUFFICES ASSUME sure[r], NotInList(r) = {}, \A i \in DOMAIN inbox : inbox[i].room # r
             PROVE  shown[r] = list[r]
  BY DEF Settled
<1>0. /\ N \in Nat /\ list[r] \in Seq(Nat) /\ shown[r] \in Seq(Nat) /\ inbox \in Seq(Frame)
      /\ listed[r] \in Nat
  BY FeedAssumption DEF TypeInv, RoomTypes, FrameTypes
<1>1. DOMAIN inbox = 1 .. Len(inbox) /\ Len(inbox) \in Nat
  BY <1>0, LenProperties
<1>2. /\ Len(list[r]) = Cap /\ InOrder
      /\ \A k \in 1 .. Len(list[r]) : list[r][k] = N - k + 1
  BY DEF ChatInv, Newest
<1>3. PICK p \in listed[r] .. N : NotInList(r) = p + 1 .. N /\ FullUpTo(inbox, shown[r], p)
  BY <1>2 DEF InOrder
<1>4. p = N
  <2>1. p < N => N \in p + 1 .. N
    BY <1>0
  <2>2. p + 1 .. N = {}
    BY <1>3
  <2>3. ~(p < N)
    BY <2>1, <2>2
  <2>. QED
    BY <1>0, <2>3
<1>5. PICK j \in 0 .. Len(inbox), e \in [0 .. Len(inbox) -> Nat] : Way(inbox, shown[r], p, j, e)
  BY <1>3 DEF FullUpTo
<1>6. \A i \in 1 .. Len(inbox) : ~Chat(inbox[i])
  BY <1>1 DEF Chat
<1>7. j = 0
  <2>1. j # 0 => Chat(inbox[j]) /\ j \in 1 .. Len(inbox)
    BY <1>1, <1>5 DEF Way
  <2>. QED
    BY <1>6, <2>1
<1>8. Full(shown[r], e[0])
  BY <1>5, <1>7 DEF Way
<1>9. 0 \in j .. Len(inbox) /\ \A k \in 0 + 1 .. Len(inbox) : ~Chat(inbox[k])
  BY <1>1, <1>6, <1>7
<1>10. e[0] = p
  BY <1>5, <1>9 DEF Way
<1>11. Len(shown[r]) = Len(list[r]) /\ \A k \in 1 .. Len(shown[r]) : shown[r][k] = list[r][k]
  BY <1>2, <1>4, <1>8, <1>10 DEF Full
<1>. QED
  BY <1>0, <1>11, SeqEqual

(* chats.ts 15-44, WsProvider.tsx 123-136: reconnecting repairs the chat.  The last messages
   are shown, once and in order, for every capacity and however often the connection is
   lost, unless, since the join, the list was not full, a message of the list was published
   after the join, one that is not in it was published before the join or failed to be, or
   two were published in the other order. *)
THEOREM ChatRepaired == Spec => []ChatUpToDate
<1>1. CASE "chat" \in Rooms
  <2>1. Init => ChatInv
    <3> SUFFICES ASSUME Init
                 PROVE  ChatInv
      OBVIOUS
    <3>1. list["chat"] = <<2, 1>> /\ last["chat"] = 2 /\ sure["chat"] = FALSE
      BY <1>1 DEF Init
    <3>2. Len(<<2, 1>>) = 2 /\ <<2, 1>>[1] = 2 /\ <<2, 1>>[2] = 1
      OBVIOUS
    <3>3. \A k \in 1 .. 2 : <<2, 1>>[k] = 2 - k + 1
      <4>1. \A k \in 1 .. 2 : k = 1 \/ k = 2
        OBVIOUS
      <4>. QED
        BY <3>2, <4>1
    <3>. QED
      BY <3>1, <3>2, <3>3 DEF ChatInv, Newest
  <2>2. TypeInv /\ ChatInv /\ [Next]_vars => ChatInv'
    BY <1>1, ChatStep
  <2>3. TypeInv /\ ChatInv => ChatUpToDate
    BY <1>1, ChatComplete DEF ChatUpToDate
  <2>. QED
    BY <2>1, <2>2, <2>3, TypesAlways, PTL DEF Spec
<1>2. CASE "chat" \notin Rooms
  <2>1. ChatUpToDate
    BY <1>2 DEF ChatUpToDate
  <2>. QED
    BY <2>1, PTL
<1>. QED
  BY <1>1, <1>2

=============================================================================
