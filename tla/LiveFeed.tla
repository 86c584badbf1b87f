------------------------------ MODULE LiveFeed ------------------------------
(***************************************************************************)
(* What a page shows of the live bets, the chat and the balance: the       *)
(* handlers that WsProvider registers with the websocket client (WsClient),*)
(* the stores behind them, the balance query, and the server as they meet  *)
(* it.                                                                     *)
(*                                                                         *)
(* The server keeps the last messages of a room in a list of Redis and     *)
(* publishes each message after it was put there.  A connection that asks  *)
(* for a room is sent the list, then joins the room.  The room of its user *)
(* it joins when the hub registers it, unless the hub handled another join *)
(* of it first; there the balance is pushed.                               *)
(* A message is its number, a balance its version; the balance is that of  *)
(* the user of the page.                                                   *)
(***************************************************************************)
EXTENDS WsClient, Integers, SequencesExt

CONSTANTS
    Rooms,     \* of "bets" and "chat"
    Cap,       \* messages a list keeps, of the server and of the page
    MaxMsgs,   \* bound: messages per room
    MaxBalance \* bound: changes of the balance

ASSUME FeedAssumption ==
    /\ Rooms \subseteq {"bets", "chat"} /\ Cap \in Nat \ {0, 1}
    /\ MaxMsgs \in Nat \ {0, 1} /\ MaxBalance \in Nat

VARIABLES
    list,      \* server: list[r], newest first
    last,      \* server: number of the last message of r
    unsent,    \* server: messages in the list that are not published yet
    balance,   \* server: version of the balance of the user
    changed,   \* server: bets and cashouts of the user whose push has not begun
    resolved,  \* server: settlements paid to the user whose push has not begun
    pushes,    \* server: versions read for a push and not published yet
    sub,       \* sub[r]: how far the connection is with room r
    reg,       \* how far it is with the room of its user
    listed,    \* listed[r]: the last message of the list that was sent
    inbox,     \* frames under way to the page
    shown,     \* shown[r]: the store of r, newest at the top
    cached,    \* the balance in the query cache, None before the first load
    fetch,     \* the load of the balance under way: None, Asked, or the version read
    sure,      \* sure[r]: nothing happened to r that the page cannot make up for
    late       \* a load of the balance was overtaken, or a push was lost

feeds == <<list, last, unsent>>
money == <<balance, changed, resolved, pushes>>
server == <<feeds, money>>
link == <<sub, reg, listed>>
page == <<shown, cached, fetch>>
vars == <<wsVars, server, link, inbox, page, sure, late>>

None == -1   \* no balance
Asked == -2  \* no answer yet
Listening == ws = "open" /\ reg = "in" /\ ident = cookie /\ cookie # Nobody

Init ==
    /\ WsInit
    /\ list = [r \in Rooms |-> <<2, 1>>] /\ last = [r \in Rooms |-> 2]
    /\ unsent = [r \in Rooms |-> {}]
    /\ balance = 0 /\ changed = 0 /\ resolved = 0 /\ pushes = {}
    /\ sub = [r \in Rooms |-> "no"] /\ reg = "no" /\ listed = [r \in Rooms |-> 0]
    /\ inbox = <<>>
    /\ shown = [r \in Rooms |-> <<>>] /\ cached = None /\ fetch = None
    /\ sure = [r \in Rooms |-> FALSE] /\ late = FALSE

Trim(s) == SubSeq(s, 1, IF Len(s) < Cap THEN Len(s) ELSE Cap)

-----------------------------------------------------------------------------
(* The connection. *)

(* What becomes of the feeds when the connection ends, with or without the page. *)
Cut ==
    /\ sub' = [r \in Rooms |-> "no"] /\ reg' = "no" /\ UNCHANGED listed
    /\ inbox' = <<>>
    /\ sure' = [r \in Rooms |-> FALSE]

(* The connect handler of WsProvider asks for the rooms; the server has asked the
   hub to register the connection. *)
NotSubscribed == [r \in Rooms |-> "no"]
Subscribed == [r \in Rooms |-> "asked"]

Opened ==
    /\ HandleOpen
    /\ sub' = Subscribed /\ reg' = "asked"
    /\ UNCHANGED <<server, listed, inbox, page, sure, late>>

(* handleRegister: the connection joins the room of its user, unless a join made it a
   client of the hub before: of one of Rooms, or of another room the page asks for. *)
Register ==
    /\ ws = "open" /\ reg = "asked"
    /\ \/ reg' = "in" /\ \A r \in Rooms : sub[r] # "joined"
       \/ reg' = "out"
    /\ UNCHANGED <<wsVars, server, sub, listed, inbox, page, sure, late>>

Closed ==
    /\ HandleClose \/ LoginHandled
    /\ Cut
    /\ late' = (late \/ \E i \in DOMAIN inbox : inbox[i].room = "balance")
    /\ UNCHANGED <<server, page>>

Left ==
    /\ Reload
    /\ Cut
    /\ shown' = [r \in Rooms |-> <<>>] /\ cached' = None /\ fetch' = None
    /\ late' = FALSE
    /\ UNCHANGED server

Other ==
    /\ GetWSClient \/ Reconnect \/ LoginAnswered \/ LogoutAnswered \/ AnswerLost
    /\ UNCHANGED <<server, link, inbox, page, sure, late>>

-----------------------------------------------------------------------------
(* The rooms of the server. *)

(* A message of the chat (the script of SendMessage) or a bet (updateCacheAndPub): into
   the list. *)
Post(r) ==
    /\ last[r] < MaxMsgs
    /\ last' = [last EXCEPT ![r] = @ + 1]
    /\ list' = [list EXCEPT ![r] = Trim(<<last[r] + 1>> \o @)]
    /\ unsent' = [unsent EXCEPT ![r] = @ \cup {last[r] + 1}]
    /\ UNCHANGED <<wsVars, money, link, inbox, page, sure, late>>

(* What the page needs of a message once the list was sent: nothing if it is in the
   list; to be delivered, and before the later ones, if it is not. *)
NotInList(r) == {n \in unsent[r] : n > listed[r]}
AsNeeded(r, m, delivered) ==
    IF m <= listed[r] THEN ~delivered ELSE delivered /\ \A n \in NotInList(r) : n >= m

(* It is published, by the goroutine of its own sender, if Redis does not fail. *)
Publish(r) ==
    \E m \in unsent[r], ok \in BOOLEAN :
        LET delivered == ok /\ sub[r] = "joined" IN
        /\ unsent' = [unsent EXCEPT ![r] = @ \ {m}]
        /\ inbox' = IF delivered THEN Append(inbox, [room |-> r, ids |-> <<m>>]) ELSE inbox
        /\ sure' = [sure EXCEPT ![r] = @ /\ AsNeeded(r, m, delivered)]
        /\ UNCHANGED <<wsVars, list, last, money, link, page, late>>

(* HandleJoinBetsRoom, HandleJoinChatRoom: the list is sent in one frame, the
   bets as they are in the list, the chat from the oldest. *)
NewestFirst(r) == list[r]
Snapshot(r) == IF r = "bets" THEN list[r] ELSE Reverse(list[r])
SendList(r) ==
    /\ ws = "open" /\ sub[r] = "asked"
    /\ sub' = [sub EXCEPT ![r] = "sent"]
    /\ listed' = [listed EXCEPT ![r] = last[r]]
    /\ inbox' = Append(inbox, [room |-> r, ids |-> Snapshot(r)])
    /\ sure' = [sure EXCEPT ![r] = Len(list[r]) = Cap]
    /\ UNCHANGED <<wsVars, server, reg, page, late>>

(* The list cannot be read or sent: the handler returns, and nobody asks again while
   the socket is open. *)
JoinFails(r) ==
    /\ ws = "open" /\ sub[r] = "asked"
    /\ sub' = [sub EXCEPT ![r] = "failed"]
    /\ UNCHANGED <<wsVars, server, reg, listed, inbox, page, sure, late>>

(* c.Join, and the hub handles it. *)
Join(r) ==
    /\ ws = "open" /\ sub[r] = "sent"
    /\ sub' = [sub EXCEPT ![r] = "joined"]
    /\ UNCHANGED <<wsVars, server, reg, listed, inbox, page, sure, late>>

-----------------------------------------------------------------------------
(* The balance. *)

(* AddBet and CashoutBet tell that the account changed, SettleMarket that the market is
   resolved.  CancelMarket tells nobody, and commits only when it refunds nothing. *)
ChangeBalance ==
    /\ balance < MaxBalance
    /\ balance' = balance + 1
    /\ \/ changed' = changed + 1 /\ UNCHANGED resolved
       \/ resolved' = resolved + 1 /\ UNCHANGED changed
    /\ UNCHANGED <<wsVars, feeds, pushes, link, inbox, page, sure, late>>

(* pushBalanceUpdate, in a goroutine per change: it reads the balance. *)
ReadBalance ==
    /\ changed > 0
    /\ changed' = changed - 1
    /\ pushes' = pushes \cup {balance}
    /\ UNCHANGED <<wsVars, feeds, balance, resolved, link, inbox, page, sure, late>>

(* pushBalancesForResolvedMarket reads the balances of the users in the hash
   LoggedInUsersKey.  A registered connection of the user, of this page or of another
   one, puts them there every few seconds; until then, after the time to live, and when
   Redis fails they are not in it. *)
ReadResolved ==
    /\ resolved > 0
    /\ resolved' = resolved - 1
    /\ \E online \in BOOLEAN :
          /\ pushes' = IF online THEN pushes \cup {balance} ELSE pushes
          /\ late' = (late \/ ~online)
    /\ UNCHANGED <<wsVars, feeds, balance, changed, link, inbox, page, sure>>

(* The publication of a change, the query or the publication of the balance fails. *)
PushFails ==
    /\ \/ changed > 0 /\ changed' = changed - 1 /\ UNCHANGED <<resolved, pushes>>
       \/ resolved > 0 /\ resolved' = resolved - 1 /\ UNCHANGED <<changed, pushes>>
       \/ \E v \in pushes : pushes' = pushes \ {v} /\ UNCHANGED <<changed, resolved>>
    /\ late' = TRUE
    /\ UNCHANGED <<wsVars, feeds, balance, link, inbox, page, sure>>

(* pushBalanceToUserWs: the balance goes to the room of the user. *)
PushBalance ==
    \E v \in pushes :
        /\ pushes' = pushes \ {v}
        /\ inbox' = IF Listening THEN Append(inbox, [room |-> "balance", ids |-> <<v>>]) ELSE inbox
        /\ late' = (late \/ ~Listening)
        /\ UNCHANGED <<wsVars, feeds, balance, changed, resolved, link, page, sure>>

(* A push of the current balance is still to come. *)
Coming(frames) ==
    \/ changed > 0 \/ resolved > 0 \/ balance \in pushes
    \/ \E i \in DOMAIN frames : frames[i] = [room |-> "balance", ids |-> <<balance>>]

(* useBalanceQuery: it loads for a user, and its data is stale after 60 ms. *)
LoadBalance ==
    /\ client /\ cookie # Nobody /\ login = "idle" /\ fetch = None
    /\ fetch' = Asked
    /\ UNCHANGED <<wsVars, server, link, inbox, shown, cached, sure, late>>

GetBalance ==
    /\ fetch = Asked
    /\ fetch' = balance
    /\ UNCHANGED <<wsVars, server, link, inbox, shown, cached, sure, late>>

(* The answer replaces the cached balance, also a newer one that was pushed. *)
BalanceLoaded ==
    /\ fetch >= 0
    /\ cached' = fetch /\ fetch' = None
    /\ late' = (fetch # balance /\ ~Coming(inbox))
    /\ UNCHANGED <<wsVars, server, link, inbox, shown, sure>>

BalanceFails ==
    /\ fetch # None
    /\ fetch' = None
    /\ UNCHANGED <<wsVars, server, link, inbox, shown, cached, sure, late>>

-----------------------------------------------------------------------------
(* handleMessage and the handlers of WsProvider. *)

Store(r, ids) == Trim(Reverse(ids) \o shown[r])

(* The handler of "balance": an older version is ignored, and so is any version
   while nothing was loaded. *)
AnyVersion(v) == cached # None
Newer(v) == cached # None /\ cached < v

HandleMessage ==
    /\ ws = "open" /\ inbox # <<>>
    /\ inbox' = Tail(inbox)
    /\ LET msg == Head(inbox) IN
       IF msg.room = "balance"
         THEN /\ cached' = IF Newer(msg.ids[1]) THEN msg.ids[1] ELSE cached
              /\ late' = (late /\ ~(Newer(msg.ids[1]) /\ msg.ids[1] = balance))
              /\ UNCHANGED shown
         ELSE /\ shown' = [shown EXCEPT ![msg.room] = Store(msg.room, msg.ids)]
              /\ UNCHANGED <<cached, late>>
    /\ UNCHANGED <<wsVars, server, link, fetch, sure>>

-----------------------------------------------------------------------------
Next ==
    \/ Opened \/ Register \/ Closed \/ Left \/ Other
    \/ \E r \in Rooms : Post(r) \/ Publish(r) \/ SendList(r) \/ JoinFails(r) \/ Join(r)
    \/ ChangeBalance \/ ReadBalance \/ ReadResolved \/ PushFails \/ PushBalance
    \/ LoadBalance \/ GetBalance \/ BalanceLoaded \/ BalanceFails
    \/ HandleMessage

(* Sockets open and close, timers fire, handlers run, frames arrive.  Nobody has
   to bet, to write or to log in. *)
Fairness ==
    /\ WF_vars(Opened) /\ WF_vars(ws = "closing" /\ Closed)
    /\ WF_vars(Other /\ GetWSClient) /\ WF_vars(Other /\ Reconnect)
    /\ \A r \in Rooms : WF_vars(SendList(r) \/ JoinFails(r)) /\ WF_vars(Join(r))
    /\ WF_vars(HandleMessage)

Spec == Init /\ [][Next]_vars /\ Fairness

-----------------------------------------------------------------------------
(* Properties. *)

(* The types; no list of the server and no store of the page outgrows its capacity, and
   the page holds only messages and balances that the server has had. *)
TypeOK ==
    /\ WsTypeOK
    /\ \A r \in Rooms :
          /\ last[r] \in 0..MaxMsgs /\ unsent[r] \subseteq 1..last[r]
          /\ list[r] \in Seq(1..last[r]) /\ Len(list[r]) <= Cap
          /\ shown[r] \in Seq(1..last[r]) /\ Len(shown[r]) <= Cap
          /\ listed[r] \in 0..last[r] /\ sure[r] \in BOOLEAN
          /\ sub[r] \in {"no", "asked", "sent", "joined", "failed"}
    /\ reg \in {"no", "asked", "in", "out"}
    /\ balance \in 0..MaxBalance /\ pushes \subseteq 0..balance
    /\ changed \in Nat /\ resolved \in Nat
    /\ cached \in {None} \cup 0..balance
    /\ fetch \in {None, Asked} \cup 0..balance
    /\ late \in BOOLEAN

(* The page is in room r, the list was full, every other message was delivered in
   order, and none is under way. *)
Settled(r) ==
    /\ ws = "open" /\ sub[r] = "joined" /\ sure[r] /\ NotInList(r) = {}
    /\ \A i \in DOMAIN inbox : inbox[i].room # r

(* chats.ts 15-44, WsProvider.tsx 123-136, ws_handlers.go 231-298: reconnecting repairs the
   chat.  The list that the server sends again pushes the messages shown before out of
   the store, so that the last messages are shown, once and in order, whatever was shown
   and whatever was not yet published when the list was sent.  Since the join: unless the
   list was not full; a message of the list was published after the join and so came
   twice; a message that is not in the list was published before the join or failed to be
   published, and is missing; or two of them were published in the other order. *)
ChatUpToDate == "chat" \in Rooms /\ Settled("chat") => shown["chat"] = list["chat"]

(* WsProvider.tsx 105-113, live_balance.go 103-230: whatever order the goroutines push the
   balance in, the page ends up with the current one.  Unless, since the last current
   balance it got: a push was lost with the connection, came before the hub had
   registered it, or the hub never put it in the room of its user; a market was settled
   while the user was not in the hash of the users online; a push failed; or a load that
   read an older balance was the last to arrive. *)
BalanceCurrent == cached # None /\ fetch = None /\ ~late /\ ~Coming(inbox) => cached = balance

(* socket.ts 91-130: however often the connection is lost, and whatever logins,
   logouts and reloads come in between, the page ends up connected and in each of its
   rooms, but those whose join the server answered with an error. *)
StaysConnected == <>[](ws = "open" /\ \A r \in Rooms : sub[r] \in {"joined", "failed"})

=============================================================================
