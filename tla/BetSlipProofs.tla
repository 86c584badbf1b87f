---------------------------- MODULE BetSlipProofs ---------------------------
(***************************************************************************)
(* The bet slip and the lists of bets, for any amounts, price levels and   *)
(* lists and any number of clicks, lost answers and pages visited: a slip  *)
(* places one bet, the lists tell the truth, and a stake is what the field *)
(* shows, rounded right whatever was typed.                                *)
(*                                                                         *)
(* One bet per mount: all that a slip sends while it is mounted carries    *)
(* the key that it drew first (Sends is a function of the mount), and the  *)
(* server takes a key once.                                                *)
(*                                                                         *)
(* The lists: what the server did and the tab has not been told of is on   *)
(* the wire, and when the answer arrives every list is fetched again or    *)
(* marked; a fetch that goes on instead is counted in missed.              *)
(*                                                                         *)
(* The field: what a run of digits stands for is a number (Number), and    *)
(* every helper of the rounding is a step on numbers, shown by induction   *)
(* over the digits: one more in the last place is plus one up to the carry *)
(* (BumpedAddsOne), what is cut off is compared with half of its unit      *)
(* (RestRounds), and commitRound keeps the amount (CommitRoundKeeps).      *)
(***************************************************************************)
EXTENDS BetSlip, SequenceTheorems, WellFoundedInduction, TLAPS

IsSequence(s) == s \in Seq(Range(s))

(* What was sent to place a bet, and what was placed: the mount of the slip, and the key. *)
Sends == {<<bets[i].mount, bets[i].key>> : i \in DOMAIN bets}
    \cup {<<r.mount, r.key>> : r \in {r \in wire : r.kind = "bet"}}

RequestFields == {"kind", "key", "bet", "mount", "stake", "quote", "phase", "awaited"}
WireTypes == \A r \in wire : DOMAIN r = RequestFields
SlipTypes ==
    /\ DOMAIN slip = {"mount", "text", "amount", "key", "pending", "success"}
    /\ slip.mount \in 0 .. moves /\ slip.key \in Nat
CardTypes == cards \in [Bets -> [clicked : BOOLEAN, key : Nat, pending : BOOLEAN]]

(* One key for a mount, that of the slip that is open. *)
OneKey ==
    /\ Sends \subseteq (1 .. moves) \X (Nat \ {0})
    /\ \A s, t \in Sends : s[1] = t[1] => s[2] = t[2]
    /\ \A s \in Sends : s[1] = slip.mount => s[2] = slip.key

(* One bet for a key. *)
BetPerKey == \A i, j \in DOMAIN bets : bets[i].key = bets[j].key => i = j

(* Inductive: the slip. *)
SlipInv ==
    /\ moves \in Nat /\ keys \in Nat /\ IsSequence(bets)
    /\ WireTypes /\ SlipTypes /\ CardTypes /\ OneKey /\ BetPerKey

(* An entry of the query cache. *)
Entry(c) == DOMAIN c = {"data", "phase", "answer", "invalid", "failed"}
ListTypes ==
    /\ cache = [q \in Lists |-> cache[q]]
    /\ \A q \in Lists : Entry(cache[q])
    /\ DOMAIN market = {"level", "status"}

(* The tab has been told of everything the server did. *)
Quiet == \A r \in wire : r.phase # "served"

(* What the entry c of q shows, or is about to show, is what the server has. *)
Good(c, q) ==
    /\ c.phase = "served" => c.answer = <<Answer(q)>>
    /\ c.phase = "idle" /\ c.data # <<>> /\ ~c.invalid => c.data = <<Answer(q)>>

(* Inductive: the lists. *)
ListsInv ==
    /\ ListTypes /\ WireTypes
    /\ Quiet => \A q \in Lists : q \notin missed => Good(cache[q], q)

-----------------------------------------------------------------------------
(* Sequences and requests. *)

(* A row that is inserted comes last. *)
LEMMA AppendRow ==
    ASSUME NEW s, IsSequence(s), NEW x
    PROVE  /\ IsSequence(Append(s, x))
           /\ \E n : /\ n \notin DOMAIN s /\ DOMAIN Append(s, x) = DOMAIN s \cup {n}
                     /\ Append(s, x)[n] = x
                     /\ \A i \in DOMAIN s : Append(s, x)[i] = s[i]
<1> DEFINE S == Range(s) \cup {x}
           t == Append(s, x)
           n == Len(s) + 1
<1>1. s \in Seq(Range(s)) /\ Range(s) \subseteq S /\ x \in S
  BY DEF IsSequence
<1>2. s \in Seq(S)
  <2> HIDE DEF S
  <2> QED BY <1>1, SeqDef
<1> HIDE DEF S
<1>3. /\ t \in Seq(S) /\ Len(t) = Len(s) + 1
      /\ \A i \in 1 .. Len(s) : t[i] = s[i]
      /\ t[Len(s) + 1] = x
  BY <1>1, <1>2, AppendProperties
<1>4. Len(s) \in Nat /\ DOMAIN s = 1 .. Len(s)
  BY <1>2, LenProperties
<1>5. Len(t) \in Nat /\ DOMAIN t = 1 .. Len(t) /\ t \in [1 .. Len(t) -> S]
  BY <1>3, LenProperties
<1> HIDE DEF t
<1>6. n \notin DOMAIN s /\ DOMAIN t = DOMAIN s \cup {n} /\ t[n] = x
  BY <1>3, <1>4, <1>5
<1>7. t \in [1 .. Len(t) -> Range(t)]
  BY <1>5 DEF Range
<1>8. t \in Seq(Range(t))
  BY <1>5, <1>7, SeqDef
<1>9. IsSequence(t)
  BY <1>8 DEF IsSequence
<1>10. \E m : /\ m \notin DOMAIN s /\ DOMAIN t = DOMAIN s \cup {m}
              /\ t[m] = x /\ \A i \in DOMAIN s : t[i] = s[i]
  BY <1>3, <1>4, <1>6
<1> QED BY <1>9, <1>10 DEF t

(* A request goes on, or nobody waits for its answer any more. *)
GoesOn(r) ==
    \/ wire' = wire \ {r}
    \/ \E s : /\ wire' = (wire \ {r}) \cup {s}
             /\ s.kind = r.kind /\ s.mount = r.mount /\ s.key = r.key
             /\ DOMAIN s = RequestFields

(* A request that goes on keeps everything but its phase and whether it is awaited. *)
LEMMA RequestGoesOn ==
    ASSUME WireTypes, NEW r \in wire,
           Taken(r) \/ Refused(r) \/ Becomes(r, "read") \/ GivenUp(r)
    PROVE  GoesOn(r)
<1>1. DOMAIN r = RequestFields
  BY DEF WireTypes
<1>2. ASSUME NEW s, wire' = (wire \ {r}) \cup {s},
             s = [r EXCEPT !.awaited = FALSE] \/ \E phase : s = [r EXCEPT !.phase = phase]
      PROVE  GoesOn(r)
  <2>1. /\ s.kind = r.kind /\ s.mount = r.mount /\ s.key = r.key
        /\ DOMAIN s = RequestFields
    BY <1>1, <1>2 DEF RequestFields
  <2> QED BY <1>2, <2>1 DEF GoesOn
<1>3. ASSUME NEW phase, Becomes(r, phase)
      PROVE  GoesOn(r)
  BY <1>2, <1>3 DEF Becomes
<1>4. ASSUME wire' = wire \ {r}
      PROVE  GoesOn(r)
  BY <1>4 DEF GoesOn
<1>5. CASE Taken(r) \/ Refused(r)
  BY <1>3, <1>4, <1>5 DEF Taken, Refused
<1>6. CASE GivenUp(r)
  BY <1>2, <1>4, <1>6 DEF GivenUp
<1> QED BY <1>3, <1>5, <1>6

(* The steps of a request keep the types of the requests. *)
LEMMA WireStep ==
    ASSUME WireTypes, [Next]_vars
    PROVE  WireTypes'
<1>1. ASSUME wire' \subseteq wire
      PROVE  WireTypes'
  BY <1>1 DEF WireTypes
<1>2. ASSUME NEW r \in wire, GoesOn(r)
      PROVE  WireTypes'
  BY <1>2 DEF GoesOn, WireTypes
<1>3. ASSUME NEW kind, NEW key, NEW bet, NEW mount, NEW stake, NEW quote,
             wire' = wire \cup {Request(kind, key, bet, mount, stake, quote)}
      PROVE  WireTypes'
  BY <1>3 DEF WireTypes, Request, RequestFields
<1>4. CASE UNCHANGED wire
  BY <1>1, <1>4
<1>5. CASE ClickBet
  <2>1. PICK key, stake, quote :
           wire' = wire \cup {Request("bet", key, 0, slip.mount, stake, quote)}
    BY <1>5 DEF ClickBet
  <2> QED BY <2>1, <1>3
<1>6. CASE \E b \in Bets : ClickCashout(b)
  <2>1. PICK b, key, quote : wire' = wire \cup {Request("cashout", key, b, 0, 0, quote)}
    BY <1>6 DEF ClickCashout
  <2> QED BY <2>1, <1>3
<1>7. CASE \E r \in wire : ServeBet(r) \/ CashoutReads(r) \/ CashoutCommits(r)
  <2>1. PICK r \in wire : ServeBet(r) \/ CashoutReads(r) \/ CashoutCommits(r)
    BY <1>7
  <2>2. Taken(r) \/ Refused(r) \/ Becomes(r, "read")
    BY <2>1 DEF ServeBet, CashoutReads, CashoutCommits
  <2> QED BY <1>2, <2>2, RequestGoesOn
<1>8. CASE \E r \in wire : \/ BetAnswered(r) \/ BetFails(r)
                           \/ CashoutAnswered(r) \/ CashoutFails(r)
  <2>1. PICK r \in wire : \/ BetAnswered(r) \/ BetFails(r)
                         \/ CashoutAnswered(r) \/ CashoutFails(r)
    BY <1>8
  <2>2. wire' = wire \ {r} \/ GivenUp(r)
    BY <2>1 DEF BetAnswered, BetFails, CashoutAnswered, CashoutFails
  <2> QED BY <1>1, <1>2, <2>2, RequestGoesOn
<1>9. CASE \/ UNCHANGED vars
           \/ \E q \in Lists : Serve(q) \/ FetchDone(q) \/ FetchFails(q)
           \/ \E p \in Lists \cup {"home"} : Visit(p)
           \/ OpenBet \/ Resize \/ CloseModal \/ Blur
           \/ \E raw \in Raws : Type(raw)
           \/ \E b \in Bets : FirstClick(b)
           \/ OtherTrades \/ PauseMarket \/ ResumeMarket \/ PushMarket \/ PushBalance
           \/ \E status \in Results : Resolve(status)
  <2>1. UNCHANGED wire
    BY <1>9 DEF vars, Serve, FetchDone, FetchFails, Visit, OpenBet, Resize, CloseModal, Blur, Type,
       FirstClick, OtherTrades, PauseMarket, ResumeMarket, PushMarket, PushBalance, Resolve
  <2> QED BY <1>4, <2>1
<1> QED BY <1>5, <1>6, <1>7, <1>8, <1>9 DEF Next

-----------------------------------------------------------------------------
(* The slip. *)

(* Nothing new is sent, and the slip that is open is the same or a new one. *)
LEMMA NothingSent ==
    ASSUME moves \in Nat, moves' \in {moves, moves + 1}, OneKey, Sends' \subseteq Sends,
           \/ slip'.mount = slip.mount /\ slip'.key = slip.key
           \/ slip'.mount \in {0, moves + 1}
    PROVE  OneKey'
<1>1. Sends \subseteq (1 .. moves) \X (Nat \ {0})
  BY DEF OneKey
<1>2. 1 .. moves \subseteq 1 .. moves'
  OBVIOUS
<1>3. Sends' \subseteq (1 .. moves') \X (Nat \ {0})
  BY <1>1, <1>2
<1>4. \A s, t \in Sends' : s[1] = t[1] => s[2] = t[2]
  BY DEF OneKey
<1>5. ASSUME NEW s \in Sends', s[1] = slip'.mount
      PROVE  s[2] = slip'.key
  <2>1. s \in Sends /\ s[1] \in 1 .. moves
    BY <1>1
  <2>2. slip'.mount \notin {0, moves + 1}
    BY <1>5, <2>1
  <2> QED BY <1>5, <2>1, <2>2 DEF OneKey
<1> QED BY <1>3, <1>4, <1>5 DEF OneKey

(* Whatever the list does, the cards stay cards. *)
LEMMA CardsStep ==
    ASSUME SlipInv, [Next]_vars
    PROVE  CardTypes' /\ keys' \in Nat
<1> DEFINE Card == [clicked : BOOLEAN, key : Nat, pending : BOOLEAN]
<1>0. cards \in [Bets -> Card] /\ keys \in Nat /\ slip.key \in Nat
  BY DEF SlipInv, CardTypes, SlipTypes
<1>1. NoCard \in Card /\ NoCards \in [Bets -> Card]
  BY DEF NoCard, NoCards
<1>2. ASSUME NEW held \in Nat
      PROVE  KeyOf(held) \in Nat \ {0} /\ (Drawn(KeyOf(held)) => keys' \in Nat)
  BY <1>0, <1>2 DEF KeyOf, Drawn
<1> HIDE DEF Card
<1>3. CASE UNCHANGED <<cards, keys>>
  BY <1>0, <1>3 DEF CardTypes, Card
<1>4. CASE cards' = NoCards /\ UNCHANGED keys
  BY <1>0, <1>1, <1>4 DEF CardTypes, Card
<1>5. CASE \E q \in Lists : FetchDone(q)
  <2>1. PICK q \in Lists : FetchDone(q)
    BY <1>5
  <2>2. cards' = Remounted(q, cache'[q]) /\ keys' = keys
    BY <2>1 DEF FetchDone
  <2>3. ASSUME NEW c
        PROVE  Remounted(q, c) \in [Bets -> Card]
    <3>1. [b \in Bets |-> IF <<b, "active">> \in c.data[1] THEN cards[b] ELSE NoCard] \in [Bets -> Card]
      BY <1>0, <1>1
    <3>2. CASE q # page
      BY <1>0, <3>2 DEF Remounted
    <3>3. CASE q = page /\ page = "market"
      BY <3>1, <3>3 DEF Remounted
    <3>4. CASE q = page /\ page # "market"
      BY <1>0, <1>1, <3>4 DEF Remounted
    <3> QED BY <3>2, <3>3, <3>4
  <2> QED BY <1>0, <2>2, <2>3 DEF CardTypes, Card
<1>6. CASE \E b \in Bets : FirstClick(b) \/ ClickCashout(b)
  <2>1. PICK b \in Bets : FirstClick(b) \/ ClickCashout(b)
    BY <1>6
  <2>2. CASE FirstClick(b)
    <3>1. cards' = [cards EXCEPT ![b].clicked = TRUE] /\ keys' = keys
      BY <2>2 DEF FirstClick
    <3> QED BY <1>0, <3>1 DEF CardTypes, Card
  <2>3. CASE ClickCashout(b)
    <3> DEFINE key == KeyOf(cards[b].key)
    <3>1. cards[b].key \in Nat
      BY <1>0 DEF Card
    <3>2. cards' = [cards EXCEPT ![b].key = key, ![b].pending = TRUE] /\ Drawn(key)
      BY <2>3 DEF ClickCashout
    <3>3. key \in Nat /\ keys' \in Nat
      BY <1>2, <3>1, <3>2
    <3> HIDE DEF key
    <3> QED BY <1>0, <3>2, <3>3 DEF CardTypes, Card
  <2> QED BY <2>1, <2>2, <2>3
<1>7. CASE \E r \in wire : CashoutAnswered(r) \/ CashoutFails(r)
  <2>1. PICK r \in wire : CashoutAnswered(r) \/ CashoutFails(r)
    BY <1>7
  <2>2. cards' = Released(r) /\ keys' = keys
    BY <2>1 DEF CashoutAnswered, CashoutFails
  <2>3. [cards EXCEPT ![r.bet].pending = FALSE] \in [Bets -> Card]
    BY <1>0 DEF Card
  <2> QED BY <1>0, <2>2, <2>3 DEF Released, CardTypes, Card
<1>8. CASE ClickBet
  <2>1. cards' = cards /\ Drawn(KeyOf(slip.key))
    BY <1>8 DEF ClickBet
  <2> QED BY <1>0, <1>2, <2>1 DEF CardTypes, Card
<1>9. CASE \/ \E q \in Lists : FetchFails(q)
           \/ \E p \in Lists \cup {"home"} : Visit(p)
  BY <1>3, <1>4, <1>9 DEF FetchFails, Visit
<1>10. CASE \/ UNCHANGED vars
            \/ \E q \in Lists : Serve(q)
            \/ OpenBet \/ Resize \/ CloseModal \/ Blur
            \/ \E raw \in Raws : Type(raw)
            \/ \E r \in wire : \/ ServeBet(r) \/ BetAnswered(r) \/ BetFails(r)
                               \/ CashoutReads(r) \/ CashoutCommits(r)
            \/ OtherTrades \/ PauseMarket \/ ResumeMarket \/ PushMarket \/ PushBalance
            \/ \E status \in Results : Resolve(status)
  <2>1. UNCHANGED <<cards, keys>>
    BY <1>10 DEF vars, Serve, OpenBet, Resize, CloseModal, Blur, Type, ServeBet, BetAnswered, BetFails,
       CashoutReads, CashoutCommits, OtherTrades, PauseMarket, ResumeMarket, PushMarket, PushBalance, Resolve
  <2> QED BY <1>3, <2>1
<1> QED BY <1>5, <1>6, <1>7, <1>8, <1>9, <1>10 DEF Next

(* The clicks and the typing in the slip, but for the button that bets. *)
LEMMA EditStep ==
    ASSUME SlipInv, OpenBet \/ Resize \/ CloseModal \/ Blur \/ \E raw \in Raws : Type(raw)
    PROVE  moves' \in Nat /\ bets' = bets /\ SlipTypes' /\ OneKey'
<1>0. /\ DOMAIN slip = {"mount", "text", "amount", "key", "pending", "success"}
      /\ slip.mount \in 0 .. moves /\ slip.key \in Nat /\ moves \in Nat /\ OneKey
  BY DEF SlipInv, SlipTypes
<1>1. /\ DOMAIN Closed = {"mount", "text", "amount", "key", "pending", "success"}
      /\ Closed.mount = 0 /\ Closed.key = 0
  BY DEF Closed
<1>2. bets' = bets /\ wire' = wire
  BY DEF OpenBet, Resize, CloseModal, Blur, Type, server
<1>3. Sends' = Sends
  BY <1>2 DEF Sends
<1>4. CASE OpenBet \/ Resize
  <2>1. slip' = [Closed EXCEPT !.mount = moves'] /\ moves' = moves + 1
    BY <1>4 DEF OpenBet, Resize, Move
  <2>2. /\ DOMAIN slip' = {"mount", "text", "amount", "key", "pending", "success"}
        /\ slip'.mount = moves + 1 /\ slip'.key = 0
    BY <1>1, <2>1
  <2>3. SlipTypes' /\ moves' \in Nat
    BY <1>0, <2>1, <2>2 DEF SlipTypes
  <2> QED BY <1>0, <1>2, <1>3, <2>1, <2>2, <2>3, NothingSent
<1>5. CASE CloseModal
  <2>1. slip' = Closed /\ moves' = moves
    BY <1>5 DEF CloseModal, bounds
  <2>2. SlipTypes'
    BY <1>0, <1>1, <2>1 DEF SlipTypes
  <2> QED BY <1>0, <1>1, <1>2, <1>3, <2>1, <2>2, NothingSent
<1>6. CASE Blur \/ \E raw \in Raws : Type(raw)
  <2>1. /\ \E text, amount : \/ slip' = [slip EXCEPT !.text = text]
                             \/ slip' = [slip EXCEPT !.text = text, !.amount = amount]
        /\ moves' = moves
    BY <1>6 DEF Blur, Type, bounds
  <2>2. /\ DOMAIN slip' = {"mount", "text", "amount", "key", "pending", "success"}
        /\ slip'.mount = slip.mount /\ slip'.key = slip.key
    BY <1>0, <2>1
  <2>3. SlipTypes'
    BY <1>0, <2>1, <2>2 DEF SlipTypes
  <2> QED BY <1>0, <1>2, <1>3, <2>1, <2>2, <2>3, NothingSent
<1> QED BY <1>4, <1>5, <1>6

(* The button sends the key of the slip, which is drawn at the first click. *)
LEMMA ClickStep ==
    ASSUME SlipInv, ClickBet
    PROVE  moves' \in Nat /\ bets' = bets /\ SlipTypes' /\ OneKey'
<1> DEFINE key == KeyOf(slip.key)
<1>0. /\ DOMAIN slip = {"mount", "text", "amount", "key", "pending", "success"}
      /\ slip.mount \in 0 .. moves /\ slip.key \in Nat /\ moves \in Nat /\ keys \in Nat /\ OneKey
  BY DEF SlipInv, SlipTypes
<1>1. PICK stake, quote : wire' = wire \cup {Request("bet", key, 0, slip.mount, stake, quote)}
  BY DEF ClickBet
<1>2. /\ slip' = [slip EXCEPT !.text = CommitRound(@), !.key = key, !.pending = TRUE]
      /\ slip.mount # 0 /\ moves' = moves /\ bets' = bets
  BY DEF ClickBet, Event, server
<1>3. key \in Nat \ {0} /\ (slip.key # 0 => key = slip.key)
  BY <1>0 DEF KeyOf
<1> HIDE DEF key
<1>4. /\ DOMAIN slip' = {"mount", "text", "amount", "key", "pending", "success"}
      /\ slip'.mount = slip.mount /\ slip'.key = key
  BY <1>0, <1>2
<1>5. SlipTypes'
  BY <1>0, <1>2, <1>3, <1>4 DEF SlipTypes
<1> DEFINE r == Request("bet", key, 0, slip.mount, stake, quote)
           new == <<slip.mount, key>>
<1>6. r.kind = "bet" /\ r.mount = slip.mount /\ r.key = key
  BY DEF Request
<1> HIDE DEF r
<1>7. Sends' = Sends \cup {new}
  BY <1>1, <1>2, <1>6 DEF Sends, r
<1>8. Sends \subseteq (1 .. moves) \X (Nat \ {0}) /\ slip.mount \in 1 .. moves
  BY <1>0, <1>2 DEF OneKey
<1>9. \A s \in Sends : s[1] = slip.mount => s[2] = key
  <2> SUFFICES ASSUME NEW s \in Sends, s[1] = slip.mount
               PROVE  s[2] = key
    OBVIOUS
  <2>1. s[2] = slip.key /\ s[2] \in Nat \ {0}
    BY <1>0, <1>8 DEF OneKey
  <2> QED BY <1>3, <2>1
<1>10. Sends' \subseteq (1 .. moves') \X (Nat \ {0})
  BY <1>2, <1>3, <1>7, <1>8
<1>11. new[1] = slip.mount /\ new[2] = key
  OBVIOUS
<1> HIDE DEF new
<1>12. \A s, t \in Sends' : s[1] = t[1] => s[2] = t[2]
  <2>1. \A s, t \in Sends : s[1] = t[1] => s[2] = t[2]
    BY <1>0 DEF OneKey
  <2> QED BY <1>7, <1>9, <1>11, <2>1
<1>13. \A s \in Sends' : s[1] = slip'.mount => s[2] = slip'.key
  BY <1>4, <1>7, <1>9, <1>11
<1>14. OneKey'
  BY <1>10, <1>12, <1>13 DEF OneKey
<1> QED BY <1>0, <1>2, <1>5, <1>14

(* The server takes the bet, or refuses it: a bet that is inserted was sent before, and no
   bet has its key. *)
LEMMA ServeStep ==
    ASSUME SlipInv, NEW r \in wire, ServeBet(r)
    PROVE  IsSequence(bets') /\ BetPerKey' /\ Sends' \subseteq Sends
<1>0. WireTypes /\ IsSequence(bets) /\ BetPerKey
  BY DEF SlipInv
<1>1. r.kind = "bet" /\ (Taken(r) \/ Refused(r))
  BY DEF ServeBet
<1>2. GoesOn(r)
  BY <1>0, <1>1, RequestGoesOn
<1>3. \A q \in wire' : q.kind = "bet" => <<q.mount, q.key>> \in Sends
  BY <1>1, <1>2 DEF Sends, GoesOn
<1>4. \A i \in DOMAIN bets : <<bets[i].mount, bets[i].key>> \in Sends
  BY DEF Sends
<1>5. CASE bets' = bets
  <2>1. Sends' \subseteq Sends
    BY <1>3, <1>4, <1>5 DEF Sends
  <2> QED BY <1>0, <1>5, <2>1 DEF BetPerKey
<1>6. CASE bets' # bets
  <2>1. PICK x : bets' = Append(bets, x) /\ x.key = r.key /\ x.mount = r.mount /\ ~ Used(r.key)
    BY <1>6 DEF ServeBet
  <2>2. /\ IsSequence(bets')
        /\ \E n : /\ n \notin DOMAIN bets /\ DOMAIN bets' = DOMAIN bets \cup {n}
                  /\ bets'[n] = x /\ \A i \in DOMAIN bets : bets'[i] = bets[i]
    BY <1>0, <2>1, AppendRow
  <2>3. PICK n : /\ DOMAIN bets' = DOMAIN bets \cup {n} /\ n \notin DOMAIN bets
                 /\ bets'[n] = x /\ \A i \in DOMAIN bets : bets'[i] = bets[i]
    BY <2>2
  <2>4. \A i \in DOMAIN bets : bets[i].key # x.key
    BY <2>1 DEF Used
  <2>5. BetPerKey'
    BY <1>0, <2>3, <2>4 DEF BetPerKey
  <2>6. <<x.mount, x.key>> \in Sends
    BY <1>1, <2>1 DEF Sends
  <2>7. \A i \in DOMAIN bets' : <<bets'[i].mount, bets'[i].key>> \in Sends
    BY <1>4, <2>3, <2>6
  <2>8. Sends' \subseteq Sends
    BY <1>3, <2>7 DEF Sends
  <2> QED BY <2>2, <2>5, <2>8
<1> QED BY <1>5, <1>6

(* Every step keeps one key per mount and one bet per key. *)
LEMMA SlipStep == SlipInv /\ [Next]_vars => SlipInv'
<1> SUFFICES ASSUME SlipInv, [Next]_vars
             PROVE  SlipInv'
  OBVIOUS
<1>0. /\ moves \in Nat /\ IsSequence(bets) /\ WireTypes /\ SlipTypes /\ OneKey /\ BetPerKey
  BY DEF SlipInv
<1>1. WireTypes' /\ CardTypes' /\ keys' \in Nat
  BY <1>0, WireStep, CardsStep
<1>2. ASSUME moves' \in Nat, bets' = bets, SlipTypes', OneKey'
      PROVE  SlipInv'
  BY <1>0, <1>1, <1>2 DEF SlipInv, BetPerKey
<1>3. ASSUME Sends' \subseteq Sends, moves' \in {moves, moves + 1}, IsSequence(bets'), BetPerKey',
             DOMAIN slip' = DOMAIN slip, slip'.mount = slip.mount, slip'.key = slip.key
      PROVE  SlipInv'
  <2>1. SlipTypes' /\ moves' \in Nat
    BY <1>0, <1>3 DEF SlipTypes
  <2>2. OneKey'
    BY <1>0, <1>3, NothingSent
  <2> QED BY <1>1, <1>3, <2>1, <2>2 DEF SlipInv
<1>4. CASE OpenBet \/ Resize \/ CloseModal \/ Blur \/ \E raw \in Raws : Type(raw)
  BY <1>2, <1>4, EditStep
<1>5. CASE ClickBet
  BY <1>2, <1>5, ClickStep
<1>6. CASE \E r \in wire : ServeBet(r)
  <2>1. PICK r \in wire : ServeBet(r)
    BY <1>6
  <2>2. slip' = slip /\ moves' = moves
    BY <2>1 DEF ServeBet, bounds
  <2> QED BY <1>3, <2>1, <2>2, ServeStep
<1>7. CASE \E r \in wire : BetAnswered(r) \/ BetFails(r) \/ CashoutAnswered(r) \/ CashoutFails(r)
  <2>1. PICK r \in wire : BetAnswered(r) \/ BetFails(r) \/ CashoutAnswered(r) \/ CashoutFails(r)
    BY <1>7
  <2>2. (wire' = wire \ {r} \/ GivenUp(r)) /\ bets' = bets /\ moves' = moves
    BY <2>1 DEF BetAnswered, BetFails, CashoutAnswered, CashoutFails, server, bounds, GivenUp,
       Event
  <2>3. \/ slip' = slip \/ slip' = [slip EXCEPT !.pending = FALSE]
        \/ slip' = [slip EXCEPT !.pending = FALSE, !.success = TRUE]
    BY <2>1 DEF BetAnswered, BetFails, CashoutAnswered, CashoutFails
  <2>4. DOMAIN slip' = DOMAIN slip /\ slip'.mount = slip.mount /\ slip'.key = slip.key
    BY <1>0, <2>3 DEF SlipTypes
  <2>5. GoesOn(r)
    BY <1>0, <2>2, RequestGoesOn DEF GoesOn
  <2>6. \A q \in wire' : q.kind = "bet" => <<q.mount, q.key>> \in Sends
    BY <2>5 DEF Sends, GoesOn
  <2>7. Sends' \subseteq Sends
    BY <2>2, <2>6 DEF Sends
  <2> QED BY <1>0, <1>3, <2>2, <2>4, <2>7 DEF BetPerKey
<1>8. CASE \E r \in wire : CashoutReads(r) \/ CashoutCommits(r)
  <2>1. PICK r \in wire : CashoutReads(r) \/ CashoutCommits(r)
    BY <1>8
  <2>2. /\ r.kind = "cashout" /\ bets' = bets /\ slip' = slip /\ moves' = moves
        /\ Becomes(r, "read") \/ Refused(r) \/ Taken(r)
    BY <2>1 DEF CashoutReads, CashoutCommits, server, bounds
  <2>3. GoesOn(r)
    BY <1>0, <2>2, RequestGoesOn
  <2>4. Sends' \subseteq Sends
    BY <2>2, <2>3 DEF Sends, GoesOn
  <2> QED BY <1>0, <1>3, <2>2, <2>4 DEF BetPerKey
<1>9. CASE \E b \in Bets : ClickCashout(b)
  <2>1. PICK b \in Bets : ClickCashout(b)
    BY <1>9
  <2>2. bets' = bets /\ slip' = slip /\ moves' = moves
    BY <2>1 DEF ClickCashout, server, Event
  <2>3. PICK s : wire' = wire \cup {s} /\ s.kind = "cashout"
    <3>1. PICK key, quote : wire' = wire \cup {Request("cashout", key, b, 0, 0, quote)}
      BY <2>1 DEF ClickCashout
    <3>2. Request("cashout", key, b, 0, 0, quote).kind = "cashout"
      BY DEF Request
    <3> QED BY <3>1, <3>2
  <2>4. Sends' \subseteq Sends
    BY <2>2, <2>3 DEF Sends
  <2> QED BY <1>0, <1>3, <2>2, <2>4 DEF BetPerKey
<1>10. CASE \/ UNCHANGED vars
            \/ \E q \in Lists : Serve(q) \/ FetchDone(q) \/ FetchFails(q)
            \/ \E p \in Lists \cup {"home"} : Visit(p)
            \/ \E b \in Bets : FirstClick(b)
            \/ OtherTrades \/ PauseMarket \/ ResumeMarket \/ PushMarket \/ PushBalance
            \/ \E status \in Results : Resolve(status)
  <2>1. UNCHANGED <<bets, wire, slip>>
    BY <1>10 DEF vars, server, Serve, FetchDone, FetchFails, Visit,
       FirstClick, OtherTrades, PauseMarket, ResumeMarket, PushMarket, PushBalance, Resolve
  <2>2. UNCHANGED moves \/ Move
    BY <1>10 DEF vars, bounds, Event, Serve, FetchDone, FetchFails, Visit,
       FirstClick, OtherTrades, PauseMarket, ResumeMarket, PushMarket, PushBalance, Resolve
  <2>3. moves' \in {moves, moves + 1}
    BY <2>2 DEF Move
  <2>4. Sends' = Sends
    BY <2>1 DEF Sends
  <2> QED BY <1>0, <1>3, <2>1, <2>3, <2>4 DEF BetPerKey
<1> QED BY <1>4, <1>5, <1>6, <1>7, <1>8, <1>9, <1>10 DEF Next

(* Nothing was sent yet. *)
LEMMA SlipInit == Init => SlipInv
<1> SUFFICES ASSUME Init
             PROVE  SlipInv
  OBVIOUS
<1>1. bets = <<>> /\ wire = {} /\ slip = Closed /\ cards = NoCards /\ keys = 0 /\ moves = 0
  BY DEF Init
<1>2. IsSequence(bets) /\ DOMAIN bets = {}
  BY <1>1 DEF IsSequence
<1>3. Sends = {}
  BY <1>1, <1>2 DEF Sends
<1>4. OneKey /\ BetPerKey /\ WireTypes
  BY <1>1, <1>2, <1>3 DEF OneKey, BetPerKey, WireTypes
<1>5. SlipTypes
  BY <1>1 DEF SlipTypes, Closed
<1>6. CardTypes
  BY <1>1 DEF CardTypes, NoCards, NoCard
<1> QED BY <1>1, <1>2, <1>4, <1>5, <1>6 DEF SlipInv

(* BetModal.tsx 27, 121-129, transactions.go 196-230: a mount of the slip places at most one
   bet, however often its button is clicked again after refusals, lost answers, and requests
   that were given up and reach the server later. *)
THEOREM BetPlacedOnce == Spec => []OneBetPerMount
<1>1. SlipInv => OneBetPerMount
  <2> SUFFICES ASSUME SlipInv, NEW i \in DOMAIN bets, NEW j \in DOMAIN bets,
                      bets[i].mount = bets[j].mount
               PROVE  i = j
    BY DEF OneBetPerMount
  <2>1. <<bets[i].mount, bets[i].key>> \in Sends /\ <<bets[j].mount, bets[j].key>> \in Sends
    BY DEF Sends
  <2>2. bets[i].key = bets[j].key
    BY <2>1 DEF SlipInv, OneKey
  <2> QED BY <2>2 DEF SlipInv, BetPerKey
<1> QED BY <1>1, SlipInit, SlipStep, PTL DEF Spec

-----------------------------------------------------------------------------
(* The lists. *)

(* An entry that shows and brings nothing that would have to be true. *)
Vacant(c) == c.phase # "served" /\ ~(c.phase = "idle" /\ c.data # <<>> /\ ~c.invalid)

(* The operations make entries of entries. *)
LEMMA EntryOps ==
    ASSUME NEW c, Entry(c), NEW stale, NEW observed
    PROVE  /\ Entry(Answered(c)) /\ Answered(c).data = c.answer /\ Answered(c).phase = "idle"
           /\ Entry(Failed(c)) /\ Entry(Mounted(c, stale))
           /\ Mounted(c, stale) = c \/ Vacant(Mounted(c, stale))
           /\ Entry(Invalidated(c, observed))
           /\ Restarts(c, observed) \/ c.phase # "served" => Vacant(Invalidated(c, observed))
           /\ Entry(NoEntry) /\ Vacant(NoEntry)
<1>1. Entry(NoEntry) /\ Vacant(NoEntry)
  BY DEF Entry, Vacant, NoEntry
<1>2. ASSUME NEW d, Entry(d)
      PROVE  Entry(Fetching(d)) /\ Vacant(Fetching(d)) /\ Entry(Marked(d))
             /\ Marked(d).phase = d.phase /\ Marked(d).invalid
  BY <1>2 DEF Entry, Vacant, Fetching, Marked
<1>3. Entry(Answered(c)) /\ Answered(c).data = c.answer /\ Answered(c).phase = "idle"
  BY DEF Entry, Answered, NoEntry
<1>4. Entry(Failed(c))
  BY DEF Entry, Failed
<1>5. Entry(Mounted(c, stale)) /\ (Mounted(c, stale) = c \/ Vacant(Mounted(c, stale)))
  BY <1>2 DEF Mounted
<1>6. Entry(Invalidated(c, observed))
  BY <1>2 DEF Invalidated
<1>7. ASSUME Restarts(c, observed) \/ c.phase # "served"
      PROVE  Vacant(Invalidated(c, observed))
  <2>1. CASE Restarts(c, observed)
    BY <1>2, <2>1 DEF Invalidated
  <2>2. CASE ~Restarts(c, observed) /\ c.phase # "served"
    BY <1>2, <2>2 DEF Invalidated, Vacant
  <2> QED BY <1>7, <2>1, <2>2
<1> QED BY <1>1, <1>3, <1>4, <1>5, <1>6, <1>7

(* What the server would answer changes with the bets, the cashouts and the status, but
   for a pause. *)
SameStatus == \/ market'.status = market.status
              \/ {market'.status, market.status} \subseteq {"opened", "paused"}
LEMMA SameAnswer ==
    ASSUME UNCHANGED <<bets, cashouts>>, SameStatus
    PROVE  \A q : Answer(q)' = Answer(q)
<1>1. \A b : Cashed(b)' <=> Cashed(b)
  BY DEF Cashed
<1>2. \A b : Status(b)' = Status(b)
  BY <1>1 DEF Status, SameStatus
<1>3. \A q : Listed(q)' = Listed(q)
  BY <1>2 DEF Listed
<1>4. \A b : EventAt(b)' = EventAt(b)
  BY <1>1 DEF EventAt
<1>5. \A q, b, c : Precedes(q, b, c)' <=> Precedes(q, b, c)
  BY <1>4 DEF Precedes
<1> QED BY <1>2, <1>3, <1>5 DEF Answer

(* After the tab was told, every list is fetched again, or marked, or counted. *)
LEMMA InvalidateVacates ==
    ASSUME ListTypes, InvalidateAll
    PROVE  /\ cache' = [q \in Lists |-> cache'[q]]
           /\ \A q \in Lists : Entry(cache'[q]) /\ (q \notin missed' => Vacant(cache'[q]))
<1>1. /\ cache' = [q \in Lists |-> IF q \in Lists THEN Invalidated(cache[q], q = page)
                                   ELSE cache[q]]
      /\ missed' = missed \cup
             {q \in Lists : ~Restarts(cache[q], q = page) /\ cache[q].phase = "served"}
  BY DEF InvalidateAll, InvalidateUserBets
<1>2. cache' = [q \in Lists |-> cache'[q]] /\ \A q \in Lists : cache'[q] = Invalidated(cache[q], q = page)
  BY <1>1
<1>3. ASSUME NEW q \in Lists
      PROVE  Entry(cache'[q]) /\ (q \notin missed' => Vacant(cache'[q]))
  <2>1. Entry(cache[q])
    BY DEF ListTypes
  <2>2. q \notin missed' => Restarts(cache[q], q = page) \/ cache[q].phase # "served"
    BY <1>1
  <2> QED BY <1>2, <2>1, <2>2, EntryOps
<1> QED BY <1>2, <1>3

(* The tab does nothing to the lists, and the server nothing that it has not been told. *)
LEMMA ListsStay ==
    ASSUME ListsInv, WireTypes', UNCHANGED <<bets, cashouts, cache>>, missed' = missed,
           SameStatus, DOMAIN market' = {"level", "status"},
           Quiet' => Quiet
    PROVE  ListsInv'
<1>1. \A q : Answer(q)' = Answer(q)
  BY SameAnswer
<1>2. \A q \in Lists : Good(cache[q], q) => Good(cache[q], q)'
  BY <1>1 DEF Good
<1>3. ListTypes'
  BY DEF ListsInv, ListTypes
<1> QED BY <1>2, <1>3 DEF ListsInv

(* Loads, their answers and failures, and the page that is visited. *)
LEMMA LoadStep ==
    ASSUME ListsInv, WireTypes',
           \/ \E q \in Lists : Serve(q) \/ FetchDone(q) \/ FetchFails(q)
           \/ \E p \in Lists \cup {"home"} : Visit(p)
    PROVE  ListsInv'
<1>0. /\ cache = [q \in Lists |-> cache[q]] /\ DOMAIN market = {"level", "status"}
      /\ \A q \in Lists : Entry(cache[q])
  BY DEF ListsInv, ListTypes
<1>1. UNCHANGED <<bets, cashouts, market, wire>>
  BY DEF Serve, FetchDone, FetchFails, Visit, server
<1>2. \A q : Answer(q)' = Answer(q)
  BY <1>1, SameAnswer DEF SameStatus
<1>3. Quiet' <=> Quiet
  BY <1>1 DEF Quiet
<1>4. ASSUME NEW q \in Lists, NEW c, Entry(c), cache' = [cache EXCEPT ![q] = c],
             \A p \in Lists : p # q /\ p \notin missed' => p \notin missed,
             Quiet /\ q \notin missed' => Good(c, q)
      PROVE  ListsInv'
  <2>1. cache' = [p \in Lists |-> IF p = q THEN c ELSE cache[p]]
    BY <1>0, <1>4
  <2>2. cache' = [p \in Lists |-> cache'[p]] /\ cache'[q] = c /\ \A p \in Lists \ {q} : cache'[p] = cache[p]
    BY <2>1
  <2>3. ListTypes'
    BY <1>0, <1>1, <1>4, <2>2 DEF ListTypes
  <2>4. ASSUME Quiet, NEW p \in Lists, p \notin missed'
        PROVE  Good(cache'[p], p)
    <3>1. CASE p = q
      BY <1>4, <2>2, <2>4, <3>1
    <3>2. CASE p # q
      BY <1>4, <2>2, <2>4, <3>2 DEF ListsInv
    <3> QED BY <3>1, <3>2
  <2>5. ASSUME Quiet', NEW p \in Lists, p \notin missed'
        PROVE  Good(cache[p], p)'
    BY <1>2, <1>3, <2>4, <2>5 DEF Good
  <2> QED BY <2>3, <2>5 DEF ListsInv
<1>5. CASE \E q \in Lists : Serve(q)
  <2>1. PICK q \in Lists : Serve(q)
    BY <1>5
  <2> DEFINE c == [cache[q] EXCEPT !.phase = "served", !.answer = <<Answer(q)>>]
  <2>2. cache' = [cache EXCEPT ![q] = c] /\ missed' = missed \ {q}
    BY <2>1 DEF Serve
  <2>3. Entry(c) /\ Good(c, q)
    BY <1>0 DEF Entry, Good
  <2> HIDE DEF c
  <2> QED BY <1>4, <2>2, <2>3
<1>6. CASE \E q \in Lists : FetchDone(q)
  <2>1. PICK q \in Lists : FetchDone(q)
    BY <1>6
  <2> DEFINE c == Answered(cache[q])
  <2>2. cache' = [cache EXCEPT ![q] = c] /\ missed' = missed /\ cache[q].phase = "served"
    BY <2>1 DEF FetchDone
  <2>3. Entry(c) /\ c.data = cache[q].answer /\ c.phase = "idle"
    BY <1>0, EntryOps
  <2> HIDE DEF c
  <2>4. ASSUME Quiet, q \notin missed
        PROVE  Good(c, q)
    <3>1. Good(cache[q], q)
      BY <2>4 DEF ListsInv
    <3> QED BY <2>2, <2>3, <3>1 DEF Good
  <2> QED BY <1>4, <2>2, <2>3, <2>4
<1>7. CASE \E q \in Lists : FetchFails(q)
  <2>1. PICK q \in Lists : FetchFails(q)
    BY <1>7
  <2> DEFINE c == Failed(cache[q])
  <2>2. cache' = [cache EXCEPT ![q] = c] /\ missed' = missed \cup {q}
    BY <2>1 DEF FetchFails
  <2>3. Entry(c)
    BY <1>0, EntryOps
  <2> HIDE DEF c
  <2> QED BY <1>4, <2>2, <2>3
<1>8. CASE \E p \in Lists \cup {"home"} : Visit(p)
  <2>1. PICK p \in Lists \cup {"home"}, old \in BOOLEAN :
           cache' = [q \in Lists |-> IF q = p THEN Mounted(cache[q], old) ELSE cache[q]]
    BY <1>8 DEF Visit
  <2>2. missed' = missed
    BY <1>8 DEF Visit
  <2>3. cache' = [q \in Lists |-> cache'[q]]
    BY <2>1
  <2>4. ASSUME NEW q \in Lists
        PROVE  Entry(cache'[q]) /\ (cache'[q] = cache[q] \/ Vacant(cache'[q]))
    BY <1>0, <2>1, EntryOps
  <2>5. ListTypes'
    BY <1>0, <1>1, <2>3, <2>4 DEF ListTypes
  <2>6. ASSUME Quiet', NEW q \in Lists, q \notin missed'
        PROVE  Good(cache[q], q)'
    <3>1. Good(cache[q], q)
      BY <1>3, <2>2, <2>6 DEF ListsInv
    <3>2. CASE cache'[q] = cache[q]
      BY <1>2, <3>1, <3>2 DEF Good
    <3>3. CASE Vacant(cache'[q])
      BY <3>3 DEF Good, Vacant
    <3> QED BY <2>4, <3>2, <3>3
  <2> QED BY <2>5, <2>6 DEF ListsInv
<1> QED BY <1>5, <1>6, <1>7, <1>8

(* The answer of a bet or a cashout is handled, or lost. *)
LEMMA ToldStep ==
    ASSUME ListsInv, WireTypes', NEW r \in wire,
           BetAnswered(r) \/ CashoutAnswered(r) \/ BetFails(r) \/ CashoutFails(r)
    PROVE  ListsInv'
<1>0. ListTypes
  BY DEF ListsInv
<1>1. UNCHANGED <<bets, cashouts, market>>
  BY DEF BetAnswered, CashoutAnswered, BetFails, CashoutFails, server
<1>2. CASE BetAnswered(r) \/ CashoutAnswered(r)
  <2>1. InvalidateAll
    BY <1>2 DEF BetAnswered, CashoutAnswered
  <2>2. /\ cache' = [q \in Lists |-> cache'[q]]
        /\ \A q \in Lists : Entry(cache'[q]) /\ (q \notin missed' => Vacant(cache'[q]))
    BY <1>0, <2>1, InvalidateVacates
  <2>3. ListTypes'
    BY <1>0, <1>1, <2>2 DEF ListTypes
  <2>4. \A q \in Lists : q \notin missed' => Good(cache[q], q)'
    BY <2>2 DEF Good, Vacant
  <2> QED BY <2>3, <2>4 DEF ListsInv
<1>3. CASE BetFails(r) \/ CashoutFails(r)
  <2>1. cache' = cache /\ missed' = IF r.phase = "served" THEN Lists ELSE missed
    BY <1>3 DEF BetFails, CashoutFails, GivenUp
  <2>2. CASE r.phase = "served"
    <3>1. ListTypes'
      BY <1>0, <1>1, <2>1 DEF ListTypes
    <3> QED BY <2>1, <2>2, <3>1 DEF ListsInv
  <2>3. CASE r.phase # "served"
    <3>1. wire \ {r} \subseteq wire'
      BY <1>3 DEF BetFails, CashoutFails, GivenUp
    <3>2. Quiet' => Quiet
      BY <2>3, <3>1 DEF Quiet
    <3> QED BY <1>0, <1>1, <2>1, <2>3, <3>2, ListsStay DEF ListTypes, SameStatus
  <2> QED BY <2>2, <2>3
<1> QED BY <1>2, <1>3

(* The server takes or refuses a request; what it took the tab has not been told. *)
LEMMA ServedStep ==
    ASSUME ListsInv, WireTypes', NEW r \in wire,
           ServeBet(r) \/ CashoutReads(r) \/ CashoutCommits(r)
    PROVE  ListsInv'
<1>0. ListTypes /\ WireTypes
  BY DEF ListsInv
<1>1. UNCHANGED cache /\ r.phase \in {"sent", "read"}
  BY DEF ServeBet, CashoutReads, CashoutCommits
<1>2. CASE Taken(r)
  <2>1. ASSUME r.awaited
        PROVE  ~ Quiet'
    <3> DEFINE s == [r EXCEPT !.phase = "served"]
    <3>1. wire' = (wire \ {r}) \cup {s}
      BY <1>2, <2>1 DEF Taken, Becomes
    <3>2. s.phase = "served"
      BY <1>0 DEF WireTypes, RequestFields
    <3> HIDE DEF s
    <3> QED BY <3>1, <3>2 DEF Quiet
  <2>2. ~ Quiet' \/ missed' = Lists
    BY <1>2, <2>1 DEF Taken
  <2>3. DOMAIN market' = {"level", "status"}
    <3>1. market' = market \/ \E level : market' = [market EXCEPT !.level = level]
      BY DEF ServeBet, CashoutReads, CashoutCommits, server
    <3> QED BY <1>0, <3>1 DEF ListTypes
  <2>4. ListTypes'
    BY <1>0, <1>1, <2>3 DEF ListTypes
  <2> QED BY <2>2, <2>4 DEF ListsInv
<1>3. CASE ~ Taken(r)
  <2>1. UNCHANGED <<bets, cashouts, market>>
    BY <1>3 DEF ServeBet, CashoutReads, CashoutCommits, server
  <2>2. Refused(r) \/ (Becomes(r, "read") /\ missed' = missed)
    <3>1. CASE ServeBet(r)
      BY <1>3, <3>1 DEF ServeBet
    <3>2. CASE CashoutReads(r)
      BY <3>2 DEF CashoutReads
    <3>3. CASE CashoutCommits(r)
      BY <1>3, <3>3 DEF CashoutCommits
    <3> QED BY <3>1, <3>2, <3>3
  <2>3. missed' = missed /\ wire \ {r} \subseteq wire'
    BY <2>2 DEF Refused, Becomes
  <2>4. Quiet' => Quiet
    BY <1>1, <2>3 DEF Quiet
  <2> QED BY <1>0, <1>1, <2>1, <2>3, <2>4, ListsStay DEF ListTypes, SameStatus
<1> QED BY <1>2, <1>3

(* Every step keeps the lists truthful. *)
LEMMA ListsStep == ListsInv /\ [Next]_vars => ListsInv'
<1> SUFFICES ASSUME ListsInv, [Next]_vars
             PROVE  ListsInv'
  OBVIOUS
<1>0. ListTypes /\ WireTypes
  BY DEF ListsInv
<1>1. WireTypes'
  BY <1>0, WireStep
<1>2. CASE \E b \in Bets : ClickCashout(b)
  <2>1. UNCHANGED <<bets, cashouts, market, cache, missed>> /\ wire \subseteq wire'
    BY <1>2 DEF ClickCashout, server, lists
  <2>2. Quiet' => Quiet
    BY <2>1 DEF Quiet
  <2> QED BY <1>0, <1>1, <2>1, <2>2, ListsStay DEF ListTypes, SameStatus
<1>3. CASE ClickBet
  <2>1. UNCHANGED <<bets, cashouts, market, cache, missed>> /\ wire \subseteq wire'
    BY <1>3 DEF ClickBet, server, lists
  <2>2. Quiet' => Quiet
    BY <2>1 DEF Quiet
  <2> QED BY <1>0, <1>1, <2>1, <2>2, ListsStay DEF ListTypes, SameStatus
<1>4. CASE OtherTrades \/ PauseMarket \/ ResumeMarket
  <2>1. UNCHANGED <<bets, cashouts, cache, missed, wire>>
    BY <1>4 DEF OtherTrades, PauseMarket, ResumeMarket, lists
  <2>2. SameStatus /\ DOMAIN market' = {"level", "status"}
    <3>1. CASE OtherTrades
      <4>1. PICK level : market' = [market EXCEPT !.level = level]
        BY <3>1 DEF OtherTrades
      <4> QED BY <1>0, <4>1 DEF ListTypes, SameStatus
    <3>2. CASE PauseMarket \/ ResumeMarket
      BY <1>0, <3>2 DEF PauseMarket, ResumeMarket, ListTypes, SameStatus
    <3> QED BY <1>4, <3>1, <3>2
  <2>3. Quiet' => Quiet
    BY <2>1 DEF Quiet
  <2> QED BY <1>1, <2>1, <2>2, <2>3, ListsStay
<1>5. CASE \E status \in Results : Resolve(status)
  <2>1. UNCHANGED cache /\ missed' = Lists /\ \E status : market' = [market EXCEPT !.status = status]
    BY <1>5 DEF Resolve
  <2>2. ListTypes'
    BY <1>0, <2>1 DEF ListTypes
  <2> QED BY <1>1, <2>1, <2>2 DEF ListsInv
<1>6. CASE \/ UNCHANGED vars
           \/ OpenBet \/ Resize \/ CloseModal \/ Blur
           \/ \E raw \in Raws : Type(raw)
           \/ \E b \in Bets : FirstClick(b)
           \/ PushMarket \/ PushBalance
  <2>1. UNCHANGED <<bets, cashouts, market, cache, missed, wire>>
    BY <1>6 DEF vars, server, lists, OpenBet, Resize, CloseModal, Blur, Type, FirstClick, PushMarket,
       PushBalance
  <2>2. Quiet' => Quiet
    BY <2>1 DEF Quiet
  <2> QED BY <1>0, <1>1, <2>1, <2>2, ListsStay DEF ListTypes, SameStatus
<1> QED
  BY <1>1, <1>2, <1>3, <1>4, <1>5, <1>6, LoadStep, ToldStep, ServedStep DEF Next

(* BetModal.tsx 60, BetUser.tsx 33, MarketBetSection.tsx 135: a list that nobody is fetching
   and that is not marked to be fetched is the first page of what the server holds, whatever
   the order of bets, cashouts, moves and fetches.  Left out: while an answer is on its way
   to the tab, and, until the next fetch, after the settlement or cancellation of the
   market, a bet or cashout the tab was not told of, a fetch that failed, and a fetch under
   way at an invalidation that did not restart it. *)
THEOREM ListsTellTheTruth == Spec => []ListTruthful
<1>1. Init => ListsInv
  <2> SUFFICES ASSUME Init
               PROVE  ListsInv
    OBVIOUS
  <2>1. /\ cache = [q \in Lists |-> NoEntry] /\ wire = {}
        /\ DOMAIN market = {"level", "status"}
    BY DEF Init
  <2>2. Entry(NoEntry) /\ Vacant(NoEntry)
    BY DEF Entry, Vacant, NoEntry
  <2>3. ListTypes /\ WireTypes
    BY <2>1, <2>2 DEF ListTypes, WireTypes
  <2>4. \A q \in Lists : Good(cache[q], q)
    BY <2>1, <2>2 DEF Good, Vacant
  <2> QED BY <2>3, <2>4 DEF ListsInv
<1>2. ListsInv => ListTruthful
  <2> SUFFICES ASSUME ListsInv, NEW q \in Lists,
                      cache[q].data # <<>>, cache[q].phase = "idle", ~cache[q].invalid,
                      q \notin missed, \A r \in wire : r.phase # "served"
               PROVE  cache[q].data = <<Answer(q)>>
    BY DEF ListTruthful
  <2>1. Good(cache[q], q)
    BY DEF ListsInv, Quiet
  <2> QED BY <2>1 DEF Good
<1> QED BY <1>1, <1>2, ListsStep, PTL DEF Spec

-----------------------------------------------------------------------------
(* Induction, over numbers and over sequences; a property is the set of what has it. *)

(* A nonempty set of numbers has a least one. *)
LEMMA LeastNat ==
    ASSUME NEW T \in SUBSET Nat, T # {}
    PROVE  \E x \in T : \A y \in T : x <= y
<1>1. PICK x \in T : \A y \in T : ~ (<<y, x>> \in OpToRel(<, Nat))
  BY NatLessThanWellFounded, WFMin
<1>2. ASSUME NEW y \in T PROVE x <= y
  <2>1. ~(y < x)
    BY <1>1, Zenon DEF OpToRel
  <2>. QED
    BY <2>1
<1>. QED
  BY <1>2

(* Induction, for a set of numbers. *)
LEMMA Induction ==
    ASSUME NEW P, 0 \in P, \A n \in Nat : n \in P => n + 1 \in P
    PROVE  Nat \subseteq P
<1> SUFFICES ASSUME NEW k \in Nat, k \notin P
             PROVE  FALSE
  OBVIOUS
<1>1. Nat \ P \in SUBSET Nat /\ Nat \ P # {}
  OBVIOUS
<1>2. PICK x \in Nat \ P : \A y \in Nat \ P : x <= y
  BY <1>1, LeastNat
<1>3. x # 0 /\ x - 1 \in Nat
  BY <1>2
<1>4. x - 1 \in P
  BY <1>2, <1>3
<1>5. (x - 1) + 1 \in P
  BY <1>3, <1>4
<1>. QED
  BY <1>2, <1>5

(* Induction over sequences, for a set of sequences. *)
LEMMA SeqInduction ==
    ASSUME NEW S, NEW P, <<>> \in P,
           \A s \in Seq(S), x \in S : s \in P => Append(s, x) \in P
    PROVE  Seq(S) \subseteq P
<1> DEFINE N == {n \in Nat : \A s \in Seq(S) : Len(s) = n => s \in P}
<1>1. 0 \in N
  OBVIOUS
<1>2. ASSUME NEW n \in Nat, n \in N PROVE n + 1 \in N
  <2> SUFFICES ASSUME NEW s \in Seq(S), Len(s) = n + 1 PROVE s \in P
    OBVIOUS
  <2> DEFINE front == [i \in 1..n |-> s[i]]
  <2>1. front \in Seq(S) /\ Len(front) = n /\ s[n + 1] \in S
    OBVIOUS
  <2>2. front \in P
    BY <1>2, <2>1
  <2>3. s = Append(front, s[n + 1])
    BY <2>1
  <2>. QED
    BY <2>1, <2>2, <2>3
<1>3. Nat \subseteq N
  BY <1>1, <1>2, Induction
<1>. QED
  BY <1>3

-----------------------------------------------------------------------------
(* The amount field: what the digits of a text stand for, and how it is rounded. *)

(* f is the recursive function behind the number of these digits. *)
IsValues(digits, f) ==
    f = [n \in 0..Len(digits) |-> IF n = 0 THEN 0 ELSE 10 * f[n - 1] + digits[n]]

(* The recursive function behind Number exists: it is extended digit by digit. *)
LEMMA ValuesUnfold ==
    ASSUME NEW s \in Seq(Digits)
    PROVE  IsValues(s, Values(s))
<1> DEFINE P == {u \in Seq(Digits) : \E f : IsValues(u, f)}
<1>1. <<>> \in P
  <2>1. IsValues(<<>>, [n \in 0..0 |-> 0])
    BY DEF IsValues
  <2>. QED
    BY <2>1
<1>2. ASSUME NEW u \in Seq(Digits), NEW x \in Digits, u \in P
      PROVE  Append(u, x) \in P
  <2>1. PICK f : IsValues(u, f)
    BY <1>2
  <2> DEFINE m == Len(u) + 1
             g == [n \in 0..m |-> IF n = m THEN 10 * f[Len(u)] + x ELSE f[n]]
  <2>2. Append(u, x) \in Seq(Digits) /\ Len(Append(u, x)) = m /\ m \in Nat \ {0}
    OBVIOUS
  <2>3. ASSUME NEW n \in 0..m
        PROVE  g[n] = IF n = 0 THEN 0 ELSE 10 * g[n - 1] + Append(u, x)[n]
    <3>1. CASE n = 0
      BY <2>1, <3>1 DEF IsValues
    <3>2. CASE n # 0 /\ n # m
      <4>1. n \in 0..Len(u) /\ n - 1 \in 0..Len(u) /\ Append(u, x)[n] = u[n]
        BY <3>2
      <4>2. f[n] = 10 * f[n - 1] + u[n]
        BY <2>1, <3>2, <4>1 DEF IsValues
      <4>3. g[n] = f[n] /\ g[n - 1] = f[n - 1]
        BY <3>2, <4>1
      <4>. QED
        BY <3>2, <4>1, <4>2, <4>3
    <3>3. CASE n = m
      <4>1. /\ Append(u, x)[m] = x /\ m - 1 = Len(u) /\ m - 1 \in 0..m
            /\ m \in 0..m /\ m - 1 # m
        OBVIOUS
      <4>2. g[m] = 10 * f[Len(u)] + x /\ g[m - 1] = f[Len(u)]
        BY <4>1
      <4>. QED
        BY <2>2, <3>3, <4>1, <4>2
    <3>. QED
      BY <3>1, <3>2, <3>3
  <2>4. IsValues(Append(u, x), g)
    BY <2>2, <2>3 DEF IsValues
  <2>. QED
    BY <2>2, <2>4
<1>3. Seq(Digits) \subseteq P
  <2> HIDE DEF P
  <2>. QED
    BY <1>1, <1>2, SeqInduction
<1>4. \E f : IsValues(s, f)
  BY <1>3
<1>5. Values(s) = CHOOSE f : IsValues(s, f)
  BY DEF Values, IsValues
<1>. QED
  BY <1>4, <1>5

(* A digit more is ten times the number and that digit. *)
LEMMA NumberAppend ==
    /\ Number(<<>>) = 0
    /\ \A s \in Seq(Digits), d \in Digits :
          Number(Append(s, d)) = 10 * Number(s) + d
<1>1. Number(<<>>) = 0
  <2>1. IsValues(<<>>, Values(<<>>))
    <3>1. <<>> \in Seq(Digits)
      OBVIOUS
    <3>. QED
      BY <3>1, ValuesUnfold
  <2>. QED
    BY <2>1 DEF Number, IsValues
<1>2. ASSUME NEW s \in Seq(Digits), NEW d \in Digits
      PROVE  Number(Append(s, d)) = 10 * Number(s) + d
  <2> DEFINE t == Append(s, d)
             f == Values(s)
             g == Values(t)
  <2>1. t \in Seq(Digits) /\ Len(t) = Len(s) + 1 /\ t[Len(s) + 1] = d
    OBVIOUS
  <2>2. IsValues(s, f) /\ IsValues(t, g)
    BY <2>1, ValuesUnfold
  <2> DEFINE P == {n \in Nat : n <= Len(s) => f[n] = g[n]}
  <2>3. 0 \in P
    BY <2>1, <2>2 DEF IsValues
  <2>4. ASSUME NEW n \in Nat, n \in P PROVE n + 1 \in P
    <3> SUFFICES ASSUME n + 1 <= Len(s) PROVE f[n + 1] = g[n + 1]
      OBVIOUS
    <3>1. f[n] = g[n] /\ s[n + 1] = t[n + 1]
      BY <2>4
    <3>2. n + 1 \in 0..Len(s) /\ n + 1 \in 0..Len(t) /\ n + 1 # 0 /\ (n + 1) - 1 = n
      BY <2>1
    <3>3. f[n + 1] = 10 * f[n] + s[n + 1]
      BY <2>2, <3>2 DEF IsValues
    <3>4. g[n + 1] = 10 * g[n] + t[n + 1]
      BY <2>2, <3>2 DEF IsValues
    <3>. QED
      BY <3>1, <3>3, <3>4
  <2>5. Nat \subseteq P
    <3> HIDE DEF P
    <3>. QED
      BY <2>3, <2>4, Induction
  <2>6. f[Len(s)] = g[Len(s)]
    BY <2>5
  <2>7. g[Len(s) + 1] = 10 * g[Len(s)] + d
    <3>1. Len(s) + 1 \in 0..Len(t) /\ Len(s) + 1 # 0 /\ (Len(s) + 1) - 1 = Len(s)
      BY <2>1
    <3>. QED
      BY <2>1, <2>2, <3>1 DEF IsValues
  <2>. QED
    BY <2>1, <2>6, <2>7 DEF Number
<1>. QED
  BY <1>1, <1>2

(* Digits are the digits of a number. *)
LEMMA NumberNat ==
    ASSUME NEW s \in Seq(Digits)
    PROVE  Number(s) \in Nat
<1> DEFINE P == {u \in Seq(Digits) : Number(u) \in Nat}
<1>1. <<>> \in P
  BY NumberAppend
<1>2. ASSUME NEW u \in Seq(Digits), NEW x \in Digits, u \in P
      PROVE  Append(u, x) \in P
  <2>1. Number(Append(u, x)) = 10 * Number(u) + x
    BY NumberAppend
  <2>2. Number(u) \in Nat /\ x \in Nat
    BY <1>2 DEF Digits
  <2>. QED
    BY <2>1, <2>2
<1> HIDE DEF P
<1>3. Seq(Digits) \subseteq P
  BY <1>1, <1>2, SeqInduction
<1>. QED
  BY <1>3 DEF P

(* A digit is its number. *)
LEMMA NumberDigit ==
    ASSUME NEW d \in Digits
    PROVE  Number(<<d>>) = d
<1>1. <<>> \in Seq(Digits) /\ <<d>> = Append(<<>>, d) /\ d \in Nat
  BY DEF Digits
<1>2. Number(<<d>>) = 10 * 0 + d
  BY <1>1, NumberAppend
<1>. QED
  BY <1>1, <1>2

(* Unit is the power of ten. *)
LEMMA UnitStep ==
    /\ Unit(0) = 1
    /\ \A n \in Nat : Unit(n) \in Nat \ {0} /\ Unit(n + 1) = 10 * Unit(n)
<1> DEFINE one(n) == [i \in 1..(n + 1) |-> IF i = 1 THEN 1 ELSE 0]
           P == {n \in Nat : Unit(n) \in Nat \ {0}}
<1>1. Unit(0) = 1
  <2>1. one(0) = <<1>> /\ 1 \in Digits
    BY DEF Digits
  <2>. QED
    BY <2>1, NumberDigit DEF Unit
<1>2. ASSUME NEW n \in Nat PROVE Unit(n + 1) = 10 * Unit(n) /\ Unit(n) \in Nat
  <2>1. one(n) \in Seq(Digits) /\ 0 \in Digits
    BY DEF Digits
  <2>2. one(n + 1) = Append(one(n), 0)
    OBVIOUS
  <2> HIDE DEF one
  <2>3. Number(one(n + 1)) = 10 * Number(one(n)) + 0 /\ Number(one(n)) \in Nat
    BY <2>1, <2>2, NumberAppend, NumberNat
  <2>. QED
    BY <2>3 DEF Unit, one
<1>3. 0 \in P
  BY <1>1
<1>4. ASSUME NEW n \in Nat, n \in P PROVE n + 1 \in P
  BY <1>2, <1>4
<1> HIDE DEF P
<1>5. Nat \subseteq P
  BY <1>3, <1>4, Induction
<1>. QED
  BY <1>1, <1>2, <1>5 DEF P

(* The number of digits and more digits behind them. *)
LEMMA NumberConcat ==
    ASSUME NEW a \in Seq(Digits), NEW b \in Seq(Digits)
    PROVE  Number(a \o b) = Number(a) * Unit(Len(b)) + Number(b)
<1> DEFINE P == {u \in Seq(Digits) : Number(a \o u) = Number(a) * Unit(Len(u)) + Number(u)}
<1>0. Number(a) \in Nat
  BY NumberNat
<1>1. <<>> \in P
  <2>1. a \o <<>> = a /\ Len(<<>>) = 0
    OBVIOUS
  <2>. QED
    BY <1>0, <2>1, UnitStep, NumberAppend
<1>2. ASSUME NEW u \in Seq(Digits), NEW x \in Digits, u \in P
      PROVE  Append(u, x) \in P
  <2>1. /\ a \o u \in Seq(Digits) /\ a \o Append(u, x) = Append(a \o u, x)
        /\ Len(Append(u, x)) = Len(u) + 1 /\ Len(u) \in Nat /\ x \in Nat
    BY DEF Digits
  <2>2. /\ Number(Append(u, x)) = 10 * Number(u) + x
        /\ Number(a \o Append(u, x)) = 10 * Number(a \o u) + x
        /\ Number(u) \in Nat
        /\ Unit(Len(u) + 1) = 10 * Unit(Len(u)) /\ Unit(Len(u)) \in Nat
    BY <2>1, NumberAppend, NumberNat, UnitStep, ZenonT(30)
  <2>3. Number(a \o u) = Number(a) * Unit(Len(u)) + Number(u)
    BY <1>2
  <2>4. \A p, q, r, d \in Nat : 10 * (p * q + r) + d = p * (10 * q) + (10 * r + d)
    OBVIOUS
  <2>5. Number(a \o Append(u, x)) = Number(a) * Unit(Len(Append(u, x))) + Number(Append(u, x))
    BY <1>0, <2>1, <2>2, <2>3, <2>4
  <2>. QED
    BY <2>5
<1> HIDE DEF P
<1>3. Seq(Digits) \subseteq P
  BY <1>1, <1>2, SeqInduction
<1>. QED
  BY <1>3 DEF P

(* A number of n digits is below the n-th power of ten, and zero when its digits are. *)
LEMMA NumberBounds ==
    ASSUME NEW s \in Seq(Digits)
    PROVE  /\ Number(s) < Unit(Len(s))
           /\ Number(s) = 0 <=> \A i \in 1..Len(s) : s[i] = 0
           /\ CarryOut(s) <=> Number(s) + 1 = Unit(Len(s))
<1> DEFINE Zero(u) == \A i \in 1..Len(u) : u[i] = 0
           P == {u \in Seq(Digits) : /\ Number(u) < Unit(Len(u))
                                     /\ Number(u) = 0 <=> Zero(u)
                                     /\ CarryOut(u) <=> Number(u) + 1 = Unit(Len(u))}
<1>1. <<>> \in P
  <2>1. Len(<<>>) = 0 /\ Zero(<<>>) /\ CarryOut(<<>>)
    BY DEF CarryOut
  <2>2. <<>> \in Seq(Digits) /\ Number(<<>>) = 0 /\ Unit(0) = 1
    BY UnitStep, NumberAppend
  <2> HIDE DEF Zero
  <2>. QED
    BY <2>1, <2>2
<1>2. ASSUME NEW u \in Seq(Digits), NEW x \in Digits, u \in P
      PROVE  Append(u, x) \in P
  <2>1. /\ Append(u, x) \in Seq(Digits)
        /\ Len(Append(u, x)) = Len(u) + 1 /\ Len(u) \in Nat /\ x \in 0..9
    BY DEF Digits
  <2>2. /\ Number(Append(u, x)) = 10 * Number(u) + x
        /\ Number(u) \in Nat
        /\ Unit(Len(u) + 1) = 10 * Unit(Len(u)) /\ Unit(Len(u)) \in Nat
    BY <2>1, NumberAppend, NumberNat, UnitStep
  <2>3. Zero(Append(u, x)) <=> Zero(u) /\ x = 0
    OBVIOUS
  <2>4. CarryOut(Append(u, x)) <=> CarryOut(u) /\ x = 9
    BY DEF CarryOut
  <2> HIDE DEF Zero
  <2>5. Number(Append(u, x)) < Unit(Len(u) + 1)
    BY <1>2, <2>1, <2>2
  <2>6. Number(Append(u, x)) = 0 <=> Zero(Append(u, x))
    BY <1>2, <2>1, <2>2, <2>3
  <2>7. CarryOut(Append(u, x)) <=> Number(Append(u, x)) + 1 = Unit(Len(u) + 1)
    BY <1>2, <2>1, <2>2, <2>4
  <2>. QED
    BY <2>1, <2>5, <2>6, <2>7
<1> HIDE DEF P
<1>3. Seq(Digits) \subseteq P
  BY <1>1, <1>2, SeqInduction
<1>. QED
  BY <1>3 DEF P

(* Bumped adds one to the number, up to the carry. *)
LEMMA BumpedAddsOne ==
    ASSUME NEW s \in Seq(Digits)
    PROVE  /\ Bumped(s) \in Seq(Digits) /\ Len(Bumped(s)) = Len(s)
           /\ Number(Bumped(s)) = IF CarryOut(s) THEN 0 ELSE Number(s) + 1
<1> DEFINE P == {u \in Seq(Digits) :
                   /\ Bumped(u) \in Seq(Digits) /\ Len(Bumped(u)) = Len(u)
                   /\ Number(Bumped(u)) = IF CarryOut(u) THEN 0 ELSE Number(u) + 1}
<1>1. <<>> \in P
  <2>1. Bumped(<<>>) = <<>> /\ CarryOut(<<>>)
    BY DEF Bumped, CarryOut
  <2>2. <<>> \in Seq(Digits) /\ Len(<<>>) = 0 /\ Number(<<>>) = 0
    BY NumberAppend
  <2>. QED
    BY <2>1, <2>2
<1>2. ASSUME NEW u \in Seq(Digits), NEW x \in Digits, u \in P
      PROVE  Append(u, x) \in P
  <2> DEFINE t == Append(u, x)
  <2>1. /\ t \in Seq(Digits) /\ Len(t) = Len(u) + 1 /\ Len(u) \in Nat /\ x \in 0..9
        /\ t[Len(u) + 1] = x /\ \A i \in 1..Len(u) : t[i] = u[i] /\ u[i] \in 0..9
    BY DEF Digits
  <2>2. CarryOut(t) <=> CarryOut(u) /\ x = 9
    BY <2>1 DEF CarryOut
  <2>3. Number(t) = 10 * Number(u) + x /\ Number(u) \in Nat
    BY NumberAppend, NumberNat
  <2>4. CASE x # 9
    <3>1. Bumped(t) = Append(u, x + 1)
      <4>1. DOMAIN Bumped(t) = 1..(Len(u) + 1)
        BY <2>1 DEF Bumped
      <4>2. ASSUME NEW i \in 1..Len(u) PROVE Bumped(t)[i] = u[i]
        <5>1. Len(t) \in (i + 1)..Len(t) /\ t[Len(t)] # 9
          BY <2>1, <2>4
        <5>2. i \in DOMAIN t
          BY <2>1
        <5>. QED
          BY <2>1, <5>1, <5>2 DEF Bumped
      <4>3. Bumped(t)[Len(u) + 1] = x + 1
        <5>1. (Len(u) + 1) + 1 > Len(t) /\ Len(u) + 1 \in DOMAIN t
          BY <2>1
        <5>2. Bumped(t)[Len(u) + 1] = (x + 1) % 10
          BY <2>1, <5>1 DEF Bumped
        <5>. QED
          BY <2>1, <2>4, <5>2
      <4>4. Bumped(t) \in Seq(Nat) /\ Len(Bumped(t)) = Len(u) + 1
        <5>1. ASSUME NEW i \in DOMAIN t PROVE Bumped(t)[i] \in Nat
          <6>1. t[i] \in Nat
            BY <2>1 DEF Digits
          <6>2. Bumped(t)[i] = t[i] \/ Bumped(t)[i] = (t[i] + 1) % 10
            BY DEF Bumped
          <6>. QED
            BY <6>1, <6>2
        <5>2. Bumped(t) \in [DOMAIN t -> Nat] /\ DOMAIN t = 1..(Len(u) + 1)
          BY <2>1, <4>1, <5>1 DEF Bumped
        <5>. QED
          BY <2>1, <5>2
      <4>. QED
        BY <2>1, <4>2, <4>3, <4>4
    <3>2. x + 1 \in Digits
      BY <2>1, <2>4 DEF Digits
    <3>3. Number(Bumped(t)) = 10 * Number(u) + (x + 1)
      BY <3>1, <3>2, NumberAppend
    <3>4. Bumped(t) \in Seq(Digits) /\ Len(Bumped(t)) = Len(t)
      BY <2>1, <3>1, <3>2
    <3>5. Number(Bumped(t)) = Number(t) + 1 /\ ~CarryOut(t)
      BY <2>1, <2>2, <2>3, <2>4, <3>3
    <3>. QED
      BY <2>1, <3>4, <3>5
  <2>5. CASE x = 9
    <3>1. Bumped(t) = Append(Bumped(u), 0)
      <4>1. DOMAIN Bumped(t) = 1..(Len(u) + 1) /\ DOMAIN Bumped(u) = 1..Len(u)
        BY <2>1 DEF Bumped
      <4>2. ASSUME NEW i \in 1..Len(u) PROVE Bumped(t)[i] = Bumped(u)[i]
        <5>1. (\E j \in (i + 1)..Len(t) : t[j] # 9) <=> (\E j \in (i + 1)..Len(u) : u[j] # 9)
          BY <2>1, <2>5
        <5>2. i \in DOMAIN t /\ i \in DOMAIN u
          BY <2>1
        <5>. QED
          BY <2>1, <5>1, <5>2 DEF Bumped
      <4>3. Bumped(t)[Len(u) + 1] = 0
        <5>1. (Len(u) + 1) + 1 > Len(t) /\ Len(u) + 1 \in DOMAIN t
          BY <2>1
        <5>2. Bumped(t)[Len(u) + 1] = (9 + 1) % 10
          BY <2>1, <2>5, <5>1 DEF Bumped
        <5>. QED
          BY <5>2
      <4>4. Bumped(t) \in Seq(Nat) /\ Len(Bumped(t)) = Len(u) + 1
        <5>1. ASSUME NEW i \in DOMAIN t PROVE Bumped(t)[i] \in Nat
          <6>1. t[i] \in Nat
            BY <2>1 DEF Digits
          <6>2. Bumped(t)[i] = t[i] \/ Bumped(t)[i] = (t[i] + 1) % 10
            BY DEF Bumped
          <6>. QED
            BY <6>1, <6>2
        <5>2. Bumped(t) \in [DOMAIN t -> Nat] /\ DOMAIN t = 1..(Len(u) + 1)
          BY <2>1, <4>1, <5>1 DEF Bumped
        <5>. QED
          BY <2>1, <5>2
      <4>5. Bumped(u) \in Seq(Digits) /\ Len(Bumped(u)) = Len(u)
        BY <1>2
      <4>. QED
        BY <2>1, <4>2, <4>3, <4>4, <4>5
    <3>2. 0 \in Digits /\ Bumped(u) \in Seq(Digits) /\ Len(Bumped(u)) = Len(u)
      BY <1>2 DEF Digits
    <3>3. Number(Bumped(t)) = 10 * Number(Bumped(u)) + 0
      BY <3>1, <3>2, NumberAppend
    <3>4. Bumped(t) \in Seq(Digits) /\ Len(Bumped(t)) = Len(t)
      BY <2>1, <3>1, <3>2
    <3>5. Number(Bumped(t)) = IF CarryOut(t) THEN 0 ELSE Number(t) + 1
      BY <1>2, <2>1, <2>2, <2>3, <2>5, <3>3
    <3>. QED
      BY <2>1, <3>4, <3>5
  <2>. QED
    BY <2>4, <2>5
<1> HIDE DEF P
<1>3. Seq(Digits) \subseteq P
  BY <1>1, <1>2, SeqInduction
<1>. QED
  BY <1>3 DEF P

(* incIntString adds one, with a digit more when all were nines. *)
LEMMA IncIntAddsOne ==
    ASSUME NEW s \in Seq(Digits)
    PROVE  IncInt(s) \in Seq(Digits) /\ Number(IncInt(s)) = Number(s) + 1
<1>1. /\ Bumped(s) \in Seq(Digits) /\ Len(Bumped(s)) = Len(s)
      /\ Number(Bumped(s)) = IF CarryOut(s) THEN 0 ELSE Number(s) + 1
      /\ Number(s) \in Nat
  BY BumpedAddsOne, NumberNat
<1>2. CASE CarryOut(s)
  <2>1. IncInt(s) = <<1>> \o Bumped(s)
    BY <1>2 DEF IncInt
  <2>2. <<1>> \in Seq(Digits) /\ 1 \in Digits
    BY DEF Digits
  <2>3. Number(IncInt(s)) = Number(<<1>>) * Unit(Len(s)) + 0
    BY <1>1, <1>2, <2>1, <2>2, NumberConcat
  <2>4. Number(<<1>>) = 1 /\ Unit(Len(s)) \in Nat
    BY <2>2, NumberDigit, UnitStep
  <2>5. Number(s) + 1 = Unit(Len(s))
    BY <1>2, NumberBounds
  <2>6. <<1>> \o Bumped(s) \in Seq(Digits)
    BY <1>1, <2>2
  <2>. QED
    BY <2>1, <2>3, <2>4, <2>5, <2>6
<1>3. CASE ~CarryOut(s)
  BY <1>1, <1>3 DEF IncInt
<1>. QED
  BY <1>2, <1>3

(* Without zeros in front, but for a single one. *)
Trimmed(s) == s # <<>> /\ (s[1] = 0 => s = <<0>>)

(* It puts no zero in front. *)
LEMMA IncIntTrimmed ==
    ASSUME NEW s \in Seq(Digits), Trimmed(s)
    PROVE  Trimmed(IncInt(s))
<1>1. Len(s) \in Nat \ {0} /\ s[1] \in 0..9 /\ 1 \in DOMAIN s /\ DOMAIN s = 1..Len(s)
  BY DEF Trimmed, Digits
<1>2. Bumped(s) \in Seq(Digits) /\ Len(Bumped(s)) = Len(s)
  BY BumpedAddsOne
<1>3. CASE CarryOut(s)
  <2>1. IncInt(s) = <<1>> \o Bumped(s)
    BY <1>3 DEF IncInt
  <2>2. IncInt(s) # <<>> /\ IncInt(s)[1] = 1
    BY <1>2, <2>1
  <2>. QED
    BY <2>2 DEF Trimmed
<1>4. CASE ~CarryOut(s)
  <2>1. IncInt(s) = Bumped(s)
    BY <1>4 DEF IncInt
  <2>2. Bumped(s)[1] = IF \E j \in 2..Len(s) : s[j] # 9 THEN s[1] ELSE (s[1] + 1) % 10
    BY <1>1 DEF Bumped
  <2>3. PICK j \in 1..Len(s) : s[j] # 9
    BY <1>1, <1>4 DEF CarryOut
  <2>4. Bumped(s)[1] # 0
    <3>1. CASE \E k \in 2..Len(s) : s[k] # 9
      <4>1. s # <<0>>
        BY <3>1
      <4>. QED
        BY <2>2, <3>1, <4>1 DEF Trimmed
    <3>2. CASE ~\E k \in 2..Len(s) : s[k] # 9
      <4>1. j = 1
        BY <1>1, <2>3, <3>2
      <4>. QED
        BY <1>1, <2>2, <2>3, <3>2, <4>1
    <3>. QED
      BY <3>1, <3>2
  <2>5. Bumped(s) # <<>>
    BY <1>1, <1>2
  <2>. QED
    BY <2>1, <2>4, <2>5 DEF Trimmed
<1>. QED
  BY <1>3, <1>4

(* The texts of the field. *)
TextType == [int : Seq(Digits), frac : Seq(Digits), sep : BOOLEAN]

(* addOne adds a hundredth, through the separator too. *)
LEMMA AddOneAddsOne ==
    ASSUME NEW t \in TextType
    PROVE  /\ AddOne(t) \in TextType /\ Len(AddOne(t).frac) = Len(t.frac)
           /\ AddOne(t).sep = t.sep
           /\ Number(AddOne(t).int \o AddOne(t).frac) = Number(t.int \o t.frac) + 1
           /\ Trimmed(t.int) => Trimmed(AddOne(t).int)
<1> DEFINE i == t.int
           f == t.frac
           u == Unit(Len(f))
<1>0. i \in Seq(Digits) /\ f \in Seq(Digits) /\ t = [int |-> i, frac |-> f, sep |-> t.sep]
  BY DEF TextType
<1>1. AddOne(t) = [int |-> IF CarryOut(f) THEN IncInt(i) ELSE i, frac |-> Bumped(f),
                   sep |-> t.sep]
  BY DEF AddOne, Text
<1>2. /\ Bumped(f) \in Seq(Digits) /\ Len(Bumped(f)) = Len(f)
      /\ Number(Bumped(f)) = IF CarryOut(f) THEN 0 ELSE Number(f) + 1
  BY <1>0, BumpedAddsOne
<1>3. IncInt(i) \in Seq(Digits) /\ Number(IncInt(i)) = Number(i) + 1
  BY <1>0, IncIntAddsOne
<1>4. Number(i \o f) = Number(i) * u + Number(f) /\ Number(i) \in Nat /\ Number(f) \in Nat
  BY <1>0, NumberConcat, NumberNat
<1>5. u \in Nat /\ (CarryOut(f) => Number(f) + 1 = u)
  BY <1>0, UnitStep, NumberBounds
<1>6. CASE CarryOut(f)
  <2>1. Number(IncInt(i) \o Bumped(f)) = (Number(i) + 1) * u + 0
    BY <1>2, <1>3, <1>6, NumberConcat
  <2>2. \A p, q \in Nat : (p + 1) * q = p * q + q
    OBVIOUS
  <2>3. Number(IncInt(i) \o Bumped(f)) = Number(i \o f) + 1
    BY <1>4, <1>5, <1>6, <2>1, <2>2
  <2>4. Trimmed(i) => Trimmed(IncInt(i))
    BY <1>0, IncIntTrimmed
  <2>. QED
    BY <1>0, <1>1, <1>2, <1>3, <1>6, <2>3, <2>4 DEF TextType
<1>7. CASE ~CarryOut(f)
  <2>1. Number(i \o Bumped(f)) = Number(i) * u + (Number(f) + 1)
    BY <1>0, <1>2, <1>7, NumberConcat
  <2>2. Number(i \o Bumped(f)) = Number(i \o f) + 1
    <3>1. Number(i) * u \in Nat
      BY <1>4, <1>5
    <3>. QED
      BY <1>4, <2>1, <3>1
  <2>. QED
    BY <1>0, <1>1, <1>2, <1>7, <2>2 DEF TextType
<1>. QED
  BY <1>6, <1>7

(* Whether the text is rounded up, and the digits that are kept. *)
Rest(t) == SubSeq(t.frac, Dp + 1, Len(t.frac))
RoundsUp(t) == /\ Rest(t) # <<>>
               /\ \/ Rest(t)[1] > 5
                  \/ Rest(t)[1] = 5 /\ \E i \in 2..Len(Rest(t)) : Rest(t)[i] # 0
Hundredths(t) == [i \in 1..Dp |-> IF i <= Len(t.frac) THEN t.frac[i] ELSE 0]
Units(t) == IF t.int = <<>> THEN <<0>> ELSE t.int

(* roundHalfDownStr: two digits after the separator, of the digits that are kept or one
   hundredth more; a text that has two already stays. *)
LEMMA RoundHalfDownAmount ==
    ASSUME NEW t \in TextType
    PROVE  LET r == RoundHalfDown(t)
           IN  /\ r \in TextType /\ r.sep /\ Len(r.frac) = Dp /\ r.int # <<>>
               /\ Number(r.int \o r.frac)
                    = Number(t.int \o Hundredths(t)) + (IF RoundsUp(t) THEN 1 ELSE 0)
               /\ Trimmed(Units(t)) => Trimmed(r.int)
               /\ Len(t.frac) = Dp => r = Text(Units(t), t.frac, TRUE)
<1> DEFINE i == Units(t)
           h == Hundredths(t)
           kept == Text(i, h, TRUE)
           r == RoundHalfDown(t)
<1>0. t.int \in Seq(Digits) /\ t.frac \in Seq(Digits) /\ 0 \in Digits /\ Dp \in Nat
  BY DEF TextType, Digits, Dp
<1>1. r = IF RoundsUp(t) THEN AddOne(kept) ELSE kept
  BY DEF RoundHalfDown, RoundsUp, Rest, Hundredths, Units, ToFixedDp
<1>2. i \in Seq(Digits) /\ i # <<>>
  BY <1>0 DEF Units
<1>3. h \in Seq(Digits) /\ Len(h) = Dp
  BY <1>0 DEF Hundredths
<1>4. kept \in TextType /\ kept.int = i /\ kept.frac = h /\ kept.sep = TRUE
  BY <1>2, <1>3 DEF TextType, Text
<1>5. Number(i \o h) = Number(t.int \o h)
  <2>1. CASE t.int # <<>>
    BY <2>1 DEF Units
  <2>2. CASE t.int = <<>>
    <3>1. i = <<0>> /\ t.int \o h = h
      BY <1>3, <2>2 DEF Units
    <3>2. Number(i \o h) = Number(<<0>>) * Unit(Len(h)) + Number(h)
      BY <1>2, <1>3, <3>1, NumberConcat
    <3>3. Number(<<0>>) = 0 /\ Unit(Len(h)) \in Nat /\ Number(h) \in Nat
      BY <1>0, <1>3, NumberDigit, NumberNat, UnitStep
    <3>. QED
      BY <3>1, <3>2, <3>3
  <2>. QED
    BY <2>1, <2>2
<1>6. Number(i \o h) \in Nat
  <2>1. i \o h \in Seq(Digits)
    BY <1>2, <1>3
  <2>. QED
    BY <2>1, NumberNat
<1>7. /\ AddOne(kept) \in TextType /\ Len(AddOne(kept).frac) = Dp /\ AddOne(kept).sep
      /\ Number(AddOne(kept).int \o AddOne(kept).frac) = Number(i \o h) + 1
      /\ Trimmed(i) => Trimmed(AddOne(kept).int)
  <2> HIDE DEF kept
  <2>. QED
    BY <1>3, <1>4, AddOneAddsOne
<1>8. AddOne(kept).int # <<>>
  <2>1. CASE CarryOut(h)
    <3>1. AddOne(kept).int = IncInt(i) /\ Number(IncInt(i)) = Number(i) + 1 /\ Number(i) \in Nat
      BY <1>2, <1>4, <2>1, IncIntAddsOne, NumberNat DEF AddOne, Text
    <3>2. Number(<<>>) = 0
      BY NumberAppend
    <3>3. Number(IncInt(i)) # 0
      BY <3>1
    <3>. QED
      BY <3>1, <3>2, <3>3
  <2>2. CASE ~CarryOut(h)
    BY <1>2, <1>4, <2>2 DEF AddOne, Text
  <2>. QED
    BY <2>1, <2>2
<1>9. Len(t.frac) = Dp => ~RoundsUp(t) /\ h = t.frac
  <2> SUFFICES ASSUME Len(t.frac) = Dp PROVE ~RoundsUp(t) /\ h = t.frac
    OBVIOUS
  <2>1. Rest(t) = <<>>
    BY <1>0 DEF Rest
  <2>2. h = t.frac
    BY <1>0 DEF Hundredths
  <2>. QED
    BY <2>1, <2>2 DEF RoundsUp
<1> HIDE DEF i, h, kept, r
<1>10. CASE RoundsUp(t)
  BY <1>1, <1>5, <1>7, <1>8, <1>9, <1>10 DEF r, h, i
<1>11. CASE ~RoundsUp(t)
  <2>1. r = kept
    BY <1>1, <1>11
  <2>2. Len(t.frac) = Dp => r = Text(Units(t), t.frac, TRUE)
    BY <1>9, <2>1 DEF kept, i
  <2>3. Number(r.int \o r.frac) = Number(t.int \o h) + 0
    BY <1>4, <1>5, <1>6, <2>1
  <2>. QED
    BY <1>2, <1>3, <1>4, <1>11, <2>1, <2>2, <2>3 DEF r, h, i
<1>. QED
  BY <1>10, <1>11

(* The number stays without its zeros in front, and what had none stays. *)
LEMMA NoLeadingZerosKeeps ==
    ASSUME NEW s \in Seq(Digits)
    PROVE  LET n == NoLeadingZeros(s)
           IN  /\ n \in Seq(Digits) /\ Number(n) = Number(s)
               /\ n # <<>> => n[1] # 0
               /\ Trimmed(s) => s = IF n = <<>> THEN <<0>> ELSE n
<1> DEFINE I == {i \in 1..Len(s) : s[i] # 0}
           first == IF I # {} THEN Min(I) ELSE 0
           n == NoLeadingZeros(s)
<1>1. n = IF first = 0 THEN <<>> ELSE SubSeq(s, first, Len(s))
  BY DEF NoLeadingZeros, SelectInSeq
<1>2. CASE I = {}
  <2>1. n = <<>>
    BY <1>1, <1>2
  <2>2. \A i \in 1..Len(s) : s[i] = 0
    BY <1>2
  <2>3. Number(s) = 0 /\ Number(<<>>) = 0
    BY <2>2, NumberBounds, NumberAppend
  <2>4. Trimmed(s) => s = <<0>>
    BY <2>2 DEF Trimmed
  <2>. QED
    BY <2>1, <2>3, <2>4
<1>3. CASE I # {}
  <2>1. PICK m \in I : \A y \in I : m <= y
    <3>1. I \in SUBSET Nat
      OBVIOUS
    <3>. QED
      BY <1>3, <3>1, LeastNat
  <2>2. first \in I /\ \A y \in I : first <= y
    BY <1>3, <2>1 DEF Min
  <2> DEFINE z == SubSeq(s, 1, first - 1)
             m2 == SubSeq(s, first, Len(s))
  <2> HIDE DEF first
  <2>3. first \in 1..Len(s) /\ s[first] # 0 /\ Len(s) \in Nat
    BY <2>2
  <2>4. z \in Seq(Digits) /\ m2 \in Seq(Digits) /\ m2 # <<>> /\ m2[1] = s[first] /\ n = m2
    <3>1. z \in Seq(Digits)
      BY <2>3
    <3>2. m2 \in Seq(Digits) /\ Len(m2) = Len(s) - first + 1 /\ m2[1] = s[first]
      BY <2>3
    <3>3. n = m2
      BY <1>1, <2>3
    <3>4. m2 # <<>>
      <4> HIDE DEF m2
      <4>1. Len(m2) # 0
        BY <2>3, <3>2
      <4>. QED
        BY <4>1
    <3>. QED
      BY <3>1, <3>2, <3>3, <3>4
  <2>5. s = z \o m2
    BY <2>3
  <2>6. ASSUME NEW i \in 1..Len(z) PROVE z[i] = 0
    <3>1. i \in 1..Len(s) /\ z[i] = s[i] /\ i < first
      BY <2>3
    <3>. QED
      BY <2>2, <3>1
  <2>7. Number(z) = 0
    BY <2>4, <2>6, NumberBounds
  <2>8. Number(s) = 0 * Unit(Len(m2)) + Number(m2) /\ Number(m2) \in Nat /\ Unit(Len(m2)) \in Nat
    <3> HIDE DEF z, m2
    <3>1. Number(s) = Number(z) * Unit(Len(m2)) + Number(m2)
      BY <2>4, <2>5, NumberConcat
    <3>. QED
      BY <2>4, <2>7, <3>1, NumberNat, UnitStep
  <2>9. Number(s) = Number(m2)
    <3> HIDE DEF m2
    <3>. QED
      BY <2>8
  <2>10. Trimmed(s) => s = m2
    <3> SUFFICES ASSUME Trimmed(s) PROVE first = 1
      BY <2>3
    <3>1. 1 \in 1..Len(s) /\ (s[1] = 0 => Len(s) = 1 /\ first = 1)
      BY <2>3 DEF Trimmed
    <3>2. s[1] # 0
      BY <2>3, <3>1
    <3>. QED
      BY <2>2, <2>3, <3>1, <3>2
  <2> HIDE DEF m2, z
  <2>. QED
    BY <2>3, <2>4, <2>9, <2>10
<1>. QED
  BY <1>2, <1>3

(* The amount, in hundredths. *)
LEMMA AmountOf ==
    ASSUME NEW t \in TextType, t # Empty
    PROVE  Amount(t) = <<Number(t.int \o Hundredths(t)) + (IF RoundsUp(t) THEN 1 ELSE 0)>>
<1>1. Amount(t) = <<Number(RoundHalfDown(t).int \o RoundHalfDown(t).frac)>>
  BY DEF Amount
<1>. QED
  BY <1>1, RoundHalfDownAmount

(* commitRound keeps the amount, and changes nothing the second time. *)
LEMMA CommitRoundKeeps ==
    ASSUME NEW t \in TextType
    PROVE  /\ CommitRound(t) \in TextType
           /\ Amount(CommitRound(t)) = Amount(t)
           /\ CommitRound(CommitRound(t)) = CommitRound(t)
<1>1. CASE t = Empty
  BY <1>1 DEF CommitRound
<1>2. CASE t # Empty
  <2> DEFINE n == NoLeadingZeros(t.int)
             t2 == [t EXCEPT !.int = n]
             c == RoundHalfDown(t2)
             n2 == NoLeadingZeros(c.int)
             c2 == [c EXCEPT !.int = n2]
  <2>0. t.int \in Seq(Digits) /\ t.frac \in Seq(Digits)
    BY DEF TextType
  <2>1. CommitRound(t) = c
    BY <1>2 DEF CommitRound
  <2>2. n \in Seq(Digits) /\ Number(n) = Number(t.int) /\ (n # <<>> => n[1] # 0)
    BY <2>0, NoLeadingZerosKeeps
  <2>3. t2 \in TextType /\ t2.int = n /\ t2.frac = t.frac
    BY <2>2 DEF TextType
  <2>4. /\ c \in TextType /\ c.sep /\ Len(c.frac) = Dp /\ c.int # <<>>
        /\ Number(c.int \o c.frac)
             = Number(n \o Hundredths(t2)) + (IF RoundsUp(t2) THEN 1 ELSE 0)
        /\ Trimmed(Units(t2)) => Trimmed(c.int)
    <3> HIDE DEF t2
    <3>. QED
      BY <2>3, RoundHalfDownAmount
  <2>5. Hundredths(t2) = Hundredths(t) /\ (RoundsUp(t2) <=> RoundsUp(t))
    <3> HIDE DEF t2
    <3>1. Rest(t2) = Rest(t)
      BY <2>3 DEF Rest
    <3>2. Hundredths(t2) = Hundredths(t)
      BY <2>3 DEF Hundredths
    <3>. QED
      BY <3>1, <3>2 DEF RoundsUp
  <2>6. Number(n \o Hundredths(t)) = Number(t.int \o Hundredths(t))
    <3>1. Hundredths(t) \in Seq(Digits)
      BY <2>0 DEF Hundredths, Digits, Dp
    <3>. QED
      BY <2>0, <2>2, <3>1, NumberConcat
  <2>7. Trimmed(c.int)
    <3>1. Units(t2) = IF n = <<>> THEN <<0>> ELSE n
      BY <2>3 DEF Units
    <3>2. Trimmed(Units(t2))
      BY <2>2, <3>1 DEF Trimmed
    <3>. QED
      BY <2>4, <3>2
  <2> HIDE DEF c
  <2>8. c.int \in Seq(Digits) /\ c.frac \in Seq(Digits) /\ c.sep = TRUE /\ c # Empty
    BY <2>4 DEF TextType, Empty, Text
  <2>9. RoundHalfDown(c) = Text(c.int, c.frac, TRUE) /\ Units(c) = c.int
    BY <2>4, RoundHalfDownAmount DEF Units
  <2>10. Amount(c) = <<Number(c.int \o c.frac)>>
    BY <2>8, <2>9 DEF Amount, Text
  <2>11. Amount(c) = Amount(t)
    <3>1. Number(c.int \o c.frac)
             = Number(t.int \o Hundredths(t)) + (IF RoundsUp(t) THEN 1 ELSE 0)
      BY <2>4, <2>5, <2>6
    <3>. QED
      BY <1>2, <2>10, <3>1, AmountOf
  <2>12. n2 \in Seq(Digits) /\ c.int = IF n2 = <<>> THEN <<0>> ELSE n2
    BY <2>7, <2>8, NoLeadingZerosKeeps
  <2>13. c2 \in TextType /\ c2.int = n2 /\ c2.frac = c.frac
    BY <2>4, <2>12 DEF TextType
  <2>14. Units(c2) = c.int
    BY <2>12, <2>13 DEF Units
  <2>15. CommitRound(c) = RoundHalfDown(c2)
    BY <2>8 DEF CommitRound
  <2>16. RoundHalfDown(c2) = Text(Units(c2), c2.frac, TRUE)
    <3> HIDE DEF c2
    <3>. QED
      BY <2>4, <2>13, RoundHalfDownAmount
  <2>17. c = Text(c.int, c.frac, TRUE)
    BY <2>4, <2>8 DEF TextType, Text
  <2>18. CommitRound(c) = c
    BY <2>13, <2>14, <2>15, <2>16, <2>17
  <2>. QED
    BY <2>1, <2>4, <2>11, <2>18
<1>. QED
  BY <1>1, <1>2

(* f is the recursive function behind what is kept of raw. *)
IsOuts(raw, f) ==
    f = [n \in 0..Len(raw) |-> IF n = 0 THEN Empty ELSE Kept(f[n - 1], raw[n])]

(* The recursive function behind sanitizeForEditing exists. *)
LEMMA OutsUnfold ==
    ASSUME NEW s \in Seq(Chars)
    PROVE  IsOuts(s, Outs(s))
<1> DEFINE P == {u \in Seq(Chars) : \E f : IsOuts(u, f)}
<1>1. <<>> \in P
  <2>1. IsOuts(<<>>, [n \in 0..0 |-> Empty])
    BY DEF IsOuts
  <2>. QED
    BY <2>1
<1>2. ASSUME NEW u \in Seq(Chars), NEW x \in Chars, u \in P
      PROVE  Append(u, x) \in P
  <2>1. PICK f : IsOuts(u, f)
    BY <1>2
  <2> DEFINE m == Len(u) + 1
             g == [n \in 0..m |-> IF n = m THEN Kept(f[Len(u)], x) ELSE f[n]]
  <2>2. Append(u, x) \in Seq(Chars) /\ Len(Append(u, x)) = m /\ m \in Nat \ {0}
    OBVIOUS
  <2>3. ASSUME NEW n \in 0..m
        PROVE  g[n] = IF n = 0 THEN Empty ELSE Kept(g[n - 1], Append(u, x)[n])
    <3>1. CASE n = 0
      BY <2>1, <3>1 DEF IsOuts
    <3>2. CASE n # 0 /\ n # m
      <4>1. n \in 0..Len(u) /\ n - 1 \in 0..Len(u) /\ Append(u, x)[n] = u[n]
        BY <3>2
      <4>2. f[n] = Kept(f[n - 1], u[n])
        BY <2>1, <3>2, <4>1 DEF IsOuts
      <4>3. g[n] = f[n] /\ g[n - 1] = f[n - 1]
        BY <3>2, <4>1
      <4>. QED
        BY <3>2, <4>1, <4>2, <4>3
    <3>3. CASE n = m
      <4>1. /\ Append(u, x)[m] = x /\ m - 1 = Len(u) /\ m - 1 \in 0..m
            /\ m \in 0..m /\ m - 1 # m
        OBVIOUS
      <4>2. g[m] = Kept(f[Len(u)], x) /\ g[m - 1] = f[Len(u)]
        BY <4>1
      <4>. QED
        BY <2>2, <3>3, <4>1, <4>2
    <3>. QED
      BY <3>1, <3>2, <3>3
  <2>4. IsOuts(Append(u, x), g)
    BY <2>2, <2>3 DEF IsOuts
  <2>. QED
    BY <2>2, <2>4
<1>3. Seq(Chars) \subseteq P
  <2> HIDE DEF P
  <2>. QED
    BY <1>1, <1>2, SeqInduction
<1>4. \E f : IsOuts(s, f)
  BY <1>3
<1>5. Outs(s) = CHOOSE f : IsOuts(s, f)
  BY DEF Outs, IsOuts
<1>. QED
  BY <1>4, <1>5

(* sanitizeForEditing leaves digits and one separator. *)
LEMMA SanitizedIsText ==
    ASSUME NEW raw \in Seq(Chars)
    PROVE  SanitizeForEditing(raw) \in TextType
<1> DEFINE f == Outs(raw)
           P == {n \in Nat : n <= Len(raw) => f[n] \in TextType}
<1>1. IsOuts(raw, f)
  BY OutsUnfold
<1>2. 0 \in P
  <2>1. f[0] = Empty
    BY <1>1 DEF IsOuts
  <2>2. Empty \in TextType
    BY DEF Empty, Text, TextType
  <2>. QED
    BY <2>1, <2>2
<1>3. ASSUME NEW n \in Nat, n \in P PROVE n + 1 \in P
  <2> SUFFICES ASSUME n + 1 <= Len(raw) PROVE f[n + 1] \in TextType
    OBVIOUS
  <2>1. f[n] \in TextType /\ raw[n + 1] \in Chars
    BY <1>3
  <2>2. n + 1 \in 0..Len(raw) /\ n + 1 # 0 /\ (n + 1) - 1 = n
    OBVIOUS
  <2>3. f[n + 1] = Kept(f[n], raw[n + 1])
    BY <1>1, <2>2 DEF IsOuts
  <2>4. ASSUME NEW out \in TextType, NEW ch PROVE Kept(out, ch) \in TextType
    <3>1. out.int \in Seq(Digits) /\ out.frac \in Seq(Digits)
      BY DEF TextType
    <3>2. CASE ch \in Digits /\ out.sep
      <4>1. Kept(out, ch) = [out EXCEPT !.frac = Append(out.frac, ch)]
        BY <3>2 DEF Kept
      <4>2. Append(out.frac, ch) \in Seq(Digits)
        BY <3>1, <3>2
      <4>. QED
        BY <4>1, <4>2 DEF TextType
    <3>3. CASE ch \in Digits /\ ~out.sep
      <4>1. Kept(out, ch) = [out EXCEPT !.int = Append(out.int, ch)]
        BY <3>3 DEF Kept
      <4>2. Append(out.int, ch) \in Seq(Digits)
        BY <3>1, <3>3
      <4>. QED
        BY <4>1, <4>2 DEF TextType
    <3>4. CASE ch \notin Digits
      <4>1. Kept(out, ch) = [out EXCEPT !.sep = TRUE] \/ Kept(out, ch) = out
        BY <3>4 DEF Kept
      <4>. QED
        BY <4>1 DEF TextType
    <3>. QED
      BY <3>2, <3>3, <3>4
  <2>. QED
    BY <2>1, <2>3, <2>4
<1> HIDE DEF P
<1>4. Nat \subseteq P
  BY <1>2, <1>3, Induction
<1>. QED
  BY <1>4 DEF P, SanitizeForEditing

(* The hundredth nearest to what was typed. *)
LEMMA RestRounds ==
    ASSUME NEW t \in TextType, Rest(t) # <<>>
    PROVE  LET unit == Unit(Len(Rest(t)))
               rest == Number(Rest(t))
           IN  /\ rest \in Nat /\ rest < unit
               /\ RoundsUp(t) <=> 2 * rest > unit
<1> DEFINE r == Rest(t)
           d == r[1]
           tail == SubSeq(r, 2, Len(r))
           u == Unit(Len(tail))
<1>1. r \in Seq(Digits) /\ Len(r) \in Nat \ {0} /\ d \in Digits /\ d \in 0..9
  BY DEF Rest, TextType, Dp, Digits
<1> HIDE DEF r
<1>2. /\ tail \in Seq(Digits) /\ Len(tail) = Len(r) - 1 /\ r = <<d>> \o tail
      /\ <<d>> \in Seq(Digits) /\ \A i \in 1..Len(tail) : tail[i] = r[i + 1]
  BY <1>1
<1> HIDE DEF d, tail
<1>3. Number(r) = d * u + Number(tail) /\ Number(r) \in Nat /\ Number(r) < Unit(Len(r))
  BY <1>1, <1>2, NumberConcat, NumberDigit, NumberBounds, NumberNat
<1>4. Number(tail) \in Nat /\ Number(tail) < u /\ u \in Nat
  BY <1>2, NumberBounds, NumberNat, UnitStep
<1>5. Unit(Len(r)) = 10 * u
  <2>1. Len(tail) \in Nat /\ Len(r) = Len(tail) + 1
    BY <1>1, <1>2
  <2>. QED
    BY <2>1, UnitStep
<1>6. (\E i \in 2..Len(r) : r[i] # 0) <=> Number(tail) # 0
  <2>1. (\E i \in 2..Len(r) : r[i] # 0) <=> ~(\A i \in 1..Len(tail) : tail[i] = 0)
    <3>1. ASSUME NEW i \in 2..Len(r), r[i] # 0 PROVE \E k \in 1..Len(tail) : tail[k] # 0
      <4>1. i - 1 \in 1..Len(tail) /\ tail[i - 1] = r[(i - 1) + 1]
        BY <1>1, <1>2
      <4>. QED
        BY <3>1, <4>1
    <3>2. ASSUME NEW k \in 1..Len(tail), tail[k] # 0 PROVE \E i \in 2..Len(r) : r[i] # 0
      <4>1. k + 1 \in 2..Len(r) /\ tail[k] = r[k + 1]
        BY <1>1, <1>2
      <4>. QED
        BY <3>2, <4>1
    <3>. QED
      BY <3>1, <3>2
  <2>. QED
    BY <1>2, <2>1, NumberBounds
<1>7. RoundsUp(t) <=> d > 5 \/ (d = 5 /\ Number(tail) # 0)
  BY <1>6 DEF RoundsUp, r, d
<1>8. RoundsUp(t) <=> 2 * Number(r) > 10 * u
  <2>1. CASE d > 5
    <3>1. d * u >= 6 * u
      BY <1>1, <1>4, <2>1
    <3>. QED
      BY <1>1, <1>3, <1>4, <1>7, <2>1, <3>1
  <2>2. CASE d = 5
    BY <1>3, <1>4, <1>7, <2>2
  <2>3. CASE d < 5
    <3>1. d * u <= 4 * u
      BY <1>1, <1>4, <2>3
    <3>. QED
      BY <1>1, <1>3, <1>4, <1>7, <2>3, <3>1, SMTT(30)
  <2>. QED
    BY <1>1, <2>1, <2>2, <2>3
<1>. QED
  BY <1>3, <1>5, <1>8 DEF r

(* PriceInput.tsx 73-97, 113-146: the rounding is right for every text a user can
   type, of any length and with any run of nines. *)
THEOREM RoundingIsRight ==
    ASSUME NEW raws \in SUBSET Seq(Chars)
    PROVE  RoundsRight(raws)
<1> SUFFICES ASSUME NEW raw \in raws
             PROVE  LET t == SanitizeForEditing(raw)
                        long == IF Len(t.frac) <= Dp THEN ToFixedDp(t.int, t.frac) ELSE t
                        typed == Number(long.int \o long.frac)
                        unit == Unit(Len(long.frac) - Dp)
                    IN  t # Empty =>
                          /\ -unit < 2 * (typed - unit * Amount(t)[1])
                          /\ 2 * (typed - unit * Amount(t)[1]) <= unit
                          /\ Amount(CommitRound(t)) = Amount(t)
                          /\ CommitRound(CommitRound(t)) = CommitRound(t)
  BY DEF RoundsRight
<1> DEFINE t == SanitizeForEditing(raw)
           h == Hundredths(t)
           a == Number(t.int \o h)
           long == IF Len(t.frac) <= Dp THEN ToFixedDp(t.int, t.frac) ELSE t
           typed == Number(long.int \o long.frac)
           unit == Unit(Len(long.frac) - Dp)
<1>1. t \in TextType
  BY SanitizedIsText
<1> HIDE DEF t
<1> SUFFICES ASSUME t # Empty
             PROVE  /\ -unit < 2 * (typed - unit * Amount(t)[1])
                    /\ 2 * (typed - unit * Amount(t)[1]) <= unit
  BY <1>1, CommitRoundKeeps DEF t
<1>2. t.int \in Seq(Digits) /\ t.frac \in Seq(Digits) /\ Dp \in Nat /\ Len(t.frac) \in Nat
  BY <1>1 DEF TextType, Dp
<1>3. h \in Seq(Digits) /\ Len(h) = Dp
  BY <1>2 DEF Hundredths, Digits, Dp
<1>4. a \in Nat
  <2>1. t.int \o h \in Seq(Digits)
    BY <1>2, <1>3
  <2>. QED
    BY <2>1, NumberNat
<1>5. Amount(t)[1] = a + (IF RoundsUp(t) THEN 1 ELSE 0)
  BY <1>1, AmountOf
<1>6. CASE Len(t.frac) <= Dp
  <2>1. long.int = t.int /\ long.frac = h
    BY <1>6 DEF ToFixedDp, Text, Hundredths
  <2>2. typed = a /\ unit = 1
    <3>1. Len(long.frac) - Dp = 0
      BY <1>2, <1>3, <2>1
    <3>2. unit = 1
      BY <3>1, UnitStep
    <3>. QED
      BY <2>1, <3>2
  <2>3. ~RoundsUp(t)
    <3>1. Rest(t) = <<>>
      BY <1>2, <1>6 DEF Rest
    <3>. QED
      BY <3>1 DEF RoundsUp
  <2> HIDE DEF typed, unit, a
  <2>. QED
    BY <1>4, <1>5, <2>2, <2>3
<1>7. CASE Len(t.frac) > Dp
  <2> DEFINE r == Rest(t)
             rest == Number(r)
  <2>1. long = t
    BY <1>2, <1>7
  <2>2. r \in Seq(Digits) /\ Len(r) = Len(t.frac) - Dp /\ r # <<>> /\ t.frac = h \o r
    <3>1. r \in Seq(Digits) /\ Len(r) = Len(t.frac) - Dp
      BY <1>2, <1>7 DEF Rest
    <3>2. r # <<>>
      <4> HIDE DEF r
      <4>1. Len(r) # 0
        BY <1>2, <1>7, <3>1
      <4>. QED
        BY <4>1
    <3>3. t.frac = h \o r
      BY <1>2, <1>3, <1>7 DEF Rest, Hundredths, Dp
    <3>. QED
      BY <3>1, <3>2, <3>3
  <2>3. rest \in Nat /\ rest < unit /\ (RoundsUp(t) <=> 2 * rest > unit)
    BY <1>1, <2>1, <2>2, RestRounds
  <2>4. typed = a * unit + rest /\ unit \in Nat
    <3> HIDE DEF h, r
    <3>1. t.int \o h \in Seq(Digits) /\ t.int \o t.frac = (t.int \o h) \o r
      <4>1. t.int \o h \in Seq(Digits)
        BY <1>2, <1>3
      <4>2. t.int \o (h \o r) = (t.int \o h) \o r
        <5>0. t.int \in Seq(Digits) /\ h \in Seq(Digits) /\ r \in Seq(Digits)
          BY <1>2, <1>3, <2>2
        <5>1. \A x, y, z \in Seq(Digits) : x \o (y \o z) = (x \o y) \o z
          <6> TAKE x, y, z \in Seq(Digits)
          <6> QED OBVIOUS
        <5>. QED
          BY <5>0, <5>1, Zenon
      <4>. QED
        BY <2>2, <4>1, <4>2
    <3>2. Number((t.int \o h) \o r) = Number(t.int \o h) * Unit(Len(r)) + Number(r)
      BY <2>2, <3>1, NumberConcat
    <3>3. unit = Unit(Len(r)) /\ Len(r) \in Nat
      <4> HIDE DEF long
      <4>. QED
        BY <2>1, <2>2
    <3>. QED
      BY <2>1, <3>1, <3>2, <3>3, UnitStep
  <2> HIDE DEF typed, unit, a, rest
  <2>5. CASE RoundsUp(t)
    <3>1. typed - unit * (a + 1) = rest - unit
      BY <1>4, <2>3, <2>4
    <3>. QED
      BY <1>5, <2>3, <2>4, <2>5, <3>1
  <2>6. CASE ~RoundsUp(t)
    <3>1. typed - unit * a = rest /\ a + 0 = a
      BY <1>4, <2>3, <2>4
    <3>. QED
      BY <1>5, <2>3, <2>4, <2>6, <3>1
  <2>. QED
    BY <2>5, <2>6
<1>. QED
  BY <1>2, <1>6, <1>7

(* PriceInput.tsx 73-97, 113-146: whatever texts there are, they are rounded right. *)
THEOREM AmountsAreRounded == Spec => []RoundsHalfDown
<1>1. RoundsHalfDown
  BY BetSlipAssumption, RoundingIsRight DEF RoundsHalfDown
<1> QED BY <1>1, PTL

(* Inductive: the slip holds the amount of a text, when it is closed too. *)
StakeInv ==
    /\ DOMAIN slip = {"mount", "text", "amount", "key", "pending", "success"}
    /\ slip.text \in TextType /\ slip.amount = Amount(slip.text)

(* A slip that is closed or has just been opened has no text and no amount. *)
LEMMA ClosedHolds ==
    ASSUME NEW mount, slip' = Closed \/ slip' = [Closed EXCEPT !.mount = mount]
    PROVE  StakeInv'
<1>1. /\ DOMAIN slip' = {"mount", "text", "amount", "key", "pending", "success"}
      /\ slip'.text = Empty /\ slip'.amount = <<>>
  BY DEF Closed
<1>2. Empty \in TextType /\ Amount(Empty) = <<>>
  BY DEF Empty, Text, TextType, Amount
<1> QED BY <1>1, <1>2 DEF StakeInv

(* No step takes the amount apart from the text. *)
LEMMA StakeStep == StakeInv /\ [Next]_vars => StakeInv'
<1> SUFFICES ASSUME StakeInv, [Next]_vars
             PROVE  StakeInv'
  OBVIOUS
<1>0. /\ DOMAIN slip = {"mount", "text", "amount", "key", "pending", "success"}
      /\ slip.text \in TextType /\ slip.amount = Amount(slip.text)
  BY DEF StakeInv
<1>1. ASSUME DOMAIN slip' = DOMAIN slip, slip'.text \in {slip.text, CommitRound(slip.text)},
             slip'.amount = slip.amount
      PROVE  StakeInv'
  BY <1>0, <1>1, CommitRoundKeeps DEF StakeInv
<1>2. CASE OpenBet \/ Resize
  BY <1>2, ClosedHolds DEF OpenBet, Resize
<1>3. CASE CloseModal
  BY <1>3, ClosedHolds DEF CloseModal
<1>4. CASE \E raw \in Raws : Type(raw)
  <2>1. PICK raw \in Raws : Type(raw)
    BY <1>4
  <2> DEFINE text == SanitizeForEditing(raw)
  <2>2. slip' = [slip EXCEPT !.text = text, !.amount = Amount(text)]
    BY <2>1 DEF Type
  <2>3. text \in TextType
    BY BetSlipAssumption, SanitizedIsText
  <2> HIDE DEF text
  <2> QED BY <1>0, <2>2, <2>3 DEF StakeInv
<1>5. CASE Blur \/ ClickBet
  <2>1. \/ slip' = [slip EXCEPT !.text = CommitRound(slip.text)]
        \/ \E key : slip' = [slip EXCEPT !.text = CommitRound(slip.text), !.key = key,
                                         !.pending = TRUE]
    BY <1>5 DEF Blur, ClickBet
  <2> QED BY <1>0, <1>1, <2>1
<1>6. CASE \E r \in wire : BetAnswered(r) \/ BetFails(r)
  <2>1. \/ slip' = slip \/ slip' = [slip EXCEPT !.pending = FALSE]
        \/ slip' = [slip EXCEPT !.pending = FALSE, !.success = TRUE]
    BY <1>6 DEF BetAnswered, BetFails
  <2> QED BY <1>0, <1>1, <2>1
<1>7. CASE \/ UNCHANGED vars
           \/ \E q \in Lists : Serve(q) \/ FetchDone(q) \/ FetchFails(q)
           \/ \E p \in Lists \cup {"home"} : Visit(p)
           \/ \E r \in wire : \/ ServeBet(r) \/ CashoutReads(r) \/ CashoutCommits(r)
                              \/ CashoutAnswered(r) \/ CashoutFails(r)
           \/ \E b \in Bets : FirstClick(b) \/ ClickCashout(b)
           \/ OtherTrades \/ PauseMarket \/ ResumeMarket \/ PushMarket \/ PushBalance
           \/ \E status \in Results : Resolve(status)
  <2>1. slip' = slip
    BY <1>7 DEF vars, Serve, FetchDone, FetchFails, Visit, ServeBet, CashoutReads,
       CashoutCommits, CashoutAnswered, CashoutFails, FirstClick, ClickCashout, OtherTrades,
       PauseMarket, ResumeMarket, PushMarket, PushBalance, Resolve
  <2> QED BY <1>1, <2>1
<1> QED BY <1>2, <1>3, <1>4, <1>5, <1>6, <1>7 DEF Next

(* BetModal.tsx 101, 247-252, PriceInput.tsx 113-146: the amount a bet takes is the one
   the field shows, whatever was typed and however often the field was left. *)
THEOREM StakeStaysShown == Spec => []StakeIsShown
<1>1. Init => StakeInv
  <2> SUFFICES ASSUME Init
               PROVE  StakeInv
    OBVIOUS
  <2>1. slip = Closed
    BY DEF Init
  <2>2. Empty \in TextType /\ Amount(Empty) = <<>>
    BY DEF Empty, Text, TextType, Amount
  <2> QED BY <2>1, <2>2 DEF StakeInv, Closed
<1>2. StakeInv => StakeIsShown
  BY DEF StakeInv, StakeIsShown
<1> QED BY <1>1, <1>2, StakeStep, PTL DEF Spec

=============================================================================
