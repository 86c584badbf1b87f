------------------------------ MODULE BetSlip ------------------------------
(***************************************************************************)
(* A logged in user in a browser tab placing bets on one outcome and       *)
(* cashing them out: the bet slip (BetModal), the lists of bets (mybets    *)
(* and MarketBetSection) with their cashout buttons, and what the server   *)
(* does of the requests.  The market maker is a price level: buying raises *)
(* it, cashing out lowers it, a higher level pays less to a new bet and    *)
(* more to a cashout.                                                      *)
(*                                                                         *)
(* Every request takes its steps: it is sent, the server serves it, and    *)
(* the answer is handled or lost.  A Math.random() key is a number drawn   *)
(* when it is first sent.                                                  *)
(***************************************************************************)
EXTENDS PriceInput, FiniteSets, FiniteSetsExt, QueryCache

CONSTANTS
    Funds,        \* the balance at the start, in cents
    MaxLevel,     \* the level at the cap price
    Raws,         \* what the user may type
    Texts,        \* the texts the rounding is evaluated on
    Results,      \* how the market may end for the bets: "won", "lost", "cancelled"
    Lists,        \* the pages with a list of bets: "market", "active", "resolved"
    PageSize,     \* bets on a page of a list
    MaxEvents,    \* bound: clicks, answers lost, trades of others
    MaxMoves      \* bound: pages visited and slips mounted

ASSUME BetSlipAssumption ==
    /\ Funds \in Nat /\ MaxLevel \in Nat \ {0}
    /\ Raws \subseteq Seq(Chars) /\ Texts \subseteq Seq(Chars)
    /\ Results \subseteq {"won", "lost", "cancelled"} /\ PageSize \in Nat
    /\ Lists \subseteq {"market", "active", "resolved"}
    /\ MaxEvents \in Nat /\ MaxMoves \in Nat

VARIABLES
    bets,       \* the rows of bets, in the order of their insertion
    cashouts,   \* the rows of bet_cashouts
    balance,
    market,     \* the level of the market and its status
    seen,       \* the market in the query cache, kept up to date by pushes
    purse,      \* the balance in the query cache
    slip,       \* the bet modal
    cards,      \* BetUser and BetCard, by bet
    wire,       \* the requests and answers on their way
    cache,      \* the ['userBets'] queries
    page,
    told,       \* the bets whose success was shown
    missed,     \* the queries that may be behind without the tab knowing
    keys,       \* the idempotency keys drawn
    events, moves

vars == <<bets, cashouts, balance, market, seen, purse, slip, cards, wire, cache, page,
          told, missed, keys, events, moves>>

server == <<bets, cashouts, balance, market>>
bounds == <<events, moves>>
shown == <<seen, purse>>
lists == <<cache, page, missed>>

Event == events < MaxEvents /\ events' = events + 1 /\ UNCHANGED moves
Move == moves < MaxMoves /\ moves' = moves + 1 /\ UNCHANGED events

Bets == 1..MaxEvents
Closed == [mount |-> 0, text |-> Empty, amount |-> <<>>, key |-> 0, pending |-> FALSE,
           success |-> FALSE]
NoCard == [clicked |-> FALSE, key |-> 0, pending |-> FALSE]
NoCards == [b \in Bets |-> NoCard]

-----------------------------------------------------------------------------
(* The market maker, as the slip and the cards quote it and as the server prices
   it: whether the price stays under the cap, and what is paid. *)

PossibleForSpend(m) == m.level < MaxLevel
PayoutForSpend(m, spend) == spend * (MaxLevel + 1 - m.level)
PossibleForCashout(m) == m.level > 0
PayoutForCashout(m, payout) == (payout * m.level) \div (MaxLevel + 1)

(* isMarketActive. *)
IsMarketActive(m) == m.status = "opened"

-----------------------------------------------------------------------------
(* The lists. *)

Cashed(b) == \E i \in DOMAIN cashouts : cashouts[i].bet = b

(* SearchBets: the status of a bet, and the first page of a list.  The resolved bets are in
   the order of what ended them, a cashout or the settlement; the ids, which decide between
   those of one settlement, are random, and here as the insertion. *)
Status(b) ==
    CASE Cashed(b) -> "cashedOut"
      [] ~Cashed(b) /\ market.status \in {"opened", "paused"} -> "active"
      [] ~Cashed(b) /\ market.status \in {"won", "lost"} -> market.status
      [] OTHER -> "unknown"
Listed(q) ==
    {b \in DOMAIN bets : Status(b) \in IF q = "resolved" THEN {"won", "lost", "cashedOut"}
                                     ELSE {"active"}}
EventAt(b) == IF Cashed(b) THEN CHOOSE i \in DOMAIN cashouts : cashouts[i].bet = b
              ELSE Len(cashouts) + 1
Precedes(q, b, c) ==
    IF q = "resolved" /\ EventAt(b) # EventAt(c) THEN EventAt(b) > EventAt(c) ELSE b > c
Answer(q) ==
    {<<b, Status(b)>> : b \in {b \in Listed(q) :
        Cardinality({c \in Listed(q) : Precedes(q, c, b)}) < PageSize}}

Serve(q) ==
    /\ cache[q].phase = "sent"
    /\ cache' = [cache EXCEPT ![q].phase = "served", ![q].answer = <<Answer(q)>>]
    /\ missed' = missed \ {q}
    /\ UNCHANGED <<server, shown, slip, cards, wire, page, told, keys, bounds>>

(* The key of the element around the cards of mybets is Math.random(): whenever the
   page renders anew all its cards are mounted anew.  BetCards are kept by bet. *)
Remounted(q, c) ==
    CASE q # page -> cards
      [] q = page /\ page = "market" ->
            [b \in Bets |-> IF <<b, "active">> \in c.data[1]
                            THEN cards[b] ELSE NoCard]
      [] OTHER -> IF c.data = cache[q].data /\ c.failed = cache[q].failed
                  THEN cards ELSE NoCards

FetchDone(q) ==
    /\ cache[q].phase = "served"
    /\ cache' = [cache EXCEPT ![q] = Answered(@)]
    /\ cards' = Remounted(q, cache'[q])
    /\ UNCHANGED <<server, shown, slip, wire, page, told, missed, keys, bounds>>

(* mybets then shows the error instead of the bets. *)
FetchFails(q) ==
    /\ cache[q].phase # "idle" /\ Event
    /\ cache' = [cache EXCEPT ![q] = Failed(@)]
    /\ cards' = IF q = page /\ page # "market" THEN NoCards ELSE cards
    /\ missed' = missed \cup {q}
    /\ UNCHANGED <<server, shown, slip, wire, page, told, keys>>

(* A page is mounted, or the other tab of mybets is chosen; the lists are stale
   after five minutes. *)
Visit(p) ==
    /\ page # p /\ Move
    /\ page' = p
    /\ cards' = NoCards
    /\ \E old \in BOOLEAN :
          cache' = [q \in Lists |-> IF q = p THEN Mounted(cache[q], old) ELSE cache[q]]
    /\ UNCHANGED <<server, shown, slip, wire, told, missed, keys>>

(* invalidateQueries(['userBets']). *)
InvalidateUserBets(qs) ==
    /\ cache' = [q \in Lists |-> IF q \in qs THEN Invalidated(cache[q], q = page) ELSE cache[q]]
    /\ missed' = missed \cup
           {q \in qs : ~Restarts(cache[q], q = page) /\ cache[q].phase = "served"}
InvalidateShown == InvalidateUserBets(Lists \cap {page})
InvalidateAll == InvalidateUserBets(Lists)

-----------------------------------------------------------------------------
(* The bet slip. *)

(* openModal('bet'): the buttons of the cards and of the market page. *)
OpenBet ==
    /\ page \notin {"active", "resolved"} /\ slip = Closed
    /\ IsMarketActive(seen) /\ Move
    /\ slip' = [Closed EXCEPT !.mount = moves']
    /\ UNCHANGED <<server, shown, cards, wire, lists, told, keys>>

(* The window gets narrower or wider than 768 px: another container mounts the slip anew. *)
Resize ==
    /\ slip # Closed /\ Move
    /\ slip' = [Closed EXCEPT !.mount = moves']
    /\ UNCHANGED <<server, shown, cards, wire, lists, told, keys>>

(* The request goes on, and so does its onSuccess. *)
CloseModal ==
    /\ slip # Closed
    /\ slip' = Closed
    /\ UNCHANGED <<server, shown, cards, wire, lists, told, keys, bounds>>

Type(raw) ==
    /\ slip.mount # 0 /\ ~slip.success
    /\ LET text == SanitizeForEditing(raw)
       IN  slip' = [slip EXCEPT !.text = text, !.amount = Amount(text)]
    /\ UNCHANGED <<server, shown, cards, wire, lists, told, keys, bounds>>

Blur ==
    /\ slip.mount # 0 /\ ~slip.success
    /\ slip' = [slip EXCEPT !.text = CommitRound(@)]
    /\ UNCHANGED <<server, shown, cards, wire, lists, told, keys, bounds>>

ClickKey(held) == keys + 1
KeyOf(held) == IF held = 0 THEN keys + 1 ELSE held
Drawn(key) == keys' = IF key > keys THEN key ELSE keys

Request(kind, key, bet, mount, stake, quote) ==
    [kind |-> kind, key |-> key, bet |-> bet, mount |-> mount, stake |-> stake,
     quote |-> quote, phase |-> "sent", awaited |-> TRUE]

(* handleClickBet; the button is disabled while the request is pending. *)
ClickBet ==
    /\ slip.mount # 0 /\ ~slip.success /\ ~slip.pending
    /\ slip.amount # <<>> /\ slip.amount[1] # 0
    /\ PossibleForSpend(seen) /\ purse >= slip.amount[1] /\ Event
    /\ LET key == KeyOf(slip.key)
           stake == slip.amount[1]
       IN  /\ wire' = wire \cup {Request("bet", key, 0, slip.mount, stake,
                                         PayoutForSpend(seen, stake))}
           /\ slip' = [slip EXCEPT !.text = CommitRound(@), !.key = key, !.pending = TRUE]
           /\ Drawn(key)
    /\ UNCHANGED <<server, shown, cards, lists, told>>

Used(key) == \/ \E i \in DOMAIN bets : bets[i].key = key
             \/ \E i \in DOMAIN cashouts : cashouts[i].key = key
AsQuoted(gain, quote) == gain >= quote

Becomes(r, phase) == wire' = (wire \ {r}) \cup {[r EXCEPT !.phase = phase]}

(* The answer to a request that was given up is for nobody. *)
Taken(r) ==
    /\ IF r.awaited THEN Becomes(r, "served") ELSE wire' = wire \ {r}
    /\ missed' = IF r.awaited THEN missed ELSE Lists
Refused(r) ==
    /\ IF r.awaited THEN Becomes(r, "refused") ELSE wire' = wire \ {r}
    /\ missed' = missed

(* PlaceBet: one serializable transaction. *)
ServeBet(r) ==
    /\ r.kind = "bet" /\ r.phase = "sent"
    /\ LET gain == PayoutForSpend(market, r.stake)
       IN  IF /\ IsMarketActive(market) /\ balance >= r.stake /\ PossibleForSpend(market)
              /\ AsQuoted(gain, r.quote) /\ ~Used(r.key)
           THEN /\ bets' = Append(bets, [key |-> r.key, mount |-> r.mount, stake |-> r.stake,
                                         payout |-> gain, quote |-> r.quote])
                /\ balance' = balance - r.stake
                /\ market' = [market EXCEPT !.level = @ + 1]
                /\ Taken(r)
           ELSE Refused(r) /\ UNCHANGED <<bets, balance, market>>
    /\ UNCHANGED <<cashouts, shown, slip, cards, cache, page, told, keys, bounds>>

(* onSuccess; a slip that was closed meanwhile has nothing to show. *)
BetAnswered(r) ==
    /\ r.kind = "bet" /\ r.phase = "served"
    /\ wire' = wire \ {r}
    /\ slip' = IF slip.mount = r.mount
               THEN [slip EXCEPT !.pending = FALSE, !.success = TRUE] ELSE slip
    /\ told' = told \cup {b \in DOMAIN bets : bets[b].key = r.key}
    /\ InvalidateAll
    /\ UNCHANGED <<server, shown, cards, page, keys, bounds>>

(* An error: a refusal, or the connection broke: what was sent may still reach the server,
   and what was taken the tab does not learn of. *)
GivenUp(r) ==
    /\ r.awaited
    /\ IF r.phase = "refused" THEN UNCHANGED bounds ELSE Event
    /\ \/ wire' = wire \ {r}
       \/ r.phase \in {"sent", "read"} /\ wire' = (wire \ {r}) \cup {[r EXCEPT !.awaited = FALSE]}
    /\ missed' = IF r.phase = "served" THEN Lists ELSE missed

(* There is no onError: the button is enabled again and nothing is said.  The key
   stays that of the slip. *)
BetFails(r) ==
    /\ r.kind = "bet" /\ GivenUp(r)
    /\ slip' = IF slip.mount = r.mount THEN [slip EXCEPT !.pending = FALSE] ELSE slip
    /\ UNCHANGED <<server, shown, cards, cache, page, told, keys>>

-----------------------------------------------------------------------------
(* The cashout buttons. *)

(* BetCard also looks at isMarketActive, BetUser does not. *)
Enabled(b) ==
    /\ page \in Lists \ {"resolved"} /\ cache[page].data # <<>>
    /\ <<b, "active">> \in cache[page].data[1]
    /\ page = "active" => ~cache[page].failed
    /\ page = "market" => IsMarketActive(seen)
    /\ PossibleForCashout(seen) /\ ~cards[b].pending

FirstClick(b) ==
    /\ Enabled(b) /\ ~cards[b].clicked
    /\ cards' = [cards EXCEPT ![b].clicked = TRUE]
    /\ UNCHANGED <<server, shown, slip, wire, lists, told, keys, bounds>>

ClickCashout(b) ==
    /\ Enabled(b) /\ cards[b].clicked /\ Event
    /\ LET key == KeyOf(cards[b].key)
       IN  /\ wire' = wire \cup {Request("cashout", key, b, 0, 0,
                                         PayoutForCashout(seen, bets[b].payout))}
           /\ cards' = [cards EXCEPT ![b].key = key, ![b].pending = TRUE]
           /\ Drawn(key)
    /\ UNCHANGED <<server, shown, slip, lists, told>>

(* CashoutBet looks for an earlier cashout before its transaction begins. *)
CashoutReads(r) ==
    /\ r.kind = "cashout" /\ r.phase = "sent"
    /\ IF Cashed(r.bet) THEN Refused(r) ELSE Becomes(r, "read") /\ missed' = missed
    /\ UNCHANGED <<server, shown, slip, cards, cache, page, told, keys, bounds>>

(* cashoutBetOnce; the row meets UNIQUE (bet_id) of bet_cashouts. *)
CashoutCommits(r) ==
    /\ r.kind = "cashout" /\ r.phase = "read"
    /\ LET gain == PayoutForCashout(market, bets[r.bet].payout)
       IN  IF /\ IsMarketActive(market) /\ PossibleForCashout(market)
              /\ AsQuoted(gain, r.quote) /\ gain > 0
              /\ ~Used(r.key) /\ ~Cashed(r.bet)
           THEN /\ cashouts' = Append(cashouts, [bet |-> r.bet, key |-> r.key, payout |-> gain,
                                                 quote |-> r.quote])
                /\ balance' = balance + gain
                /\ market' = [market EXCEPT !.level = @ - 1]
                /\ Taken(r)
           ELSE Refused(r) /\ UNCHANGED <<cashouts, balance, market>>
    /\ UNCHANGED <<bets, shown, slip, cards, cache, page, told, keys, bounds>>

Released(r) == IF cards[r.bet].key = r.key THEN [cards EXCEPT ![r.bet].pending = FALSE] ELSE cards

CashoutAnswered(r) ==
    /\ r.kind = "cashout" /\ r.phase = "served"
    /\ wire' = wire \ {r}
    /\ cards' = Released(r)
    /\ InvalidateAll
    /\ UNCHANGED <<server, shown, slip, page, told, keys, bounds>>

CashoutFails(r) ==
    /\ r.kind = "cashout" /\ GivenUp(r)
    /\ cards' = Released(r)
    /\ UNCHANGED <<server, shown, slip, cache, page, told, keys>>

-----------------------------------------------------------------------------
(* The others. *)

(* Another user buys or cashes out. *)
OtherTrades ==
    /\ IsMarketActive(market) /\ Event
    /\ \E level \in {market.level - 1, market.level + 1} \cap (0..MaxLevel) :
          market' = [market EXCEPT !.level = level]
    /\ UNCHANGED <<bets, cashouts, balance, shown, slip, cards, wire, lists, told, keys>>

(* PauseMarket and ResumeMarket; a closing time that passes, or is moved, does the same. *)
PauseMarket ==
    /\ market.status = "opened" /\ Event
    /\ market' = [market EXCEPT !.status = "paused"]
    /\ UNCHANGED <<bets, cashouts, balance, shown, slip, cards, wire, lists, told, keys>>
ResumeMarket ==
    /\ market.status = "paused" /\ Event
    /\ market' = [market EXCEPT !.status = "opened"]
    /\ UNCHANGED <<bets, cashouts, balance, shown, slip, cards, wire, lists, told, keys>>

(* SettleMarket: every bet on the winning outcome is paid, one that was cashed out
   too.  CancelMarket, which cannot commit when there are bets.  Nothing tells the lists. *)
Resolve(status) ==
    /\ market.status \in {"opened", "paused"} /\ Event
    /\ status = "cancelled" => bets = <<>>
    /\ market' = [market EXCEPT !.status = status]
    /\ balance' = balance + (IF status # "won" THEN 0
                             ELSE MapThenSumSet(LAMBDA b : bets[b].payout, DOMAIN bets))
    /\ missed' = Lists
    /\ UNCHANGED <<bets, cashouts, shown, slip, cards, wire, cache, page, told, keys>>

(* The pushes of the market and of the balance reach the tab. *)
PushMarket ==
    /\ seen' = market
    /\ UNCHANGED <<server, purse, slip, cards, wire, lists, told, keys, bounds>>
PushBalance ==
    /\ purse' = balance
    /\ UNCHANGED <<server, seen, slip, cards, wire, lists, told, keys, bounds>>

-----------------------------------------------------------------------------
Init ==
    /\ bets = <<>> /\ cashouts = <<>> /\ balance = Funds /\ purse = Funds
    /\ market = [level |-> 0, status |-> "opened"] /\ seen = market
    /\ slip = Closed /\ cards = NoCards /\ wire = {}
    /\ page = "home" /\ cache = [q \in Lists |-> NoEntry]
    /\ told = {} /\ missed = {} /\ keys = 0
    /\ events = 0 /\ moves = 0

Next ==
    \/ \E q \in Lists : Serve(q) \/ FetchDone(q) \/ FetchFails(q)
    \/ \E p \in Lists \cup {"home"} : Visit(p)
    \/ OpenBet \/ Resize \/ CloseModal \/ Blur \/ ClickBet
    \/ \E raw \in Raws : Type(raw)
    \/ \E r \in wire : \/ ServeBet(r) \/ BetAnswered(r) \/ BetFails(r)
                       \/ CashoutReads(r) \/ CashoutCommits(r)
                       \/ CashoutAnswered(r) \/ CashoutFails(r)
    \/ \E b \in Bets : FirstClick(b) \/ ClickCashout(b)
    \/ OtherTrades \/ PauseMarket \/ ResumeMarket \/ PushMarket \/ PushBalance
    \/ \E status \in Results : Resolve(status)

(* The server answers and the tab handles the answer of a fetch. *)
Fairness == \A q \in Lists : WF_vars(Serve(q) \/ FetchDone(q) \/ FetchFails(q))

Spec == Init /\ [][Next]_vars /\ Fairness

-----------------------------------------------------------------------------
(* Properties. *)

(* The types; no balance is negative. *)
TypeOK ==
    /\ balance \in Nat /\ purse \in Nat
    /\ {market, seen} \subseteq [level : 0..MaxLevel, status : {"opened", "paused"} \cup Results]
    /\ slip.mount \in 0..MaxMoves /\ slip.key \in 0..keys
    /\ Len(bets) <= MaxEvents /\ DOMAIN cards = Bets
    /\ \A r \in wire : /\ r.phase \in {"sent", "read", "served", "refused"} /\ r.key \in 1..keys
                       /\ r.phase \in {"served", "refused"} => r.awaited
    /\ \A q \in Lists : cache[q].answer # <<>> <=> cache[q].phase = "served"
    /\ page \in Lists \cup {"home"} /\ told \subseteq DOMAIN bets /\ missed \subseteq Lists

(* BetModal.tsx 27, 121-129, transactions.go 196-230: a mount of the slip places at most one
   bet, however often its button is clicked again after answers that were refusals or were
   lost, and after requests that were given up and reach the server later.  A slip that is
   mounted anew, by a resize too, may place another. *)
OneBetPerMount ==
    \A i, j \in DOMAIN bets : bets[i].mount = bets[j].mount => i = j

(* BetModal.tsx 101, 247-252, PriceInput.tsx 113-146: the amount a bet takes is the one
   the field shows, before and after the blur that the click itself causes. *)
StakeIsShown == slip.mount # 0 => slip.amount = Amount(slip.text)

(* PriceInput.tsx 73-97, 113-146: RoundsRight, of all the texts: a fact without
   variables, evaluated in the initial state. *)
RoundsHalfDown == (events = 0 /\ moves = 0) => RoundsRight(Texts)

(* BetModal.tsx 60, BetUser.tsx 33, MarketBetSection.tsx 135: a list that nobody is
   fetching and that is not marked to be fetched is the first page of what the server
   holds, whatever the order of bets, cashouts, moves and fetches.  Nothing is claimed
   while an answer is on its way to the tab, nor, until the next fetch (missed), after
   the settlement or the cancellation of the market; a bet or cashout whose answer was
   lost, or that was taken after it was given up; a fetch that failed; and a fetch whose
   answer was under way at an invalidation that did not restart it. *)
ListTruthful ==
    \A q \in Lists :
        cache[q].data # <<>> /\ cache[q].phase = "idle" /\ ~cache[q].invalid
            /\ q \notin missed /\ (\A r \in wire : r.phase # "served")
        => cache[q].data = <<Answer(q)>>

(* BetModal.tsx 60, 306 "View Bets": a user who was told that bets are placed and looks
   at the active bets comes to see all of them there that are on the first page of the
   active ones, unless the page is left or one of the cases of ListTruthful intervenes
   (an answer on its way, failed, missed). *)
ToldIsListed ==
    (told # {} /\ page = "active")
        ~> \/ page # "active" \/ cache["active"].failed \/ "active" \in missed
           \/ \E r \in wire : r.phase = "served"
           \/ /\ cache["active"].data # <<>>
              /\ \A b \in told : <<b, "active">> \in Answer("active")
                                => <<b, "active">> \in cache["active"].data[1]

=============================================================================
