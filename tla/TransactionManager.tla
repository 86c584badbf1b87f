------------------------- MODULE TransactionManager -------------------------
(***************************************************************************)
(* TransactionManager and AdminManager of internal/market: markets from    *)
(* creation to their final status, bets, cashouts, settlement.             *)
(*                                                                         *)
(* AddBet, cashoutBetOnce, SettleMarket and CancelMarket run in one        *)
(* SERIALIZABLE transaction each, so one action is one committed           *)
(* transaction; an attempt that returns an error rolls back and changes    *)
(* nothing.  What the code does outside a transaction is a step of its     *)
(* own: CashoutBet reads the bet first and cashes it out later, the admin  *)
(* handlers read a market's status first and overwrite it later.           *)
(*                                                                         *)
(* The price of the shares (LS-LMSR) is abstracted to what AddBet and      *)
(* cashoutBetOnce require of it: a bet's payout is larger than its stake,  *)
(* and a cashout pays something positive and less than the payout.         *)
(***************************************************************************)
EXTENDS Ledger

CONSTANTS
    Users,          \* users; a user names her 'liability' account too
    MarketIds,      \* markets; a market names its house account too
    Custody,        \* the company account that deposits come from
    OutcomeIds,
    MarketOf,       \* outcomes.market_id
    ClientKeys,     \* idempotency keys sent by clients (at most 36 characters)
    DepositKeys,    \* idempotency keys of deposits
    Stakes,         \* bet amounts within minBetAmount .. maxBetAmount
    Payouts,        \* numbers of shares a bet may buy
    Deposits,       \* amounts deposited
    Q0,             \* markets.q0_seeding
    None

SettleKey(m, a) == <<"settle", m, a>>   \* fmt.Sprintf("settle:%s:%s", ...)

ASSUME ManagerAssumption ==
    /\ Accounts = Users \cup MarketIds \cup {Custody}
    /\ Users \cap MarketIds = {}
    /\ Custody \notin Users \cup MarketIds
    /\ AllowNegative = {Custody}
    /\ AllowPositive = Accounts
    /\ MarketOf \in [OutcomeIds -> MarketIds]
    /\ Keys = ClientKeys \cup DepositKeys \cup
                {SettleKey(m, u) : m \in MarketIds, u \in Users}
    /\ ClientKeys \cap DepositKeys = {}
    /\ \A m \in MarketIds, u \in Users :
          SettleKey(m, u) \notin ClientKeys \cup DepositKeys
    /\ Stakes \subseteq Nat \ {0}
    /\ Payouts \subseteq Nat
    /\ Deposits \subseteq Nat \ {0}
    /\ Q0 \in Nat
    /\ None \notin OutcomeIds

VARIABLES
    markets,        \* rows of markets
    outcomes,       \* rows of outcomes
    bets,           \* rows of bets; the idempotency key stands for the id
    cashouts,       \* rows of bet_cashouts
    resolutions,    \* market_resolutions: winning outcome of a market, or None
    cancellations,  \* market_cancellations: markets
    totalWagered,   \* users.total_wagered
    cashoutReqs,    \* CashoutBet calls that have read their bet
    statusReqs      \* PauseMarket, ResumeMarket calls that have read the status

tables == <<markets, outcomes, bets, cashouts, resolutions, cancellations,
            totalWagered>>
requests == <<cashoutReqs, statusReqs>>
vars == <<ledgerVars, tables, requests>>

Status == {"absent", "draft", "opened", "paused", "resolved", "cancelled"}
Final  == {"resolved", "cancelled"}
Side   == {"y", "n"}

Market  == [status : Status, closed : BOOLEAN, version : Nat, volume : Nat]
Outcome == [quantity : Nat, volume : Nat]
Bet     == [key : ClientKeys, account : Users, outcome : OutcomeIds,
            side : Side, payout : Nat, paid : Nat]
Cashout == [key : ClientKeys, bet : Bet, payout : Nat]

OutcomesOf(m) == {o \in OutcomeIds : MarketOf[o] = m}
BetsOn(m)     == {b \in bets : MarketOf[b.outcome] = m}
CashedOut(b)  == \E c \in cashouts : c.bet = b

(* The condition of the queries of addBetOnce and cashoutBetOnce.  now() is
   the transaction's start, so their second test of close_time agrees. *)
TradingAnyStatus(m) == ~ markets[m].closed
Trading(m) == markets[m].status = "opened" /\ ~ markets[m].closed

Init ==
    /\ LedgerInit
    /\ markets = [m \in MarketIds |->
          [status |-> "absent", closed |-> FALSE, version |-> 0, volume |-> 0]]
    /\ outcomes = [o \in OutcomeIds |-> [quantity |-> 0, volume |-> 0]]
    /\ bets = {} /\ cashouts = {}
    /\ resolutions = [m \in MarketIds |-> None]
    /\ cancellations = {}
    /\ totalWagered = [u \in Users |-> 0]
    /\ cashoutReqs = {} /\ statusReqs = {}

-----------------------------------------------------------------------------
(* A deposit: a transfer from custody, made by code outside this repository,
   to a user or to the house account of a market. *)
Deposit(a, amount, key) ==
    /\ TransferMoney(Custody, a, amount, key)
    /\ UNCHANGED <<tables, requests>>

(* AdminManager.CreateMarket: house account, draft market, outcomes seeded
   with q0 shares each. *)
CreateMarket(m) ==
    /\ markets[m].status = "absent"
    /\ markets' = [markets EXCEPT ![m].status = "draft"]
    /\ outcomes' = [o \in OutcomeIds |->
          IF MarketOf[o] = m THEN [outcomes[o] EXCEPT !.quantity = Q0]
          ELSE outcomes[o]]
    /\ UNCHANGED <<ledgerVars, bets, cashouts, resolutions, cancellations,
                   totalWagered, requests>>

(* The handlers PauseMarket and ResumeMarket: the status is read and tested. *)
ReadStatus(m, target) ==
    /\ markets[m].status \notin Final \cup {"absent"}
    /\ statusReqs' = statusReqs \cup {[market |-> m, target |-> target]}
    /\ UNCHANGED <<ledgerVars, tables, cashoutReqs>>

(* The trigger prevent_reopen_final_status accepts an update of status. *)
UpdateAlwaysAllowed(old, new) == TRUE
UpdateAllowed(old, new) == old \in Final => new = old

(* AdminManager.PauseMarket, ResumeMarket: an unconditional UPDATE, which the
   trigger may refuse. *)
WriteStatus(r) ==
    /\ r \in statusReqs
    /\ statusReqs' = statusReqs \ {r}
    /\ IF UpdateAllowed(markets[r.market].status, r.target)
         THEN markets' = [markets EXCEPT ![r.market].status = r.target]
         ELSE UNCHANGED markets
    /\ UNCHANGED <<ledgerVars, outcomes, bets, cashouts, resolutions,
                   cancellations, totalWagered, cashoutReqs>>

(* close_time passes, or UpdateMarketCloseTime moves it to either side of
   now: the bets of the market are refused, or accepted again. *)
SetCloseTime(m, past) ==
    /\ markets[m].status # "absent"
    /\ markets[m].closed # past
    /\ markets' = [markets EXCEPT ![m].closed = past]
    /\ UNCHANGED <<ledgerVars, outcomes, bets, cashouts, resolutions,
                   cancellations, totalWagered, requests>>

-----------------------------------------------------------------------------
(* The outcomes whose quantity and volume the UPDATE of addBetOnce changes.
   For "n" it is every other row of the table, of any market. *)
BoughtOutcomes(o, side) ==
    IF side = "y" THEN {o}
    ELSE {x \in OutcomeIds \ {o} : markets[MarketOf[x]].status # "absent"}

(* users.total_wagered after a bet *)
Wagered(u, amount) == [totalWagered EXCEPT ![u] = @ + amount]

(* PossibleGainPriceForBuy, and what AddBet asks of it: the gain that the
   client accepts is larger than the bet, and the quote is not below it. *)
BuyQuotes(amount) == {gain \in Payouts : gain > amount}

(* PossibleGainForSell: the shares minus the positive cost of the hedge; a
   quote that is not positive is refused. *)
SellQuotes(shares) == 1 .. shares - 1

BetRow(u, o, side, amount, gain, key) ==
    [key |-> key, account |-> u, outcome |-> o, side |-> side,
     payout |-> gain, paid |-> amount]

(* AddBet / addBetOnce, the attempt that commits. *)
AddBet(u, o, side, amount, gain, key) ==
    LET m == MarketOf[o] IN
    /\ Trading(m)
    /\ side = "n" => Cardinality(OutcomesOf(m)) # 2
    /\ amount <= balance[u]
    /\ gain \in BuyQuotes(amount)
    /\ TransferMoney(u, m, amount, key)
    /\ \A b \in bets : b.key # key
    /\ bets' = bets \cup {BetRow(u, o, side, amount, gain, key)}
    /\ outcomes' = [x \in OutcomeIds |->
          IF x \in BoughtOutcomes(o, side)
            THEN [quantity |-> outcomes[x].quantity + gain,
                  volume   |-> outcomes[x].volume + amount]
            ELSE outcomes[x]]
    /\ markets' = [markets EXCEPT ![m].version = @ + 1, ![m].volume = @ + amount]
    /\ totalWagered' = Wagered(u, amount)
    /\ UNCHANGED <<cashouts, resolutions, cancellations, requests>>

(* CashoutBet before its transaction: the bet is hers and not cashed out. *)
ReadBet(b, key) ==
    /\ b \in bets
    /\ ~ CashedOut(b)
    /\ cashoutReqs' = cashoutReqs \cup {[bet |-> b, key |-> key]}
    /\ UNCHANGED <<ledgerVars, tables, statusReqs>>

(* UNIQUE (bet_id) and UNIQUE (idempotency_key) of bet_cashouts. *)
CashoutKeyFree(b, key) == \A c \in cashouts : c.key # key
CashoutRowFree(b, key) == \A c \in cashouts : c.bet # b /\ c.key # key

(* quantity of an outcome after n shares are added to hedge *)
SharesRemoved(q, n) == q - n
Hedged(q, n) == q + n

(* cashoutBetOnce, the attempt that commits.  Whatever the side of the bet,
   the shares are added to the other outcomes of the market. *)
CashoutBet(r, gain) ==
    LET b == r.bet
        m == MarketOf[b.outcome] IN
    /\ r \in cashoutReqs
    /\ Trading(m)
    /\ TransferMoney(m, b.account, gain, r.key)
    /\ CashoutRowFree(b, r.key)
    /\ cashouts' = cashouts \cup {[key |-> r.key, bet |-> b, payout |-> gain]}
    /\ outcomes' = [x \in OutcomeIds |->
          IF x \in OutcomesOf(m) \ {b.outcome}
            THEN [outcomes[x] EXCEPT !.quantity = Hedged(@, b.payout)]
            ELSE outcomes[x]]
    /\ markets' = [markets EXCEPT ![m].version = @ + 1]
    /\ cashoutReqs' = cashoutReqs \ {r}
    /\ UNCHANGED <<bets, resolutions, cancellations, totalWagered, statusReqs>>

(* CashoutBet returns an error: a quote that is too low, a market that is not
   trading, a row that exists, funds that are missing, the last attempt, a
   request that was given up. *)
CashoutFails(r) ==
    /\ r \in cashoutReqs
    /\ cashoutReqs' = cashoutReqs \ {r}
    /\ UNCHANGED <<ledgerVars, tables, statusReqs>>

-----------------------------------------------------------------------------
(* The rows that SettleMarket aggregates: the bets on the winning outcome. *)
BetsOnAnyOutcome(o) == BetsOn(MarketOf[o])
PaidBets(o) == {b \in bets : b.outcome = o}

(* SUM(b.payout) of the bets in S *)
SumPayout(S) == SumFunction([b \in S |-> b.payout])

(* SettleMarket: the resolution row, the payment of every account with a bet
   on the winning outcome, the final status. *)
SettleMarket(o) ==
    LET m == MarketOf[o]
        winners == {b.account : b \in PaidBets(o)} IN
    /\ markets[m].status \in {"opened", "paused"}
    /\ resolutions[m] = None
    /\ \E due \in [winners -> 1 .. balance[m]] :
          /\ \A u \in winners :
                due[u] = SumPayout({b \in PaidBets(o) : b.account = u})
          /\ TransferAll(m, due, [u \in winners |-> SettleKey(m, u)])
    /\ resolutions' = [resolutions EXCEPT ![m] = o]
    /\ markets' = [markets EXCEPT ![m].status = "resolved",
                                  ![m].version = @ + 1]
    /\ UNCHANGED <<outcomes, bets, cashouts, cancellations, totalWagered,
                   requests>>

(* CancelMarket.  Its refunds call TransferMoney while the rows of the
   aggregate are still open on the transaction's connection, which the driver
   refuses ("conn busy"): it commits only when there is no row. *)
CancelMarket(m) ==
    /\ markets[m].status \in {"opened", "paused"}
    /\ m \notin cancellations
    /\ BetsOn(m) = {}
    /\ cancellations' = cancellations \cup {m}
    /\ markets' = [markets EXCEPT ![m].status = "cancelled",
                                  ![m].version = @ + 1]
    /\ UNCHANGED <<ledgerVars, outcomes, bets, cashouts, resolutions,
                   totalWagered, requests>>

Next ==
    \/ \E a \in Users \cup MarketIds, n \in Deposits, k \in DepositKeys :
          Deposit(a, n, k)
    \/ \E m \in MarketIds :
          \/ CreateMarket(m)
          \/ \E target \in {"opened", "paused"} : ReadStatus(m, target)
          \/ \E past \in BOOLEAN : SetCloseTime(m, past)
          \/ CancelMarket(m)
    \/ \E r \in statusReqs : WriteStatus(r)
    \/ \E u \in Users, o \in OutcomeIds, side \in Side,
          amount \in Stakes, gain \in Payouts, key \in ClientKeys :
          AddBet(u, o, side, amount, gain, key)
    \/ \E b \in bets, key \in ClientKeys : ReadBet(b, key)
    \/ \E r \in cashoutReqs :
          \/ \E gain \in SellQuotes(r.bet.payout) : CashoutBet(r, gain)
          \/ CashoutFails(r)
    \/ \E o \in OutcomeIds : SettleMarket(o)

Spec == Init /\ [][Next]_vars

-----------------------------------------------------------------------------
TypeOK ==
    /\ LedgerTypeOK
    /\ markets \in [MarketIds -> Market]
    /\ outcomes \in [OutcomeIds -> Outcome]
    /\ bets \subseteq Bet
    /\ cashouts \subseteq Cashout
    /\ resolutions \in [MarketIds -> OutcomeIds \cup {None}]
    /\ cancellations \subseteq MarketIds
    /\ totalWagered \in [Users -> Nat]
    /\ cashoutReqs \subseteq [bet : Bet, key : ClientKeys]
    /\ statusReqs \subseteq [market : MarketIds, target : {"opened", "paused"}]

BetTransfer(b) ==
    [key |-> b.key, from |-> b.account, to |-> MarketOf[b.outcome],
     amount |-> b.paid]
CashoutTransfer(c) ==
    [key |-> c.key, from |-> MarketOf[c.bet.outcome], to |-> c.bet.account,
     amount |-> c.payout]

(* Money trail: every bet and every cashout has its transfer, and every
   transfer is a deposit, the stake of a bet, the payment of a cashout or the
   payment of a settled market to a user with a bet on the winning outcome.
   One idempotency key never pays for two of them, although bets, cashouts
   and settlements share the key space of ledger_transfers and each inserts
   its own row in the same transaction. *)
MoneyTrail ==
    /\ OneTransferPerKey
    /\ \A b \in bets : BetTransfer(b) \in transfers
    /\ \A c \in cashouts : c.bet \in bets /\ CashoutTransfer(c) \in transfers
    /\ \A t \in transfers :
          \/ t.from = Custody /\ t.key \in DepositKeys
          \/ \E b \in bets : t = BetTransfer(b)
          \/ \E c \in cashouts : t = CashoutTransfer(c)
          \/ \E m \in MarketIds, u \in Users :
                /\ t.key = SettleKey(m, u) /\ t.from = m /\ t.to = u
                /\ resolutions[m] # None
                /\ \E b \in bets : b.outcome = resolutions[m] /\ b.account = u

(* A bet is cashed out at most once, however many CashoutBet calls read it
   before the first of them commits. *)
OneCashoutPerBet == \A c, d \in cashouts : c.bet = d.bet => c = d

(* The status of a market agrees with the resolution and cancellation rows,
   so a market is never both settled and cancelled, and a pause or a resume
   that was checked before the settlement does not undo it. *)
StatusMatchesRows ==
    \A m \in MarketIds :
        /\ markets[m].status = "resolved" <=> resolutions[m] # None
        /\ markets[m].status = "cancelled" <=> m \in cancellations

(* Once a market has a final status it keeps it, takes no bet, and its house
   account pays nobody, whatever requests were under way. *)
FinalIsFinal ==
    [][\A m \in MarketIds : markets[m].status \in Final =>
          /\ markets'[m].status = markets[m].status
          /\ BetsOn(m)' = BetsOn(m)
          /\ balance'[m] >= balance[m]]_vars

(* A settled market has paid every account the sum of the payouts of its bets
   on the winning outcome, in one transfer, and nobody else. *)
SettledInFull ==
    \A m \in MarketIds, u \in Users :
        LET won == {b \in bets : b.outcome = resolutions[m] /\ b.account = u}
            paid == {t \in transfers : t.key = SettleKey(m, u)} IN
        IF resolutions[m] # None /\ won # {}
          THEN paid = {[key |-> SettleKey(m, u), from |-> m, to |-> u,
                        amount |-> SumPayout(won)]}
          ELSE paid = {}

SumPaid(S) == SumFunction([b \in S |-> b.paid])

(* The volume of a market and the total a user wagered are the sums of the
   stakes of the bets: no bet is counted twice or not at all. *)
StakesCounted ==
    /\ \A m \in MarketIds : markets[m].volume = SumPaid(BetsOn(m))
    /\ \A u \in Users :
          totalWagered[u] = SumPaid({b \in bets : b.account = u})

-----------------------------------------------------------------------------
(* What comments in the code say of the system, and the code does not do. *)

(* Buying shares changes outcomes of the market of the bet only: a quantity
   changes in a step that bumps the version of its market (or creates it). *)
QuantityVersioned ==
    [][\A o \in OutcomeIds :
          outcomes'[o].quantity # outcomes[o].quantity =>
              markets'[MarketOf[o]] # markets[MarketOf[o]]]_vars

(* A bet that was cashed out (its shares sold back) is not paid again when
   the market is settled. *)
SoldSharesNotPaid ==
    \A m \in MarketIds, u \in Users :
        \A t \in transfers : t.key = SettleKey(m, u) =>
            t.amount <= SumPayout({b \in bets : b.account = u /\ ~ CashedOut(b)})
=============================================================================
