-------------------------------- MODULE Odds --------------------------------
(***************************************************************************)
(* What a price looks like: the four notations of AnimatedOdds, the text   *)
(* formatOdds writes in the table of live bets, the odds the bet slip      *)
(* shows for a quote, and the arrow ArrowOdds puts beside a price that     *)
(* moves.                                                                  *)
(*                                                                         *)
(* A price is a whole number of 10^-6: One stands for the 12 digits of     *)
(* Decimal.set and of SCALE.  Both are far finer than the hundredths that  *)
(* are shown, which is all the definitions below rely on.                  *)
(*                                                                         *)
(* Left out: prices of 0 and 1 in formatOdds and of 1 in the American      *)
(* notation (the quotient is Infinity), which capPrice keeps away.         *)
(***************************************************************************)
EXTENDS Integers

CONSTANTS
    None,         \* null
    Prices,       \* the prices of an outcome
    Stakes,       \* stakes typed in the bet slip, in cents
    Payouts,      \* payouts quoted for them, in cents
    MaxRenders    \* bound: renders the parents cause in a behaviour

One == 1000000

ASSUME OddsAssumption ==
    /\ Prices \subseteq 100 .. One - 1
    /\ Stakes \subseteq 1 .. 99 /\ Payouts \subseteq 2 .. 9999
    /\ MaxRenders \in Nat

VARIABLES
    oddsFormat,   \* of usePrefs, kept in localStorage
    prob,         \* the price ArrowOdds was last rendered with
    prevProb,     \* prevProb.current
    direction,    \* the direction it was last rendered with
    nextDirection,\* the argument of the latest setDirection
    effects,      \* the effects of the last commit have not run yet
    animation,    \* an animation of the arrow is running
    turn,         \* history: the way the odds last moved
    renders

vars == <<oddsFormat, prob, prevProb, direction, nextDirection, effects,
          animation, turn, renders>>
-----------------------------------------------------------------------------
\* A plausible slip: the mode of decimal.js itself, if lslmsr.ts were not loaded.
RoundHalfUp(n, d) == (2 * n + d) \div (2 * d)

\* The rounding of every call that names none: lslmsr.ts sets it for the page.
DefaultRounding(n, d) == n \div d

RoundDown(n, d) == n \div d
RoundUp(n, d) == (n + d - 1) \div d

gcd[a \in Nat, b \in Nat] == IF b = 0 THEN a ELSE gcd[b, a % b]

\* A written price: a sign, and one number or the two of a fraction.
Written(sign, n, d) == [sign |-> sign, n |-> n, d |-> d]

\* A plausible slip: the nearest hundredth.
NearestOdds(p) == IF p <= 0 THEN 0 ELSE RoundHalfUp(100 * One, p)

\* Hundredths.
toDecimalOdds(p) == IF p <= 0 THEN 0 ELSE RoundDown(100 * One, p)

\* Hundredths.
toPercent(p) == IF p <= 0 THEN 0 ELSE DefaultRounding(100 * p, One)

toAmerican(p) ==
    IF p <= 0 THEN Written("+", 0, 1)
    ELSE IF 2 * p >= One
         THEN Written("-", DefaultRounding(100 * p, One - p), 1)
         ELSE Written("+", DefaultRounding(100 * (One - p), p), 1)

\* The fraction of hundredths, reduced.
toFraction(p) ==
    IF p <= 0 THEN Written("", 0, 1)
    ELSE LET num == DefaultRounding(100 * (One - p), p)
             g   == gcd[num, 100]
         IN  Written("", num \div g, 100 \div g)

Formats == {"decimal", "american", "fractional", "percent"}

AnimatedOdds(p, format) ==
    CASE format = "decimal"    -> Written("", toDecimalOdds(p), 100)
      [] format = "percent"    -> Written("", toPercent(p), 1)
      [] format = "american"   -> toAmerican(p)
      [] format = "fractional" -> toFraction(p)

formatOdds(p, format) ==
    CASE format = "decimal"    -> Written("", RoundDown(100 * One, p), 100)
      [] format = "american"   ->
            IF 2 * p >= One
            THEN Written("-", DefaultRounding(100 * p, One - p), 1)
            ELSE Written("+", DefaultRounding(100 * (One - p), p), 1)
      [] format = "fractional" ->
            LET num == DefaultRounding(100 * (One - p), p)
                g   == gcd[num, 100]
            IN  Written("", num \div g, 100 \div g)
      [] format = "percent"    -> Written("", RoundUp(100 * p, One), 1)

\* The odds of the slip: spend / payoutRounded to the digits of a Decimal,
\* then rounded up to SCALE decimals.  Below a tenth the digits reach one
\* decimal further than SCALE.
Proportion(spend, payout) ==
    IF 10 * spend >= payout THEN DefaultRounding(spend * One, payout)
    ELSE RoundUp(DefaultRounding(spend * 10 * One, payout), 10)

\* The "Best Odd" of the bet slip: without an amount the probability is 0.
BestOdd(spend, payout, format) ==
    AnimatedOdds(IF spend = 0 THEN 0 ELSE Proportion(spend, payout), format)

\* The change beside a bet that can be cashed out: gain / paid - 1 in percent,
\* its sign written apart.
CashoutDelta(gain, paid) ==
    LET ratio == DefaultRounding(gain * One, paid)
    IN  Written(IF ratio > One THEN "+" ELSE "-",
                toPercent(IF ratio > One THEN ratio - One ELSE One - ratio), 1)
-----------------------------------------------------------------------------
\* direction 'up' is a price that fell: its odds rose.
Compared(p, q) == IF p < q THEN "up" ELSE IF p > q THEN "down" ELSE None

Init ==
    /\ oddsFormat \in Formats
    /\ prob \in Prices
    /\ prevProb = prob
    /\ direction = None /\ nextDirection = None /\ turn = None
    /\ effects = FALSE /\ animation = FALSE
    /\ renders = 0

\* A render of ArrowOdds: React has run the effects of the one before.
Rendered ==
    /\ ~effects
    /\ direction' = nextDirection
    /\ effects' = TRUE
    /\ UNCHANGED <<prevProb, nextDirection, animation>>

\* The market has a new state and the card, the page or the slip that shows
\* it renders: with another price, or with the price unchanged.
MarketRenders(p) ==
    /\ renders < MaxRenders
    /\ Rendered
    /\ prob' = p
    /\ turn' = IF p = prob THEN turn ELSE Compared(p, prob)
    /\ renders' = renders + 1
    /\ UNCHANGED oddsFormat

\* The user goes to the settings, which show no price, may pick a notation
\* there, and comes back: ArrowOdds is mounted anew, with the price of the day.
setOddsFormat(f, p) ==
    /\ renders < MaxRenders
    /\ oddsFormat' = f
    /\ prob' = p /\ prevProb' = p
    /\ direction' = None /\ nextDirection' = None /\ turn' = None
    /\ effects' = FALSE /\ animation' = FALSE
    /\ renders' = renders + 1

\* React renders ArrowOdds for a setDirection that changes it.
StateRenders ==
    /\ nextDirection # direction
    /\ Rendered
    /\ UNCHANGED <<oddsFormat, prob, turn, renders>>

\* A plausible slip: the effect stops a running animation and starts none after it.
StopsOnRender == animation' = (direction # None /\ ~animation)

\* OddDeltaArrow is given a new onComplete by every render, so that its effect
\* starts an animation anew while the arrow is shown; without an arrow useAnimate
\* has stopped it.
OddDeltaArrow == animation' = (direction # None)

\* A plausible slip: prevProb keeps the price of the mount.
KeepsFirstPrice ==
    /\ effects
    /\ effects' = FALSE
    /\ OddDeltaArrow
    /\ \E interrupted \in {FALSE, animation} :
          nextDirection' =
            IF interrupted THEN None
            ELSE IF prob # prevProb THEN Compared(prob, prevProb)
            ELSE nextDirection
    /\ prevProb' = prevProb
    /\ UNCHANGED <<oddsFormat, prob, direction, turn, renders>>

\* The effects of a commit, the arrow's first.  Whether the promise of an
\* animation that is interrupted resolves is the library's choice; if it does,
\* its onComplete runs after the effects.
ArrowOdds ==
    /\ effects
    /\ effects' = FALSE
    /\ OddDeltaArrow
    /\ \E interrupted \in {FALSE, animation} :
          nextDirection' =
            IF interrupted THEN None
            ELSE IF prob # prevProb THEN Compared(prob, prevProb)
            ELSE nextDirection
    /\ prevProb' = prob
    /\ UNCHANGED <<oddsFormat, prob, direction, turn, renders>>

\* After 2.6 seconds: onComplete.
Completes ==
    /\ animation
    /\ animation' = FALSE
    /\ nextDirection' = None
    /\ UNCHANGED <<oddsFormat, prob, prevProb, direction, effects, turn, renders>>

Next ==
    \/ \E p \in Prices : MarketRenders(p)
    \/ \E f \in Formats, p \in Prices : setOddsFormat(f, p)
    \/ StateRenders
    \/ ArrowOdds
    \/ Completes

\* React runs effects and renders what was set; an animation ends.
Fairness == WF_vars(StateRenders) /\ WF_vars(ArrowOdds) /\ WF_vars(Completes)

Spec == Init /\ [][Next]_vars /\ Fairness
-----------------------------------------------------------------------------
\* Prices, directions and the odds shown are of their kinds: the American
\* notation never shows a favourite below 100, the two numbers of a fraction
\* have no common divisor (AnimatedOdds.tsx).
TypeOK ==
    /\ oddsFormat \in Formats /\ prob \in Prices /\ prevProb \in Prices
    /\ {direction, nextDirection, turn} \subseteq {"up", "down", None}
    /\ effects \in BOOLEAN /\ animation \in BOOLEAN /\ renders \in 0 .. MaxRenders
    /\ toAmerican(prob).sign = "-" => toAmerican(prob).n >= 100
    /\ \A k \in 2 .. 100 : ~ (toFraction(prob).n % k = 0 /\ toFraction(prob).d % k = 0)

\* What a written price pays for a stake of 1, as a quotient.
Pays(w, format) ==
    CASE format = "decimal"    -> <<w.n, w.d>>
      [] format = "fractional" -> <<w.n + w.d, w.d>>
      [] format = "american"   -> <<w.n + 100, 100>>

SamePay(x, y) == x[1] * y[2] = y[1] * x[2]

\* The same price pays the same in every notation: the decimal odds, the
\* fraction and the American odds of an underdog are one number, though each
\* is computed and rounded by itself (AnimatedOdds.tsx), and the table of live
\* bets writes what the cards show (odds.ts) - but for the percentage, which
\* the table rounds up and may show one higher.
NotationsAgree ==
    LET w(f) == AnimatedOdds(prob, f)
        percent == formatOdds(prob, "percent").n - w("percent").n
    IN  /\ SamePay(Pays(w("decimal"), "decimal"), Pays(w("fractional"), "fractional"))
        /\ w("american").sign = "+" =>
              SamePay(Pays(w("decimal"), "decimal"), Pays(w("american"), "american"))
        /\ \A f \in Formats \ {"percent"} : formatOdds(prob, f) = w(f)
        /\ percent \in {0, 1}

\* The slip and the list of bets promise no more than the amounts they stand
\* beside.  The "Best Odd": through a quotient cut to its digits, a rounding up
\* and a second quotient, stake times odds stays at or below the payout, and
\* without a stake it is 0 (BetModal.tsx, lslmsr.ts) - in the notation chosen,
\* but for the percentage and the American odds of a favourite, which are cut
\* in the player's favour.  The percentage a cashout would win or lose is the
\* whole part of the true one, with its sign (BetUser.tsx; up to 20 times the
\* stake, where TLC's integers end).
KeepsPromise ==
    \A stake \in Stakes \cup {0}, payout \in Payouts :
        LET w == BestOdd(stake, payout, oddsFormat)
            d == CashoutDelta(payout, stake)
        IN  IF stake = 0 THEN w.n = 0
            ELSE /\ stake < payout /\ payout <= 100 * stake
                    /\ oddsFormat # "percent" /\ w.sign # "-"
                    => Pays(w, oddsFormat)[1] * stake <= Pays(w, oddsFormat)[2] * payout
                 /\ payout <= 20 * stake =>
                      /\ (d.sign = "+") = (payout > stake)
                      /\ d.n = (100 * IF payout > stake THEN payout - stake ELSE stake - payout)
                               \div stake

\* An arrow tells the way the odds last moved, however the price messages,
\* the renders and the ends of earlier animations fall (ArrowOdds.tsx).
ArrowTellsLastMove ==
    ~effects /\ nextDirection # None => nextDirection = turn

\* No arrow stays: the effect that is run again by every render always leaves
\* an animation whose end clears the direction (OddDeltaArrow).
ArrowGoesOut == direction # None ~> direction = None
=============================================================================
