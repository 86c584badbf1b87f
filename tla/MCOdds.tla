------------------------------- MODULE MCOdds -------------------------------
(* Prices at the edges of the notations (a half, a third, a hundredth and    *)
(* their neighbours), stakes of some cents and payouts of up to 100 times.   *)
EXTENDS Odds

EdgePrices == {100, 9999, 10000, 45455, 333333, 499999, 500000, 666667, 999999}
CentPayouts == 2 .. 400
=============================================================================
