----------------------------- MODULE MCBetSlip -----------------------------
(* BetSlip on a small instance: an amount that rounds up to two cents. *)
EXTENDS BetSlip

MCRaws == {<<0, Separator, 0, 1, 6>>}

(* What a user may type, up to two characters of the units and four after them. *)
MCTexts ==
    LET Words(S, n) == UNION {[1..k -> S] : k \in 0..n}
    IN  {u \o f : u \in Words({0, 9, Separator}, 2),
                  f \in Words({0, 4, 5, 9, Separator, Other}, 5)}

=============================================================================
