----------------------------- MODULE MCLedgerTx -----------------------------
(* A small instance of LedgerTx for TLC: a deposit, a bet, a cashout from the
   house to the user, and a transfer between other accounts that reuses the
   idempotency key of the bet, so that no row lock keeps the two apart. *)
EXTENDS LedgerTx

CONSTANTS custody, user, house, vault, k0, k1, k2, deposit, bet, cashout, reuse

Call(from, to, amount, key, checked) ==
    [from |-> from, to |-> to, amount |-> amount, key |-> key,
     checked |-> checked]

MCReqOf == [r \in Requests |->
    CASE r = deposit -> Call(custody, user, 2, k0, FALSE)
      [] r = bet     -> Call(user, house, 1, k1, TRUE)
      [] r = cashout -> Call(house, user, 1, k2, FALSE)
      [] r = reuse   -> Call(custody, vault, 1, k1, FALSE)]
=============================================================================
