------------------------------- MODULE Ledger -------------------------------
(***************************************************************************)
(* The double-entry ledger: the tables ledger_accounts and                 *)
(* ledger_transfers, and the stored function ledger_create_transfer, the   *)
(* only code that changes a balance.                                       *)
(*                                                                         *)
(* One action is one committed call.  A call that raises an exception      *)
(* aborts the transaction it runs in, so it changes nothing: its checks    *)
(* are the guards.  Amounts are integers (units of the last decimal of     *)
(* NUMERIC(27, 12)).  Every account has the one currency the schema        *)
(* allows, so the currency check never fails and is left out.              *)
(*                                                                         *)
(* The module LedgerTx has the interleaving of concurrent calls.           *)
(***************************************************************************)
EXTENDS Integers, FiniteSets, Functions

CONSTANTS
    Accounts,       \* ids of ledger_accounts
    AllowNegative,  \* the accounts with allow_negative_balance
    AllowPositive,  \* the accounts with allow_positive_balance
    Keys,           \* idempotency keys
    Amounts         \* amounts a caller asks to transfer

ASSUME LedgerAssumption ==
    /\ AllowNegative \subseteq Accounts
    /\ AllowPositive \subseteq Accounts
    /\ Amounts \subseteq Nat

VARIABLES
    balance,    \* balance[a]: ledger_accounts.balance
    version,    \* version[a]: ledger_accounts.version
    transfers   \* rows of ledger_transfers

ledgerVars == <<balance, version, transfers>>

Transfer == [key : Keys, from : Accounts, to : Accounts, amount : Nat]

(* Every account is created with balance 0 and version 0. *)
LedgerInit ==
    /\ balance = [a \in Accounts |-> 0]
    /\ version = [a \in Accounts |-> 0]
    /\ transfers = {}

-----------------------------------------------------------------------------
(* ledger_check_account_balance_constraints for account a at balance b. *)
PolicyOK(a, b) ==
    /\ b < 0 => a \in AllowNegative
    /\ b > 0 => a \in AllowPositive

(* The UNIQUE constraint on ledger_transfers.idempotency_key. *)
KeyNeverUsed(k) == FALSE
KeyUsed(k) == \E t \in transfers : t.key = k

(* The policy check of the debited account, after the UPDATE. *)
DebitCheckedBefore(from, amount) == PolicyOK(from, balance[from])
DebitOK(from, amount) == PolicyOK(from, balance[from] - amount)

(* Both UPDATEs of ledger_accounts.balance. *)
PostedToOneSide(from, to, amount) == [balance EXCEPT ![to] = @ + amount]
Posted(from, to, amount) ==
    [balance EXCEPT ![from] = @ - amount, ![to] = @ + amount]

(* TransferMoney, which calls ledger_create_transfer: debit and check, credit
   and check, then the transfer row. *)
TransferMoney(from, to, amount, key) ==
    /\ amount > 0
    /\ from # to
    /\ DebitOK(from, amount)
    /\ PolicyOK(to, balance[to] + amount)
    /\ ~ KeyUsed(key)
    /\ balance' = Posted(from, to, amount)
    /\ version' = [version EXCEPT ![from] = @ + 1, ![to] = @ + 1]
    /\ transfers' = transfers \cup
         {[key |-> key, from |-> from, to |-> to, amount |-> amount]}

(* The loop of TransferMoney calls of one settlement transaction: `from' (a
   house account, which may not go negative) pays due[a] to every account a
   in DOMAIN due, with the idempotency key key[a].  The debits only decrease
   its balance, so the policy holds at each of them iff it holds at the last:
   iff the total is at most the balance. *)
TransferAll(from, due, key) ==
    \E total \in 0 .. balance[from] :
        /\ total = SumFunction(due)
        /\ \A a \in DOMAIN due :
              /\ due[a] > 0
              /\ a # from
              /\ PolicyOK(a, balance[a] + due[a])
              /\ ~ KeyUsed(key[a])
        /\ balance' = [a \in Accounts |->
              IF a = from THEN balance[a] - total
              ELSE IF a \in DOMAIN due THEN balance[a] + due[a]
              ELSE balance[a]]
        /\ version' = [a \in Accounts |->
              IF a = from THEN version[a] + Cardinality(DOMAIN due)
              ELSE IF a \in DOMAIN due THEN version[a] + 1
              ELSE version[a]]
        /\ transfers' = transfers \cup
              {[key |-> key[a], from |-> from, to |-> a, amount |-> due[a]] :
                    a \in DOMAIN due}

LedgerNext ==
    \E from, to \in Accounts, amount \in Amounts, key \in Keys :
        TransferMoney(from, to, amount, key)

LedgerSpec == LedgerInit /\ [][LedgerNext]_ledgerVars

-----------------------------------------------------------------------------
LedgerTypeOK ==
    /\ balance \in [Accounts -> Int]
    /\ version \in [Accounts -> Nat]
    /\ transfers \subseteq Transfer

(* No account is ever left with a balance its policy forbids: no user and no
   house account is overdrawn, in any order of the transfers
   (ledger_check_account_balance_constraints runs after both updates). *)
PolicyHolds == \A a \in Accounts : PolicyOK(a, balance[a])

(* An idempotency key pays at most once (ledger_transfers_idempotency_key_unique). *)
OneTransferPerKey ==
    \A s, t \in transfers : s.key = t.key => s = t

AmountOf(S) == SumFunction([t \in S |-> t.amount])

(* Double entry: the balance of an account is what the transfers brought in
   minus what they took out, and its version counts them, so the books
   always balance and no update of a balance is lost. *)
BooksBalance ==
    \A a \in Accounts :
        /\ balance[a] = AmountOf({t \in transfers : t.to = a})
                          - AmountOf({t \in transfers : t.from = a})
        /\ version[a] = Cardinality({t \in transfers : a \in {t.from, t.to}})
=============================================================================
