------------------------ MODULE MCTransactionManager ------------------------
(* Small instances of TransactionManager for TLC. *)
EXTENDS TransactionManager, TLC

CONSTANTS u1, u2, m1, m2, o1, o2, o3, x1, x2

MCAccounts == Users \cup MarketIds \cup {Custody}
MCAllowNegative == {Custody}
MCKeys == ClientKeys \cup DepositKeys \cup
            {SettleKey(m, u) : m \in MarketIds, u \in Users}

\* A market with outcomes o1, o2, o3 and another with x1, x2
MCMarketOf == [o \in OutcomeIds |-> IF o \in {x1, x2} THEN m2 ELSE m1]

MCSymmetry == Permutations(ClientKeys) \cup Permutations(DepositKeys)
                \cup Permutations(Users) \cup Permutations(OutcomeIds)
=============================================================================
