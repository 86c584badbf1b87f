--------------------------- MODULE LedgerTxProofs ---------------------------
(***************************************************************************)
(* Concurrent transfers, for any requests, accounts and number of          *)
(* attempts: LedgerTx implements Ledger, its answers are truthful, and the *)
(* entries of an account form one chain.                                   *)
(***************************************************************************)
EXTENDS LedgerTx, FiniteSetTheorems, TLAPS

(* The row that r writes to ledger_transfers. *)
TransferOf(r) == [key |-> ReqOf[r].key, from |-> ReqOf[r].from,
                  to |-> ReqOf[r].to, amount |-> ReqOf[r].amount]

Done(r) == pc[r] \in {"ok", "unknown"}

(* r is past its SELECT ... FOR UPDATE of account a. *)
HoldsRow(r, a) ==
    \/ pc[r] \in {"lockTo", "post", "insert", "commit"} /\ a = ReqOf[r].from
    \/ pc[r] \in {"post", "insert", "commit"} /\ a = ReqOf[r].to

(* The locks are those of the statements executed, and no others. *)
LocksMatch ==
    /\ \A r \in Requests, a \in Accounts : rowLock[a] = r <=> HoldsRow(r, a)
    /\ \A r \in Requests, k \in Keys :
          keyLock[k] = r <=> (pc[r] = "commit" /\ k = ReqOf[r].key)

(* A snapshot is of the past, and a row whose version is still that of the
   snapshot has its balance too; the rows that a request locked are such. *)
SnapshotsOld ==
    \A r \in Requests, a \in Accounts :
        /\ snapshot[r].version[a] <= version[a]
        /\ snapshot[r].version[a] = version[a] => snapshot[r].balance[a] = balance[a]
        /\ HoldsRow(r, a) => snapshot[r].version[a] = version[a]
KeysOld == \A r \in Requests : snapshot[r].keys \subseteq UsedKeys

(* What the statements before it established for a request that commits. *)
ReadyToCommit ==
    \A r \in Requests :
        /\ pc[r] \in {"insert", "commit"} => UpdatesOK(r)
        /\ pc[r] = "commit" => ReqOf[r].key \notin UsedKeys

(* The transfers are those of the requests that committed, one per key. *)
TransfersOfDone ==
    /\ \A r \in Requests : Done(r) => TransferOf(r) \in transfers
    /\ \A t \in transfers : \E r \in Requests : Done(r) /\ t = TransferOf(r)
    /\ \A r, s \in Requests :
          Done(r) /\ Done(s) /\ ReqOf[r].key = ReqOf[s].key => r = s
    /\ \A r \in Requests : pc[r] = "idempotency" => ReqOf[r].key \in UsedKeys

(* An attempt is begun only if one is left. *)
AttemptsBounded ==
    \A r \in Requests : pc[r] \in {"idle", "backoff"} => attempt[r] < MaxAttempts

Types == TypeOK /\ snapshot \in [Requests -> Snapshot] /\ AttemptsBounded

(* The inductive invariant. *)
TxInv == Types /\ LocksMatch /\ SnapshotsOld /\ KeysOld /\ ReadyToCommit
             /\ TransfersOfDone

-----------------------------------------------------------------------------
(* The arguments of a request have their types, and move money between two
   accounts. *)
LEMMA RequestTypes ==
    ASSUME NEW r \in Requests
    PROVE  /\ ReqOf[r].from \in Accounts
           /\ ReqOf[r].to \in Accounts
           /\ ReqOf[r].key \in Keys
           /\ ReqOf[r].amount \in Amounts /\ ReqOf[r].amount \in Nat
           /\ ReqOf[r].amount > 0
           /\ ReqOf[r].from # ReqOf[r].to
           /\ r # None
<1>1. ReqOf[r] \in [from : Accounts, to : Accounts, key : Keys,
                    amount : Amounts \ {0}, checked : BOOLEAN]
  BY LedgerTxAssumption
<1>2. ReqOf[r].amount \in Nat /\ ReqOf[r].amount > 0
  BY <1>1, LedgerAssumption
<1> QED BY <1>1, <1>2, LedgerTxAssumption

(* Only a request inside a transaction waits for another one, so only such a
   request is aborted by the deadlock detector. *)
LEMMA DeadlockedInTx ==
    ASSUME NEW r \in Requests, Deadlocked(r)
    PROVE  InTx(r)
<1>1. PICK S \in SUBSET Requests : r \in S /\ {Blocker(q) : q \in S} = S
  BY DEF Deadlocked
<1>2. Blocker(r) \in Requests
  BY <1>1
<1>3. Blocker(r) # None
  BY <1>2, LedgerTxAssumption
<1>4. pc[r] \in {"lockFrom", "lockTo", "insert"}
  BY <1>3 DEF Blocker
<1> QED BY <1>4 DEF InTx, Statements

(* The invariant holds before any request is sent. *)
LEMMA TxInvInit == Init => TxInv
<1> SUFFICES ASSUME Init PROVE TxInv
  OBVIOUS
<1> USE DEF Init, LedgerInit
<1>1. UsedKeys = {}
  BY DEF UsedKeys
<1>2. snapshot \in [Requests -> Snapshot]
  BY <1>1 DEF Snapshot, Committed
<1>3. Types
  <2>1. LedgerTypeOK
    BY DEF LedgerTypeOK
  <2>2. \A r \in Requests : snapshot[r].balance \in [Accounts -> Int]
    BY <1>2 DEF Snapshot
  <2>3. attempt \in [Requests -> 0 .. MaxAttempts] /\ AttemptsBounded
    BY LedgerTxAssumption DEF AttemptsBounded
  <2> QED BY <1>2, <2>1, <2>2, <2>3 DEF Types, TypeOK
<1>4. LocksMatch
  BY RequestTypes DEF LocksMatch, HoldsRow
<1>5. SnapshotsOld /\ KeysOld
  BY <1>1 DEF SnapshotsOld, KeysOld, HoldsRow, Committed
<1>6. ReadyToCommit /\ TransfersOfDone
  BY DEF ReadyToCommit, TransfersOfDone, Done
<1> QED BY <1>3, <1>4, <1>5, <1>6 DEF TxInv

(* The answers of a request that transferred nothing, and its retry. *)
Undone == {"backoff", "failed", "policy", "idempotency", "cancelled"}

(* A rollback gives up the locks of its request and disturbs no other. *)
LEMMA RollbackStep ==
    ASSUME TxInv, NEW r \in Requests, NEW p \in Undone,
           InTx(r) \/ pc[r] = "backoff",
           p = "backoff" => attempt[r] < MaxAttempts,
           p = "idempotency" => ReqOf[r].key \in UsedKeys,
           Rollback(r, p)
    PROVE  TxInv'
<1> USE DEF Rollback, EndTx, Undone, TxInv
<1>0. pc \in [Requests -> {"idle", "backoff"} \cup Statements \cup Answers]
  BY DEF Types, TypeOK
<1>1. /\ UNCHANGED <<balance, version, transfers, attempt, snapshot, entries>>
      /\ UsedKeys' = UsedKeys
  BY DEF ledgerVars, UsedKeys
<1>2. /\ pc' \in [Requests -> {"idle", "backoff"} \cup Statements \cup Answers]
      /\ pc'[r] = p /\ p \notin Statements
      /\ \A s \in Requests \ {r} : pc'[s] = pc[s]
  BY <1>0 DEF Statements, Answers
<1>3. Types'
  BY <1>1, <1>2 DEF Types, TypeOK, LedgerTypeOK, AttemptsBounded
<1>4. \A s \in Requests, a \in Accounts :
         HoldsRow(s, a)' <=> HoldsRow(s, a) /\ s # r
  BY <1>2 DEF HoldsRow, Statements
<1>5. LocksMatch'
  <2>1. \A s \in Requests, a \in Accounts : rowLock'[a] = s <=> HoldsRow(s, a)'
    BY <1>4, RequestTypes DEF LocksMatch
  <2>2. \A s \in Requests, k \in Keys :
          keyLock'[k] = s <=> (pc'[s] = "commit" /\ k = ReqOf[s].key)
    BY <1>2, RequestTypes DEF LocksMatch
  <2> QED BY <2>1, <2>2 DEF LocksMatch, HoldsRow
<1>6. SnapshotsOld' /\ KeysOld'
  BY <1>1, <1>4 DEF SnapshotsOld, KeysOld
<1>7. ReadyToCommit'
  BY <1>1, <1>2 DEF ReadyToCommit, UpdatesOK, EntriesOf, PolicyOK
<1>8. TransfersOfDone'
  <2>1. \A s \in Requests : Done(s)' <=> Done(s)
    BY <1>2 DEF Done, InTx, Statements
  <2> QED BY <1>1, <1>2, <2>1 DEF TransfersOfDone, TransferOf
<1> QED BY <1>3, <1>5, <1>6, <1>7, <1>8

(* Begin takes the committed state as its snapshot, and no lock. *)
LEMMA BeginStep ==
    ASSUME TxInv, NEW r \in Requests, Begin(r)
    PROVE  TxInv'
<1> USE DEF Begin, TxInv
<1>0. pc \in [Requests -> {"idle", "backoff"} \cup Statements \cup Answers]
  BY DEF Types, TypeOK
<1>1. /\ UNCHANGED <<balance, version, transfers, rowLock, keyLock, entries>>
      /\ UsedKeys' = UsedKeys
  BY DEF ledgerVars, UsedKeys
<1>2. /\ pc' \in [Requests -> {"idle", "backoff"} \cup Statements \cup Answers]
      /\ pc'[r] \in {"insufficient", "lockFrom"}
      /\ \A s \in Requests \ {r} : pc'[s] = pc[s]
  BY <1>0 DEF Statements, Answers
<1>3. Committed \in Snapshot
  BY DEF Types, TypeOK, LedgerTypeOK, Committed, Snapshot, UsedKeys, Transfer
<1>4. snapshot' \in [Requests -> Snapshot]
  BY <1>3 DEF Types
<1>5. attempt' \in [Requests -> 0 .. MaxAttempts]
  BY LedgerTxAssumption DEF Types, TypeOK, AttemptsBounded
<1>6. Types'
  <2>1. AttemptsBounded'
    BY <1>2 DEF Types, TypeOK, AttemptsBounded
  <2> QED BY <1>1, <1>2, <1>4, <1>5, <2>1 DEF Types, TypeOK, LedgerTypeOK, Snapshot
<1>7. \A s \in Requests, a \in Accounts : HoldsRow(s, a)' <=> HoldsRow(s, a)
  BY <1>2 DEF HoldsRow
<1>8. LocksMatch'
  <2>1. \A s \in Requests : pc'[s] = "commit" <=> pc[s] = "commit"
    BY <1>2
  <2> QED BY <1>1, <1>7, <2>1 DEF LocksMatch
<1>9. SnapshotsOld'
  <2>1. SUFFICES ASSUME NEW s \in Requests, NEW a \in Accounts
                 PROVE  /\ snapshot'[s].version[a] <= version[a]
                        /\ snapshot'[s].version[a] = version[a]
                              => snapshot'[s].balance[a] = balance[a]
                        /\ HoldsRow(s, a) => snapshot'[s].version[a] = version[a]
    BY <1>1, <1>7 DEF SnapshotsOld
  <2>2. CASE s = r
    BY <2>2, <1>3 DEF Types, TypeOK, LedgerTypeOK, Committed
  <2>3. CASE s # r
    BY <2>3 DEF SnapshotsOld, Types
  <2> QED BY <2>2, <2>3
<1>10. KeysOld'
  <2>1. SUFFICES ASSUME NEW s \in Requests PROVE snapshot'[s].keys \subseteq UsedKeys
    BY <1>1 DEF KeysOld
  <2>2. CASE s = r
    BY <2>2 DEF Types, Committed
  <2>3. CASE s # r
    BY <2>3 DEF KeysOld, Types
  <2> QED BY <2>2, <2>3
<1>11. ReadyToCommit'
  <2>1. SUFFICES ASSUME NEW s \in Requests, pc'[s] \in {"insert", "commit"}
                 PROVE  UpdatesOK(s)' /\ (pc'[s] = "commit" => ReqOf[s].key \notin UsedKeys)
    BY <1>1 DEF ReadyToCommit
  <2>2. s # r /\ pc[s] = pc'[s]
    BY <1>2, <2>1
  <2>3. snapshot'[s] = snapshot[s]
    BY <2>2 DEF Types
  <2> QED BY <1>1, <2>1, <2>2, <2>3 DEF ReadyToCommit, UpdatesOK, EntriesOf, PolicyOK
<1>12. TransfersOfDone'
  <2>1. \A s \in Requests : Done(s)' <=> Done(s)
    BY <1>2 DEF Done
  <2> QED BY <1>1, <1>2, <2>1 DEF TransfersOfDone, TransferOf
<1> QED BY <1>6, <1>8, <1>9, <1>10, <1>11, <1>12

(* What a statement that succeeds before the COMMIT changes: it goes on to p
   and takes at most one lock. *)
Advance(r, p) ==
    /\ InTx(r)
    /\ pc' = [pc EXCEPT ![r] = p]
    /\ UNCHANGED <<ledgerVars, attempt, snapshot, entries>>

(* A row lock is taken where no one has it, on a row not changed since the
   snapshot; a key lock where no one has it and no transfer has the key. *)
LEMMA AdvanceStep ==
    ASSUME TxInv, NEW r \in Requests, NEW p \in Statements \ {"lockFrom"},
           Advance(r, p),
           \/ /\ pc[r] = "lockFrom" /\ p = "lockTo" /\ ~ RowChanged(r, ReqOf[r].from)
              /\ rowLock[ReqOf[r].from] = None
              /\ rowLock' = [rowLock EXCEPT ![ReqOf[r].from] = r]
              /\ UNCHANGED keyLock
           \/ /\ pc[r] = "lockTo" /\ p = "post" /\ ~ RowChanged(r, ReqOf[r].to)
              /\ rowLock[ReqOf[r].to] = None
              /\ rowLock' = [rowLock EXCEPT ![ReqOf[r].to] = r]
              /\ UNCHANGED keyLock
           \/ /\ pc[r] = "post" /\ p = "insert" /\ UpdatesOK(r)
              /\ UNCHANGED <<rowLock, keyLock>>
           \/ /\ pc[r] = "insert" /\ p = "commit" /\ ~ Conflict(r)
              /\ keyLock[ReqOf[r].key] = None
              /\ keyLock' = [keyLock EXCEPT ![ReqOf[r].key] = r]
              /\ UNCHANGED rowLock
    PROVE  TxInv'
<1> USE DEF Advance, TxInv
<1>0. /\ pc \in [Requests -> {"idle", "backoff"} \cup Statements \cup Answers]
      /\ rowLock \in [Accounts -> Requests \cup {None}]
      /\ keyLock \in [Keys -> Requests \cup {None}]
  BY DEF Types, TypeOK
<1>1. /\ UNCHANGED <<balance, version, transfers, attempt, snapshot, entries>>
      /\ UsedKeys' = UsedKeys
  BY DEF ledgerVars, UsedKeys
<1>2. /\ pc' \in [Requests -> {"idle", "backoff"} \cup Statements \cup Answers]
      /\ pc'[r] = p
      /\ \A s \in Requests \ {r} : pc'[s] = pc[s]
  BY <1>0
<1>3. Types'
  <2>1. /\ rowLock' \in [Accounts -> Requests \cup {None}]
        /\ keyLock' \in [Keys -> Requests \cup {None}]
    BY <1>0, RequestTypes
  <2>2. AttemptsBounded'
    BY <1>1, <1>2 DEF Types, AttemptsBounded, Statements
  <2> QED BY <1>1, <1>2, <2>1, <2>2 DEF Types, TypeOK, LedgerTypeOK
<1>4. /\ \A s \in Requests \ {r}, a \in Accounts : HoldsRow(s, a)' <=> HoldsRow(s, a)
      /\ \A a \in Accounts : HoldsRow(r, a)' <=>
            \/ HoldsRow(r, a)
            \/ p = "lockTo" /\ a = ReqOf[r].from
            \/ p = "post" /\ a = ReqOf[r].to
  BY <1>2 DEF HoldsRow
<1>5. LocksMatch'
  <2>1. \A s \in Requests, a \in Accounts : rowLock'[a] = s <=> HoldsRow(s, a)'
    BY <1>0, <1>4, RequestTypes DEF LocksMatch
  <2>2. \A s \in Requests, k \in Keys :
          keyLock'[k] = s <=> (pc'[s] = "commit" /\ k = ReqOf[s].key)
    BY <1>0, <1>2, RequestTypes DEF LocksMatch
  <2> QED BY <2>1, <2>2 DEF LocksMatch, HoldsRow
<1>6. SnapshotsOld' /\ KeysOld'
  BY <1>1, <1>4 DEF SnapshotsOld, KeysOld, RowChanged
<1>7. ReadyToCommit'
  BY <1>1, <1>2 DEF ReadyToCommit, UpdatesOK, EntriesOf, PolicyOK, Conflict
<1>8. TransfersOfDone'
  <2>1. \A s \in Requests : Done(s)' <=> Done(s)
    BY <1>2 DEF Done, InTx, Statements
  <2>2. \A s \in Requests : pc'[s] = "idempotency" <=> pc[s] = "idempotency"
    BY <1>2 DEF InTx, Statements
  <2> QED BY <1>1, <2>1, <2>2 DEF TransfersOfDone, TransferOf
<1> QED BY <1>3, <1>5, <1>6, <1>7, <1>8

(* The entry of r for a change of account a by n, from the committed row. *)
EntryAt(r, a, n) ==
    [account |-> a, key |-> ReqOf[r].key, amount |-> n, previous |-> balance[a],
     current |-> balance[a] + n, version |-> version[a] + 1]

(* The rows that r writes at its COMMIT are the rows that a transfer of the
   abstract ledger writes: they were locked and have not changed since the
   snapshot they were computed from. *)
LEMMA CommitWrites ==
    ASSUME TxInv, NEW r \in Requests, NEW answer, Commit(r, answer)
    PROVE  /\ balance' = Posted(ReqOf[r].from, ReqOf[r].to, ReqOf[r].amount)
           /\ version' = [version EXCEPT ![ReqOf[r].from] = @ + 1, ![ReqOf[r].to] = @ + 1]
           /\ transfers' = transfers \cup {TransferOf(r)}
           /\ EntriesOf(r) = {EntryAt(r, ReqOf[r].from, - ReqOf[r].amount),
                             EntryAt(r, ReqOf[r].to, ReqOf[r].amount)}
<1> DEFINE q == ReqOf[r]
           ef == [account |-> q.from, key |-> q.key, amount |-> - q.amount,
                  previous |-> snapshot[r].balance[q.from],
                  current |-> snapshot[r].balance[q.from] + (- q.amount),
                  version |-> snapshot[r].version[q.from] + 1]
           et == [account |-> q.to, key |-> q.key, amount |-> q.amount,
                  previous |-> snapshot[r].balance[q.to],
                  current |-> snapshot[r].balance[q.to] + q.amount,
                  version |-> snapshot[r].version[q.to] + 1]
           Written(a) == CHOOSE e \in EntriesOf(r) : e.account = a
<1>1. EntriesOf(r) = {ef, et}
  BY DEF EntriesOf
<1>2. q.from # q.to /\ q.from \in Accounts /\ q.to \in Accounts /\ q.amount \in Nat
  BY RequestTypes
<1>3. Written(q.from) = ef /\ Written(q.to) = et
  <2> HIDE DEF q
  <2>1. ef.account = q.from /\ et.account = q.to
    OBVIOUS
  <2> HIDE DEF ef, et
  <2> QED BY <1>1, <1>2, <2>1
<1>4. pc[r] = "commit"
  BY DEF Commit
<1>5. \A a \in {q.from, q.to} : snapshot[r].version[a] = version[a]
                                  /\ snapshot[r].balance[a] = balance[a]
  BY <1>2, <1>4 DEF TxInv, SnapshotsOld, HoldsRow
<1>6. balance \in [Accounts -> Int] /\ version \in [Accounts -> Nat]
  BY DEF TxInv, Types, TypeOK, LedgerTypeOK
<1>7. balance' = [a \in Accounts |->
          IF a \in {q.from, q.to} THEN Written(a).current ELSE balance[a]]
      /\ version' = [a \in Accounts |->
          IF a \in {q.from, q.to} THEN Written(a).version ELSE version[a]]
      /\ transfers' = transfers \cup {TransferOf(r)}
  BY DEF Commit, TransferOf
<1>8. /\ Written(q.from).current = balance[q.from] - q.amount
      /\ Written(q.to).current = balance[q.to] + q.amount
      /\ Written(q.from).version = version[q.from] + 1
      /\ Written(q.to).version = version[q.to] + 1
  <2>1. /\ ef.current = balance[q.from] - q.amount
        /\ et.current = balance[q.to] + q.amount
        /\ ef.version = version[q.from] + 1
        /\ et.version = version[q.to] + 1
    BY <1>2, <1>5, <1>6
  <2> QED BY <1>3, <2>1
<1> HIDE DEF Written
<1>9. balance' = Posted(q.from, q.to, q.amount)
  <2> HIDE DEF q
  <2> QED BY <1>2, <1>6, <1>7, <1>8 DEF Posted
<1>10. version' = [version EXCEPT ![q.from] = @ + 1, ![q.to] = @ + 1]
  <2> HIDE DEF q
  <2> QED BY <1>2, <1>6, <1>7, <1>8
<1>11. ef = EntryAt(r, q.from, - q.amount) /\ et = EntryAt(r, q.to, q.amount)
  BY <1>5 DEF EntryAt
<1> QED BY <1>1, <1>7, <1>9, <1>10, <1>11

(* The COMMIT of r is its transfer in the abstract ledger: the policy checks
   and the key check made before it still hold. *)
LEMMA CommitIsTransfer ==
    ASSUME TxInv, NEW r \in Requests, NEW answer, Commit(r, answer)
    PROVE  TransferMoney(ReqOf[r].from, ReqOf[r].to, ReqOf[r].amount, ReqOf[r].key)
<1> DEFINE q == ReqOf[r]
<1>1. /\ q.from \in Accounts /\ q.to \in Accounts /\ q.from # q.to
      /\ q.amount \in Nat /\ q.amount > 0
  BY RequestTypes
<1>2. pc[r] = "commit"
  BY DEF Commit
<1>3. balance \in [Accounts -> Int] /\ version \in [Accounts -> Nat]
  BY DEF TxInv, Types, TypeOK, LedgerTypeOK
<1>4. /\ balance'[q.from] = balance[q.from] - q.amount
      /\ balance'[q.to] = balance[q.to] + q.amount
  <2>1. balance' = [balance EXCEPT ![q.from] = @ - q.amount, ![q.to] = @ + q.amount]
    BY CommitWrites DEF Posted
  <2> HIDE DEF q
  <2> QED BY <1>1, <1>3, <2>1
<1>5. \A e \in EntriesOf(r) : PolicyOK(e.account, e.current)
  BY <1>2 DEF TxInv, ReadyToCommit, UpdatesOK
<1>6. PolicyOK(q.from, balance'[q.from]) /\ PolicyOK(q.to, balance'[q.to])
  <2> DEFINE ef == EntryAt(r, q.from, - q.amount)
             et == EntryAt(r, q.to, q.amount)
  <2>1. EntriesOf(r) = {ef, et}
    BY CommitWrites
  <2>2. ef.account = q.from /\ ef.current = balance[q.from] + (- q.amount)
    BY DEF EntryAt
  <2>3. et.account = q.to /\ et.current = balance[q.to] + q.amount
    BY DEF EntryAt
  <2>4. PolicyOK(ef.account, ef.current) /\ PolicyOK(et.account, et.current)
    BY <1>5, <2>1
  <2>5. ef.current = balance'[q.from] /\ et.current = balance'[q.to]
    BY <1>1, <1>3, <1>4, <2>2, <2>3
  <2> QED BY <2>2, <2>3, <2>4, <2>5
<1>7. ~ KeyUsed(q.key)
  BY <1>2 DEF TxInv, ReadyToCommit, UsedKeys, KeyUsed
<1> QED BY <1>1, <1>4, <1>6, <1>7, CommitWrites DEF TransferMoney, DebitOK, TransferOf

(* A transfer changes the rows of its two accounts, by one version each. *)
LEMMA TransferChanges ==
    ASSUME LedgerTypeOK, NEW from \in Accounts, NEW to \in Accounts,
           NEW amount \in Nat, NEW key \in Keys,
           TransferMoney(from, to, amount, key)
    PROVE  /\ LedgerTypeOK'
           /\ \A a \in Accounts :
                 IF a \in {from, to} THEN version'[a] = version[a] + 1
                 ELSE version'[a] = version[a] /\ balance'[a] = balance[a]
           /\ balance'[from] = balance[from] - amount
           /\ balance'[to] = balance[to] + amount
<1> USE DEF LedgerTypeOK, TransferMoney, Posted
<1>1. balance' \in [Accounts -> Int] /\ version' \in [Accounts -> Nat]
  OBVIOUS
<1>2. transfers' \subseteq Transfer
  BY DEF Transfer
<1> QED BY <1>1, <1>2

(* A commit keeps the invariant: the requests that hold other rows and other
   keys do not notice it, and those that read the old rows are outdated. *)
LEMMA CommitStep ==
    ASSUME TxInv, NEW r \in Requests, NEW answer \in {"ok", "unknown"},
           Commit(r, answer)
    PROVE  TxInv'
<1> DEFINE q == ReqOf[r]
<1> USE DEF TxInv
<1>0. /\ q.from \in Accounts /\ q.to \in Accounts /\ q.from # q.to
      /\ q.amount \in Nat /\ q.amount \in Amounts /\ q.key \in Keys
  BY RequestTypes
<1>1. TransferMoney(q.from, q.to, q.amount, q.key)
  BY CommitIsTransfer
<1>2. /\ pc \in [Requests -> {"idle", "backoff"} \cup Statements \cup Answers]
      /\ LedgerTypeOK
  BY DEF Types, TypeOK
<1>3. /\ LedgerTypeOK'
      /\ \A a \in Accounts :
            IF a \in {q.from, q.to} THEN version'[a] = version[a] + 1
            ELSE version'[a] = version[a] /\ balance'[a] = balance[a]
  BY <1>0, <1>1, <1>2, TransferChanges
<1>4. /\ pc[r] = "commit"
      /\ pc' = [pc EXCEPT ![r] = answer]
      /\ rowLock' = [a \in Accounts |-> IF rowLock[a] = r THEN None ELSE rowLock[a]]
      /\ keyLock' = [k \in Keys |-> IF keyLock[k] = r THEN None ELSE keyLock[k]]
      /\ entries' = entries \cup EntriesOf(r)
      /\ UNCHANGED <<attempt, snapshot>>
  BY DEF Commit, EndTx
<1>5. transfers' = transfers \cup {TransferOf(r)}
  BY CommitWrites
<1>6. UsedKeys' = UsedKeys \cup {q.key}
  <2>1. TransferOf(r).key = q.key
    BY DEF TransferOf
  <2> QED BY <1>5, <2>1 DEF UsedKeys
<1>7. /\ pc' \in [Requests -> {"idle", "backoff"} \cup Statements \cup Answers]
      /\ pc'[r] = answer
      /\ \A s \in Requests \ {r} : pc'[s] = pc[s]
  BY <1>2, <1>4 DEF Statements, Answers
<1>8. Types'
  <2>1. EntriesOf(r) \subseteq Entry
    <3>1. balance \in [Accounts -> Int] /\ version \in [Accounts -> Nat]
      BY <1>2 DEF LedgerTypeOK
    <3>2. /\ EntryAt(r, q.from, - q.amount) \in Entry
          /\ EntryAt(r, q.to, q.amount) \in Entry
      BY <1>0, <3>1 DEF EntryAt, Entry
    <3> QED BY <3>2, CommitWrites
  <2>2. entries' \subseteq Entry
    BY <1>4, <2>1 DEF Types, TypeOK
  <2>3. AttemptsBounded'
    BY <1>4, <1>7 DEF Types, AttemptsBounded
  <2> QED BY <1>3, <1>4, <1>7, <2>2, <2>3 DEF Types, TypeOK
<1>9. \A s \in Requests, a \in Accounts : HoldsRow(s, a)' <=> HoldsRow(s, a) /\ s # r
  BY <1>7 DEF HoldsRow
<1>10. LocksMatch'
  <2>1. \A s \in Requests, a \in Accounts : rowLock'[a] = s <=> HoldsRow(s, a)'
    BY <1>4, <1>9, RequestTypes DEF LocksMatch
  <2>2. \A s \in Requests, k \in Keys :
          keyLock'[k] = s <=> (pc'[s] = "commit" /\ k = ReqOf[s].key)
    BY <1>4, <1>7, RequestTypes DEF LocksMatch
  <2> QED BY <2>1, <2>2 DEF LocksMatch, HoldsRow
<1>11. SnapshotsOld'
  <2>1. SUFFICES ASSUME NEW s \in Requests, NEW a \in Accounts
                 PROVE  /\ snapshot[s].version[a] <= version'[a]
                        /\ snapshot[s].version[a] = version'[a]
                              => snapshot[s].balance[a] = balance'[a]
                        /\ HoldsRow(s, a)' => snapshot[s].version[a] = version'[a]
    BY <1>4 DEF SnapshotsOld
  <2>2. snapshot[s].version[a] \in Nat /\ version[a] \in Nat
    BY <1>2 DEF Types, LedgerTypeOK, Snapshot
  <2>3. CASE a \in {q.from, q.to}
    <3>1. rowLock[a] = r
      BY <1>4, <2>3 DEF LocksMatch, HoldsRow
    <3>2. ~ HoldsRow(s, a)'
      BY <1>9, <3>1 DEF LocksMatch
    <3> QED BY <1>3, <2>2, <2>3, <3>2 DEF SnapshotsOld
  <2>4. CASE a \notin {q.from, q.to}
    BY <1>3, <1>9, <2>4 DEF SnapshotsOld
  <2> QED BY <2>3, <2>4
<1>12. KeysOld'
  BY <1>4, <1>6 DEF KeysOld
<1>13. ReadyToCommit'
  <2>1. SUFFICES ASSUME NEW s \in Requests, pc'[s] \in {"insert", "commit"}
                 PROVE  UpdatesOK(s)' /\ (pc'[s] = "commit" => ReqOf[s].key \notin UsedKeys')
    BY DEF ReadyToCommit
  <2>2. s # r /\ pc[s] = pc'[s]
    BY <1>7, <2>1
  <2>3. UpdatesOK(s)'
    BY <1>4, <2>1, <2>2 DEF ReadyToCommit, UpdatesOK, EntriesOf, PolicyOK
  <2>4. ASSUME pc'[s] = "commit" PROVE ReqOf[s].key \notin UsedKeys'
    <3>1. keyLock[q.key] = r /\ keyLock[ReqOf[s].key] = s
      BY <1>0, <1>4, <2>2, <2>4, RequestTypes DEF LocksMatch
    <3>2. ReqOf[s].key # q.key
      BY <2>2, <3>1
    <3> QED BY <1>6, <2>2, <2>4, <3>2 DEF ReadyToCommit
  <2> QED BY <2>3, <2>4
<1>14. TransfersOfDone'
  <2>1. \A s \in Requests : Done(s)' <=> Done(s) \/ s = r
    BY <1>7 DEF Done
  <2>2. ~ Done(r) /\ q.key \notin UsedKeys
    BY <1>4 DEF Done, ReadyToCommit
  <2>3. \A s \in Requests : Done(s) => ReqOf[s].key # q.key
    <3>1. \A s \in Requests : TransferOf(s).key = ReqOf[s].key
      BY DEF TransferOf
    <3> QED BY <2>2, <3>1 DEF TransfersOfDone, UsedKeys
  <2>4. \A s \in Requests : Done(s)' => TransferOf(s) \in transfers'
    BY <1>5, <2>1 DEF TransfersOfDone
  <2>5. \A t \in transfers' : \E s \in Requests : Done(s)' /\ t = TransferOf(s)
    BY <1>5, <2>1 DEF TransfersOfDone
  <2>6. \A s, t \in Requests :
           Done(s)' /\ Done(t)' /\ ReqOf[s].key = ReqOf[t].key => s = t
    BY <2>1, <2>3 DEF TransfersOfDone
  <2>7. \A s \in Requests : pc'[s] = "idempotency" => ReqOf[s].key \in UsedKeys'
    BY <1>6, <1>7 DEF TransfersOfDone
  <2> QED BY <2>4, <2>5, <2>6, <2>7 DEF TransfersOfDone, TransferOf
<1> QED BY <1>8, <1>10, <1>11, <1>12, <1>13, <1>14

(* A retryable error is a rollback. *)
LEMMA RetryStep ==
    ASSUME TxInv, NEW r \in Requests, InTx(r), Retry(r)
    PROVE  TxInv' /\ UNCHANGED <<ledgerVars, entries>>
<1> DEFINE p == IF AttemptsLeft(r) THEN "backoff" ELSE "failed"
<1>1. p \in Undone /\ p # "idempotency"
  BY DEF Undone
<1>2. p = "backoff" => attempt[r] < MaxAttempts
  BY DEF AttemptsLeft
<1>3. Rollback(r, p)
  BY DEF Retry
<1> HIDE DEF p
<1>4. TxInv'
  BY <1>1, <1>2, <1>3, RollbackStep
<1> QED BY <1>3, <1>4 DEF Rollback

(* The SELECT ... FOR UPDATE of either account. *)
LEMMA LockRowStep ==
    ASSUME TxInv, NEW r \in Requests,
           LockFrom(r) \/ LockTo(r)
    PROVE  TxInv' /\ UNCHANGED <<ledgerVars, entries>>
<1>1. InTx(r)
  BY DEF LockFrom, LockTo, InTx, Statements
<1>2. CASE Retry(r)
  BY <1>1, <1>2, RetryStep
<1>3. CASE LockFrom(r) /\ ~ Retry(r)
  <2>1. /\ pc[r] = "lockFrom" /\ ~ RowChanged(r, ReqOf[r].from)
        /\ rowLock[ReqOf[r].from] = None
        /\ rowLock' = [rowLock EXCEPT ![ReqOf[r].from] = r]
        /\ UNCHANGED keyLock
        /\ Advance(r, "lockTo")
    BY <1>1, <1>3 DEF LockFrom, LockRow, Advance
  <2>2. "lockTo" \in Statements \ {"lockFrom"}
    BY DEF Statements
  <2>3. TxInv'
    BY <2>1, <2>2, AdvanceStep
  <2> QED BY <2>1, <2>3 DEF Advance
<1>4. CASE LockTo(r) /\ ~ Retry(r)
  <2>1. /\ pc[r] = "lockTo" /\ ~ RowChanged(r, ReqOf[r].to)
        /\ rowLock[ReqOf[r].to] = None
        /\ rowLock' = [rowLock EXCEPT ![ReqOf[r].to] = r]
        /\ UNCHANGED keyLock
        /\ Advance(r, "post")
    BY <1>1, <1>4 DEF LockTo, LockRow, Advance
  <2>2. "post" \in Statements \ {"lockFrom"}
    BY DEF Statements
  <2>3. TxInv'
    BY <2>1, <2>2, AdvanceStep
  <2> QED BY <2>1, <2>3 DEF Advance
<1> QED BY <1>2, <1>3, <1>4

(* Both UPDATEs with their policy checks. *)
LEMMA PostStep ==
    ASSUME TxInv, NEW r \in Requests, Post(r)
    PROVE  TxInv' /\ UNCHANGED <<ledgerVars, entries>>
<1>1. InTx(r) /\ pc[r] = "post"
  BY DEF Post, InTx, Statements
<1>2. CASE UpdatesOK(r)
  <2>1. Advance(r, "insert") /\ UNCHANGED <<rowLock, keyLock>>
    BY <1>1, <1>2 DEF Post, Advance
  <2>2. "insert" \in Statements \ {"lockFrom"}
    BY DEF Statements
  <2>3. TxInv'
    BY <1>1, <1>2, <2>1, <2>2, AdvanceStep
  <2> QED BY <2>1, <2>3 DEF Advance
<1>3. CASE ~ UpdatesOK(r)
  <2>1. Rollback(r, "policy")
    BY <1>3 DEF Post
  <2>2. TxInv'
    BY <1>1, <2>1, RollbackStep DEF Undone
  <2> QED BY <2>1, <2>2 DEF Rollback
<1> QED BY <1>2, <1>3

(* The INSERT of the transfer and its three outcomes. *)
LEMMA InsertStep ==
    ASSUME TxInv, NEW r \in Requests, InsertTransfer(r)
    PROVE  TxInv' /\ UNCHANGED <<ledgerVars, entries>>
<1>1. InTx(r) /\ pc[r] = "insert" /\ keyLock[ReqOf[r].key] = None
  BY DEF InsertTransfer, InTx, Statements
<1>2. CASE ~ Conflict(r)
  <2>1. /\ Advance(r, "commit") /\ UNCHANGED rowLock
        /\ keyLock' = [keyLock EXCEPT ![ReqOf[r].key] = r]
    BY <1>1, <1>2 DEF InsertTransfer, Advance
  <2>2. "commit" \in Statements \ {"lockFrom"}
    BY DEF Statements
  <2>3. TxInv'
    BY <1>1, <1>2, <2>1, <2>2, AdvanceStep
  <2> QED BY <2>1, <2>3 DEF Advance
<1>3. CASE Conflict(r) /\ ReqOf[r].key \in snapshot[r].keys
  <2>1. Rollback(r, "idempotency") /\ ReqOf[r].key \in UsedKeys
    BY <1>3 DEF InsertTransfer, Conflict
  <2>2. TxInv'
    BY <1>1, <2>1, RollbackStep DEF Undone
  <2> QED BY <2>1, <2>2 DEF Rollback
<1>4. CASE Conflict(r) /\ ReqOf[r].key \notin snapshot[r].keys
  <2>1. Retry(r)
    BY <1>4 DEF InsertTransfer
  <2> QED BY <1>1, <2>1, RetryStep
<1> QED BY <1>2, <1>3, <1>4

(* Every step keeps the invariant, and only a COMMIT touches the ledger. *)
LEMMA TxInvStep ==
    ASSUME TxInv, [Next]_vars
    PROVE  /\ TxInv'
           /\ \/ UNCHANGED <<ledgerVars, entries>>
              \/ \E r \in Requests, answer \in {"ok", "unknown"} : Commit(r, answer)
<1>1. CASE UNCHANGED vars
  <2>1. UNCHANGED <<balance, version, transfers, pc, attempt, snapshot, rowLock, keyLock, entries>>
    BY <1>1 DEF vars, txVars, ledgerVars
  <2> QED BY <2>1 DEF TxInv, Types, TypeOK, LedgerTypeOK, AttemptsBounded, LocksMatch,
        HoldsRow, SnapshotsOld, KeysOld, UsedKeys, ReadyToCommit, UpdatesOK, EntriesOf,
        PolicyOK, TransfersOfDone, TransferOf, Done, ledgerVars
<1>2. ASSUME NEW r \in Requests, Begin(r)
      PROVE  TxInv' /\ UNCHANGED <<ledgerVars, entries>>
  BY <1>2, BeginStep DEF Begin
<1>3. ASSUME NEW r \in Requests, Cancel(r)
      PROVE  TxInv' /\ UNCHANGED <<ledgerVars, entries>>
  <2>1. TxInv'
    BY <1>3, RollbackStep DEF Cancel, Undone
  <2> QED BY <1>3, <2>1 DEF Cancel, Rollback
<1>4. ASSUME NEW r \in Requests, SerializationFailure(r)
      PROVE  TxInv' /\ UNCHANGED <<ledgerVars, entries>>
  BY <1>4, RetryStep DEF SerializationFailure
<1>5. ASSUME NEW r \in Requests, DeadlockDetected(r)
      PROVE  TxInv' /\ UNCHANGED <<ledgerVars, entries>>
  BY <1>5, RetryStep, DeadlockedInTx DEF DeadlockDetected
<1>6. ASSUME NEW r \in Requests, NEW answer \in {"ok", "unknown"}, Commit(r, answer)
      PROVE  TxInv'
  BY <1>6, CommitStep
<1> QED BY <1>1, <1>2, <1>3, <1>4, <1>5, <1>6, LockRowStep, PostStep, InsertStep
        DEF Next, Statement

(* The invariant of the concurrent transactions holds in every state. *)
LEMMA TxInvAlways == Spec => []TxInv
<1>1. Init => TxInv
  BY TxInvInit
<1>2. TxInv /\ [Next]_vars => TxInv'
  BY TxInvStep
<1> QED BY <1>1, <1>2, PTL DEF Spec

-----------------------------------------------------------------------------
(* Serializability of the ledger: whatever the interleaving of the statements
   of concurrent transfers, the aborts, the retries and the lost answers, the
   ledger changes only by whole transfers, one after the other
   (ledger_create_transfer under SERIALIZABLE, the loops of AddBet and
   CashoutBet). *)
THEOREM ImplementsLedger == Spec => LedgerSpec
<1>1. Init => LedgerInit
  BY DEF Init
<1>2. TxInv /\ [Next]_vars => [LedgerNext]_ledgerVars
  <2> SUFFICES ASSUME TxInv, [Next]_vars, ~ UNCHANGED ledgerVars
               PROVE  LedgerNext
    OBVIOUS
  <2>1. PICK r \in Requests, answer \in {"ok", "unknown"} : Commit(r, answer)
    BY TxInvStep
  <2>2. TransferMoney(ReqOf[r].from, ReqOf[r].to, ReqOf[r].amount, ReqOf[r].key)
    BY <2>1, CommitIsTransfer
  <2> QED BY <2>2, RequestTypes DEF LedgerNext
<1> QED BY <1>1, <1>2, TxInvAlways, PTL DEF Spec, LedgerSpec

(* An answer tells what happened, for any number of requests that share
   idempotency keys: "ok" means that this very request paid and no other with
   its key did, an idempotency error that the key has paid, and any other error
   of a request that has its key to itself that nothing was paid. *)
THEOREM AnswersAreTruthful == Spec => []AnswersTruthful
<1>1. ASSUME TxInv PROVE AnswersTruthful
  <2> USE <1>1 DEF TxInv, TransfersOfDone
  <2>1. SUFFICES ASSUME NEW r \in Requests,
                        NEW same, same = {s \in Requests \ {r} : ReqOf[s].key = ReqOf[r].key}
                 PROVE
        /\ pc[r] = "ok" =>
              /\ \E t \in transfers : t.key = ReqOf[r].key /\ t.from = ReqOf[r].from
                                        /\ t.to = ReqOf[r].to /\ t.amount = ReqOf[r].amount
              /\ \A s \in same : pc[s] \notin {"ok", "unknown"}
        /\ pc[r] = "idempotency" => ReqOf[r].key \in UsedKeys
        /\ (pc[r] \in {"insufficient", "policy", "failed", "cancelled"} /\ same = {})
              => ReqOf[r].key \notin UsedKeys
    BY DEF AnswersTruthful
  <2>2. \A s \in Requests :
           /\ TransferOf(s).key = ReqOf[s].key /\ TransferOf(s).from = ReqOf[s].from
           /\ TransferOf(s).to = ReqOf[s].to /\ TransferOf(s).amount = ReqOf[s].amount
    BY DEF TransferOf
  <2>3. ASSUME pc[r] = "ok" PROVE TransferOf(r) \in transfers
    BY <2>3 DEF Done
  <2>4. ASSUME pc[r] = "ok", NEW s \in same PROVE pc[s] \notin {"ok", "unknown"}
    BY <2>1, <2>4 DEF Done
  <2>5. ASSUME pc[r] \in {"insufficient", "policy", "failed", "cancelled"}, same = {}
        PROVE  ReqOf[r].key \notin UsedKeys
    <3>1. SUFFICES ASSUME NEW t \in transfers, t.key = ReqOf[r].key PROVE FALSE
      BY DEF UsedKeys
    <3>2. PICK s \in Requests : Done(s) /\ t = TransferOf(s)
      OBVIOUS
    <3>3. s # r
      BY <2>5, <3>2 DEF Done
    <3> QED BY <2>1, <2>2, <2>5, <3>1, <3>2, <3>3
  <2> QED BY <2>2, <2>3, <2>4, <2>5
<1> QED BY <1>1, TxInvAlways, PTL

-----------------------------------------------------------------------------
(* M is a chain of entries that ends at version v with balance b ... *)
Chain(M, v, b) ==
    /\ Cardinality(M) = v
    /\ \A e \in M :
          /\ IF e.version = 1 THEN e.previous = 0
             ELSE \E f \in M : f.version = e.version - 1 /\ f.current = e.previous
          /\ e.version = v => e.current = b

(* ... and its last entry is there, or the account is untouched. *)
ChainEnd(M, v, b) ==
    /\ IsFiniteSet(M)
    /\ v = 0 => b = 0
    /\ v # 0 => \E e \in M : e.version = v /\ e.current = b
    /\ \A e \in M : e.version \in 1 .. v

EntriesFor(a) == {e \in entries : e.account = a}

(* The entries of every account form a chain with its end. *)
ChainsInv ==
    \A a \in Accounts : /\ Chain(EntriesFor(a), version[a], balance[a])
                        /\ ChainEnd(EntriesFor(a), version[a], balance[a])

(* An entry that starts at the end of a chain makes it longer by one. *)
LEMMA ChainExtends ==
    ASSUME NEW M, NEW v \in Nat, NEW b \in Int, NEW c \in Int,
           Chain(M, v, b), ChainEnd(M, v, b),
           NEW e, e.version = v + 1, e.previous = b, e.current = c
    PROVE  Chain(M \cup {e}, v + 1, c) /\ ChainEnd(M \cup {e}, v + 1, c)
<1> USE DEF Chain, ChainEnd
<1>1. e \notin M
  OBVIOUS
<1>2. IsFiniteSet(M \cup {e}) /\ Cardinality(M \cup {e}) = v + 1
  BY <1>1, FS_AddElement
<1>3. IF e.version = 1 THEN e.previous = 0
      ELSE \E f \in M : f.version = e.version - 1 /\ f.current = e.previous
  OBVIOUS
<1>4. \A f \in M : f.version # v + 1
  OBVIOUS
<1> QED BY <1>2, <1>3, <1>4

(* The chains at the start: no entries, version 0 and balance 0. *)
LEMMA ChainsInit == Init => ChainsInv
<1> SUFFICES ASSUME Init, NEW a \in Accounts
             PROVE  /\ Chain(EntriesFor(a), version[a], balance[a])
                    /\ ChainEnd(EntriesFor(a), version[a], balance[a])
  BY DEF ChainsInv
<1>1. EntriesFor(a) = {} /\ version[a] = 0 /\ balance[a] = 0
  BY DEF Init, LedgerInit, EntriesFor
<1> QED BY <1>1, FS_EmptySet DEF Chain, ChainEnd

(* A COMMIT adds one entry to each of its two accounts, at the end of the chain:
   the rows it wrote were locked. *)
LEMMA ChainsStep ==
    ASSUME TxInv, ChainsInv, [Next]_vars
    PROVE  ChainsInv'
<1>1. CASE UNCHANGED <<ledgerVars, entries>>
  BY <1>1 DEF ChainsInv, ledgerVars, EntriesFor
<1>2. ASSUME NEW r \in Requests, NEW answer \in {"ok", "unknown"}, Commit(r, answer)
      PROVE  ChainsInv'
  <2> DEFINE q == ReqOf[r]
             ef == EntryAt(r, q.from, - q.amount)
             et == EntryAt(r, q.to, q.amount)
  <2>1. /\ q.from \in Accounts /\ q.to \in Accounts /\ q.from # q.to
        /\ q.amount \in Nat /\ q.amount \in Amounts /\ q.key \in Keys
    BY RequestTypes
  <2>2. LedgerTypeOK
    BY DEF TxInv, Types, TypeOK
  <2>3. TransferMoney(q.from, q.to, q.amount, q.key)
    BY <1>2, CommitIsTransfer
  <2>4. /\ LedgerTypeOK'
        /\ \A a \in Accounts :
              IF a \in {q.from, q.to} THEN version'[a] = version[a] + 1
              ELSE version'[a] = version[a] /\ balance'[a] = balance[a]
        /\ balance'[q.from] = balance[q.from] - q.amount
        /\ balance'[q.to] = balance[q.to] + q.amount
    BY <2>1, <2>2, <2>3, TransferChanges
  <2>5. entries' = entries \cup {ef, et}
    BY <1>2, CommitWrites DEF Commit
  <2>6. /\ ef.account = q.from /\ ef.version = version[q.from] + 1
        /\ ef.previous = balance[q.from] /\ ef.current = balance[q.from] + (- q.amount)
        /\ et.account = q.to /\ et.version = version[q.to] + 1
        /\ et.previous = balance[q.to] /\ et.current = balance[q.to] + q.amount
    BY DEF EntryAt
  <2>7. \A a \in Accounts : /\ balance[a] \in Int /\ balance'[a] \in Int
                            /\ version[a] \in Nat
    BY <2>2, <2>4 DEF LedgerTypeOK
  <2>8. ef.current = balance'[q.from] /\ et.current = balance'[q.to]
    BY <2>1, <2>4, <2>6, <2>7
  <2> HIDE DEF ef, et, q
  <2>9. SUFFICES ASSUME NEW a \in Accounts
                 PROVE  /\ Chain(EntriesFor(a)', version'[a], balance'[a])
                        /\ ChainEnd(EntriesFor(a)', version'[a], balance'[a])
    BY DEF ChainsInv, Chain, ChainEnd
  <2>10. /\ Chain(EntriesFor(a), version[a], balance[a])
         /\ ChainEnd(EntriesFor(a), version[a], balance[a])
    BY DEF ChainsInv
  <2>11. CASE a = q.from
    <3>1. EntriesFor(a)' = EntriesFor(a) \cup {ef}
      BY <2>1, <2>5, <2>6, <2>11 DEF EntriesFor
    <3>2. /\ Chain(EntriesFor(a) \cup {ef}, version[a] + 1, balance'[a])
          /\ ChainEnd(EntriesFor(a) \cup {ef}, version[a] + 1, balance'[a])
      BY <2>6, <2>7, <2>8, <2>10, <2>11, ChainExtends
    <3> QED BY <2>4, <2>11, <3>1, <3>2
  <2>12. CASE a = q.to
    <3>1. EntriesFor(a)' = EntriesFor(a) \cup {et}
      BY <2>1, <2>5, <2>6, <2>12 DEF EntriesFor
    <3>2. /\ Chain(EntriesFor(a) \cup {et}, version[a] + 1, balance'[a])
          /\ ChainEnd(EntriesFor(a) \cup {et}, version[a] + 1, balance'[a])
      BY <2>6, <2>7, <2>8, <2>10, <2>12, ChainExtends
    <3> QED BY <2>4, <2>12, <3>1, <3>2
  <2>13. CASE a \notin {q.from, q.to}
    <3>1. EntriesFor(a)' = EntriesFor(a)
      BY <2>5, <2>6, <2>13 DEF EntriesFor
    <3> QED BY <2>4, <2>10, <2>13, <3>1
  <2> QED BY <2>11, <2>12, <2>13
<1> QED BY <1>1, <1>2, TxInvStep

(* No transfer is computed from a balance that another one has replaced: the
   entries of an account form one chain, one entry per version, each starting
   at the balance the one before left. *)
THEOREM EntriesFormChain == Spec => []EntriesChain
<1>1. Init => ChainsInv
  BY ChainsInit
<1>2. TxInv /\ ChainsInv /\ [Next]_vars => ChainsInv'
  BY ChainsStep
<1>3. ChainsInv => EntriesChain
  BY DEF ChainsInv, Chain, EntriesFor, EntriesChain
<1> QED BY <1>1, <1>2, <1>3, TxInvAlways, PTL DEF Spec

=============================================================================
