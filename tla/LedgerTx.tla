------------------------------ MODULE LedgerTx ------------------------------
(***************************************************************************)
(* Concurrent calls of TransferMoney, statement by statement: each runs in *)
(* a SERIALIZABLE transaction of its own, inside the retry loop of AddBet  *)
(* and CashoutBet.  LedgerTx implements Ledger, where a call is one step.  *)
(*                                                                         *)
(* PostgreSQL is external and modelled from what the code relies on:       *)
(*  - the first query of a transaction fixes the snapshot it reads;        *)
(*  - SELECT ... FOR UPDATE waits for the row lock, and fails with a       *)
(*    serialization failure when the row changed after the snapshot;       *)
(*  - INSERT ... ON CONFLICT DO NOTHING waits for a transaction in         *)
(*    progress that inserted the same key, inserts nothing when the        *)
(*    snapshot has the key, and fails with a serialization failure when    *)
(*    the key was committed after the snapshot;                            *)
(*  - a transaction that overlaps another may fail with a serialization    *)
(*    failure at any statement;                                            *)
(*  - one transaction of a cycle of waiting ones is aborted;               *)
(*  - a rollback releases its locks and leaves no other trace.             *)
(***************************************************************************)
EXTENDS Ledger

CONSTANTS
    Requests,     \* TransferMoney calls; a client's resubmission is another one
    ReqOf,        \* ReqOf[r]: its arguments, and whether addBetOnce reads the
                  \* balance first
    MaxAttempts,  \* maxAttempts
    None

ASSUME LedgerTxAssumption ==
    /\ ReqOf \in [Requests -> [from : Accounts, to : Accounts, key : Keys,
                               amount : Amounts \ {0}, checked : BOOLEAN]]
    /\ \A r \in Requests : ReqOf[r].from # ReqOf[r].to
    /\ MaxAttempts \in Nat \ {0}
    /\ None \notin Requests

VARIABLES
    pc,         \* pc[r]: the next statement of r, or its answer
    attempt,    \* attempt[r]: attempts made
    snapshot,   \* snapshot[r]: the committed state that r reads
    rowLock,    \* rowLock[a]: the request that holds the row of account a
    keyLock,    \* keyLock[k]: the request that inserted key k, not committed
    entries     \* rows of ledger_entries

txVars == <<pc, attempt, snapshot, rowLock, keyLock, entries>>
vars == <<ledgerVars, txVars>>

Statements == {"lockFrom", "lockTo", "post", "insert", "commit"}
Answers == {"ok", "unknown", "insufficient", "policy", "idempotency",
            "failed", "cancelled"}

Snapshot == [balance : [Accounts -> Int], version : [Accounts -> Nat],
             keys : SUBSET Keys]
Entry == [account : Accounts, key : Keys, amount : Int, previous : Int,
          current : Int, version : Nat]

InTx(r) == pc[r] \in Statements
UsedKeys == {t.key : t \in transfers}
Committed == [balance |-> balance, version |-> version, keys |-> UsedKeys]

Init ==
    /\ LedgerInit
    /\ pc = [r \in Requests |-> "idle"]
    /\ attempt = [r \in Requests |-> 0]
    /\ snapshot = [r \in Requests |-> Committed]
    /\ rowLock = [a \in Accounts |-> None]
    /\ keyLock = [k \in Keys |-> None]
    /\ entries = {}

-----------------------------------------------------------------------------
(* r goes to p and drops every lock it holds. *)
EndTx(r, p) ==
    /\ pc' = [pc EXCEPT ![r] = p]
    /\ rowLock' = [a \in Accounts |-> IF rowLock[a] = r THEN None ELSE rowLock[a]]
    /\ keyLock' = [k \in Keys |-> IF keyLock[k] = r THEN None ELSE keyLock[k]]

(* A rollback, with the error p for the client. *)
Rollback(r, p) ==
    /\ EndTx(r, p)
    /\ UNCHANGED <<ledgerVars, attempt, snapshot, entries>>

(* The loop `for attempt := range maxAttempts' goes round again. *)
AttemptsLeft(r) == attempt[r] < MaxAttempts

(* A retryable error: SerializationFailure or DeadlockDetected. *)
Retry(r) == Rollback(r, IF AttemptsLeft(r) THEN "backoff" ELSE "failed")

(* Begin an attempt.  addBetOnce compares the balance with the bet first. *)
Begin(r) ==
    /\ pc[r] \in {"idle", "backoff"}
    /\ attempt' = [attempt EXCEPT ![r] = @ + 1]
    /\ snapshot' = [snapshot EXCEPT ![r] = Committed]
    /\ pc' = [pc EXCEPT ![r] =
          IF ReqOf[r].checked /\ balance[ReqOf[r].from] < ReqOf[r].amount
            THEN "insufficient" ELSE "lockFrom"]
    /\ UNCHANGED <<ledgerVars, rowLock, keyLock, entries>>

(* The row of account a changed after the snapshot of r. *)
RowNeverChanged(r, a) == FALSE
RowChanged(r, a) == version[a] # snapshot[r].version[a]

(* SELECT ... FOR UPDATE of account a, then the statement p. *)
LockRow(r, a, p) ==
    /\ rowLock[a] = None
    /\ IF RowChanged(r, a) THEN Retry(r)
       ELSE /\ rowLock' = [rowLock EXCEPT ![a] = r]
            /\ pc' = [pc EXCEPT ![r] = p]
            /\ UNCHANGED <<ledgerVars, attempt, snapshot, keyLock, entries>>

LockFrom(r) == pc[r] = "lockFrom" /\ LockRow(r, ReqOf[r].from, "lockTo")
LockTo(r)   == pc[r] = "lockTo"   /\ LockRow(r, ReqOf[r].to, "post")

(* The two rows of ledger_entries of r, from the rows it updated. *)
EntriesOf(r) ==
    LET q == ReqOf[r]
        Row(a, n) == [account |-> a, key |-> q.key, amount |-> n,
                      previous |-> snapshot[r].balance[a],
                      current |-> snapshot[r].balance[a] + n,
                      version |-> snapshot[r].version[a] + 1]
    IN {Row(q.from, - q.amount), Row(q.to, q.amount)}

(* The balance constraints hold after the updates of r. *)
UpdatesOK(r) == \A e \in EntriesOf(r) : PolicyOK(e.account, e.current)

(* Both UPDATEs, each followed by its policy check. *)
Post(r) ==
    /\ pc[r] = "post"
    /\ IF UpdatesOK(r)
         THEN /\ pc' = [pc EXCEPT ![r] = "insert"]
              /\ UNCHANGED <<ledgerVars, attempt, snapshot, rowLock, keyLock, entries>>
         ELSE Rollback(r, "policy")

(* The key is committed: ON CONFLICT (idempotency_key). *)
NoConflict(r) == FALSE
Conflict(r) == ReqOf[r].key \in UsedKeys

(* INSERT INTO ledger_transfers ... ON CONFLICT DO NOTHING *)
InsertTransfer(r) ==
    LET k == ReqOf[r].key IN
    /\ pc[r] = "insert"
    /\ keyLock[k] = None
    /\ CASE ~ Conflict(r) ->
              /\ keyLock' = [keyLock EXCEPT ![k] = r]
              /\ pc' = [pc EXCEPT ![r] = "commit"]
              /\ UNCHANGED <<ledgerVars, attempt, snapshot, rowLock, entries>>
         [] Conflict(r) /\ k \in snapshot[r].keys -> Rollback(r, "idempotency")
         [] OTHER -> Retry(r)

(* The rows of ledger_entries, and COMMIT: the rows r wrote replace the old
   ones.  The answer may be lost on its way to the client. *)
Commit(r, answer) ==
    LET q == ReqOf[r]
        Written(a) == CHOOSE e \in EntriesOf(r) : e.account = a
    IN
    /\ pc[r] = "commit"
    /\ balance' = [a \in Accounts |->
          IF a \in {q.from, q.to} THEN Written(a).current ELSE balance[a]]
    /\ version' = [a \in Accounts |->
          IF a \in {q.from, q.to} THEN Written(a).version ELSE version[a]]
    /\ transfers' = transfers \cup
          {[key |-> q.key, from |-> q.from, to |-> q.to, amount |-> q.amount]}
    /\ entries' = entries \cup EntriesOf(r)
    /\ EndTx(r, answer)
    /\ UNCHANGED <<attempt, snapshot>>

(* The client is gone: ctx is done during a statement or the backoff. *)
Cancel(r) ==
    /\ InTx(r) \/ pc[r] = "backoff"
    /\ Rollback(r, "cancelled")

(* A serialization failure that the snapshots do not show. *)
SerializationFailure(r) ==
    /\ InTx(r)
    /\ \/ \E q \in Requests \ {r} : InTx(q)
       \/ snapshot[r] # Committed
    /\ Retry(r)

-----------------------------------------------------------------------------
(* The request that r waits for, or None *)
Blocker(r) ==
    CASE pc[r] = "lockFrom" -> rowLock[ReqOf[r].from]
      [] pc[r] = "lockTo"   -> rowLock[ReqOf[r].to]
      [] pc[r] = "insert"   -> keyLock[ReqOf[r].key]
      [] OTHER              -> None

(* r is on a cycle of requests that wait for each other. *)
NotDetected(r) == FALSE
Deadlocked(r) ==
    \E S \in SUBSET Requests :
        /\ r \in S
        /\ {Blocker(q) : q \in S} = S

DeadlockDetected(r) == Deadlocked(r) /\ Retry(r)

Statement(r) ==
    \/ LockFrom(r) \/ LockTo(r) \/ Post(r) \/ InsertTransfer(r)
    \/ \E answer \in {"ok", "unknown"} : Commit(r, answer)

Next == \E r \in Requests :
    \/ Begin(r) \/ Statement(r) \/ Cancel(r)
    \/ SerializationFailure(r) \/ DeadlockDetected(r)

(* A client need not send its request.  A request that was received goes on:
   a statement that is not blocked ends, a backoff ends, and PostgreSQL looks
   for deadlocks after deadlock_timeout. *)
Fairness == \A r \in Requests :
    /\ WF_vars(pc[r] = "backoff" /\ Begin(r))
    /\ WF_vars(Statement(r))
    /\ WF_vars(DeadlockDetected(r))

Spec == Init /\ [][Next]_vars
FairSpec == Spec /\ Fairness

-----------------------------------------------------------------------------
TypeOK ==
    /\ LedgerTypeOK
    /\ pc \in [Requests -> {"idle", "backoff"} \cup Statements \cup Answers]
    /\ attempt \in [Requests -> 0 .. MaxAttempts]
    /\ \A r \in Requests : snapshot[r].balance \in [Accounts -> Int]
    /\ rowLock \in [Accounts -> Requests \cup {None}]
    /\ keyLock \in [Keys -> Requests \cup {None}]
    /\ entries \subseteq Entry

(* The entries of an account form one chain: one entry per version up to the
   current one, each starting from the balance the one before left, the last
   ending at the balance of the account.  Two concurrent transfers that read
   the same balance would fork it. *)
EntriesChain ==
    \A a \in Accounts :
        LET mine == {e \in entries : e.account = a} IN
        /\ Cardinality(mine) = version[a]
        /\ \A e \in mine :
              /\ IF e.version = 1 THEN e.previous = 0
                 ELSE \E f \in mine : f.version = e.version - 1 /\ f.current = e.previous
              /\ e.version = version[a] => e.current = balance[a]

(* An answer tells what happened: after "ok" the transfer of this very request
   is in the ledger, and no other request with its key got "ok"; an
   idempotency error means that a transfer with the key is there; any other
   error means that this request transferred nothing. *)
AnswersTruthful ==
    \A r \in Requests :
        LET q == ReqOf[r]
            same == {s \in Requests \ {r} : ReqOf[s].key = q.key} IN
        /\ pc[r] = "ok" =>
              /\ \E t \in transfers : t.key = q.key /\ t.from = q.from
                                        /\ t.to = q.to /\ t.amount = q.amount
              /\ \A s \in same : pc[s] \notin {"ok", "unknown"}
        /\ pc[r] = "idempotency" => q.key \in UsedKeys
        /\ (pc[r] \in {"insufficient", "policy", "failed", "cancelled"} /\ same = {})
              => q.key \notin UsedKeys

(* A request that was received is answered: bets and cashouts lock the same
   two accounts in opposite orders, and no wait lasts for ever. *)
EventuallyAnswered ==
    \A r \in Requests : InTx(r) ~> pc[r] \in Answers
=============================================================================
