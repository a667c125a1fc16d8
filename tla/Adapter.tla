-------------------------------- MODULE Adapter --------------------------------
(******************************************************************************)
(* What a database adapter does with the statements and the transactions of   *)
(* concurrent requests (packages/db-sqlite, db-postgres and db-pglite).       *)
(*                                                                            *)
(*   interactive   one SQLite connection, shared by every request             *)
(*                 (node, bun, wasm), beside other processes on the same file *)
(*   atomic-batch  D1: a transaction is a sequence of autocommits             *)
(*   pool          PostgreSQL connections, one held by each transaction       *)
(*   pglite        a pool of one                                              *)
(*                                                                            *)
(* Every await is a step of its own.  The driver, the pool and the database   *)
(* behind them are external.                                                  *)
(******************************************************************************)
EXTENDS Naturals, FiniteSets

CONSTANTS
  Requests,   \* calls of execute() and transaction()
  PoolSize,   \* connections of the pool
  MaxWrites   \* bound: statements of a transaction

Nobody == "nobody"

AdapterAssumption == PoolSize \in Nat \ {0} /\ MaxWrites \in Nat /\ Nobody \notin Requests

VARIABLES
  kind,       \* which adapter this is
  isOpen,     \* not closed
  txDepth,    \* the counter of the SQLite adapter
  conn,       \* each connection's transaction: its request and its writes so far
  locked,     \* another process holds the write lock of the file
  committed,  \* the writes the database keeps
  work,        \* where each request stands, its number of writes, its answer
  joined      \* autocommits that fell into the transaction of another request

adapterVars == <<kind, isOpen, txDepth, conn, locked, committed, work, joined>>

Kinds == {"interactive", "atomic-batch", "pool", "pglite"}

Pools == {"pool", "pglite"}

\* The SQLite adapters and PGlite have one connection.
Conns == IF kind = "pool" THEN 1..PoolSize ELSE {1}

NoTx == [by |-> Nobody, writes |-> {}]

AdapterInit ==
  /\ kind \in Kinds
  /\ isOpen = TRUE /\ txDepth = 0
  /\ conn = [i \in 1..PoolSize |-> NoTx]
  /\ locked = FALSE /\ committed = {} /\ joined = {}
  /\ work = [r \in Requests |-> [pc |-> "new", n |-> 0, tx |-> FALSE, answer |-> "none"]]

At(r, l) == work[r].pc = l

Answer(r, a) == work' = [work EXCEPT ![r].pc = "answered", ![r].answer = a]

Acknowledge(r, n) ==
  work' = [work EXCEPT ![r].pc = "answered", ![r].n = n, ![r].answer = "ok"]

Writes(r) == {<<r, i>> : i \in 1..work[r].n}

IdleConns == {i \in Conns : conn[i].by = Nobody}

HeldBy(r) == CHOOSE i \in Conns : conn[i].by = r

--------------------------------------------------------------------------------

\* execute() without a transaction: one write.  On the shared connection it becomes a
\* part of whatever transaction is open; a locked file makes it fail, and that is mapped.
Execute(r) ==
  /\ At(r, "new") /\ isOpen /\ kind = "interactive"
  /\ IF IdleConns = {} \/ ~locked
     THEN /\ Acknowledge(r, 1)
          /\ IF IdleConns = {}
             THEN /\ conn' = [conn EXCEPT ![1].writes = @ \cup {<<r, 1>>}]
                  /\ joined' = joined \cup {<<r, 1>>}
                  /\ UNCHANGED committed
             ELSE committed' = committed \cup {<<r, 1>>} /\ UNCHANGED <<conn, joined>>
     ELSE Answer(r, "SK_DB_BUSY") /\ UNCHANGED <<conn, committed, joined>>
  /\ UNCHANGED <<kind, isOpen, txDepth, locked>>

\* D1 runs each prepared statement by itself.
ExecuteD1(r) ==
  /\ At(r, "new") /\ isOpen /\ kind = "atomic-batch"
  /\ Acknowledge(r, 1)
  /\ committed' = committed \cup {<<r, 1>>}
  /\ UNCHANGED <<kind, isOpen, txDepth, conn, locked, joined>>

\* A statement outside a transaction takes a free connection of the pool.
ExecutePool(r) ==
  /\ At(r, "new") /\ isOpen /\ kind \in Pools /\ IdleConns # {}
  /\ Acknowledge(r, 1)
  /\ committed' = committed \cup {<<r, 1>>}
  /\ UNCHANGED <<kind, isOpen, txDepth, conn, locked, joined>>

Enter(r) == work' = [work EXCEPT ![r].pc = "tx", ![r].tx = TRUE]

\* transaction() on SQLite refuses a second one, and counts before BEGIN IMMEDIATE: on a
\* locked file that throws, unmapped, past the finally.
BeginShared(r) ==
  /\ At(r, "new") /\ isOpen /\ kind = "interactive"
  /\ \/ txDepth > 0 /\ Answer(r, "SK_DB_NESTED_TX") /\ UNCHANGED <<txDepth, conn>>
     \/ txDepth = 0 /\ locked /\ txDepth' = 1 /\ Answer(r, "SQLITE_BUSY") /\ UNCHANGED conn
     \/ txDepth = 0 /\ ~locked /\ txDepth' = 1 /\ Enter(r) /\ conn' = [conn EXCEPT ![1].by = r]
  /\ UNCHANGED <<kind, isOpen, locked, committed, joined>>

\* On D1 there is no BEGIN, but the same refusal.
BeginD1(r) ==
  /\ At(r, "new") /\ isOpen /\ kind = "atomic-batch"
  /\ \/ txDepth > 0 /\ Answer(r, "SK_DB_NESTED_TX") /\ UNCHANGED txDepth
     \/ txDepth = 0 /\ txDepth' = 1 /\ Enter(r)
  /\ UNCHANGED <<kind, isOpen, conn, locked, committed, joined>>

\* A transaction waits for a connection, and keeps it.
BeginPool(r) ==
  /\ At(r, "new") /\ isOpen /\ kind \in Pools
  /\ \E i \in IdleConns : conn' = [conn EXCEPT ![i].by = r]
  /\ Enter(r)
  /\ UNCHANGED <<kind, isOpen, txDepth, locked, committed, joined>>

\* assertOpen, ensureReady.
RefuseClosed(r) ==
  /\ At(r, "new") /\ ~isOpen
  /\ Answer(r, "SK_DB_CLOSED")
  /\ UNCHANGED <<kind, isOpen, txDepth, conn, locked, committed, joined>>

\* tx.execute(): D1 commits it at once.
TxExecute(r) ==
  /\ At(r, "tx") /\ isOpen /\ work[r].n < MaxWrites
  /\ work' = [work EXCEPT ![r].n = @ + 1]
  /\ LET w == <<r, work[r].n + 1>>
     IN  IF kind = "atomic-batch"
         THEN committed' = committed \cup {w} /\ UNCHANGED conn
         ELSE conn' = [conn EXCEPT ![HeldBy(r)].writes = @ \cup {w}] /\ UNCHANGED committed
  /\ UNCHANGED <<kind, isOpen, txDepth, locked, joined>>

\* A callback calls adapter.execute() instead of tx.execute(), to read.
ReadOutside(r) ==
  /\ At(r, "tx") /\ isOpen /\ work' = [work EXCEPT ![r].pc = "outside"]
  /\ UNCHANGED <<kind, isOpen, txDepth, conn, locked, committed, joined>>

ReadAnswered(r) ==
  /\ At(r, "outside")
  /\ kind \in Pools => IdleConns # {}
  /\ work' = [work EXCEPT ![r].pc = "tx"]
  /\ UNCHANGED <<kind, isOpen, txDepth, conn, locked, committed, joined>>

\* The finally of transaction(), and the pool taking its connection back.
Release(r) ==
  /\ txDepth' = IF kind \in Pools THEN txDepth ELSE txDepth - 1
  /\ conn' = [i \in DOMAIN conn |-> IF conn[i].by = r THEN NoTx ELSE conn[i]]

\* The callback returned: COMMIT.
Commit(r) ==
  /\ At(r, "tx") /\ isOpen
  /\ committed' = IF kind = "atomic-batch" THEN committed
                  ELSE committed \cup conn[HeldBy(r)].writes
  /\ Release(r) /\ Answer(r, "ok")
  /\ UNCHANGED <<kind, isOpen, locked, joined>>

\* Mutant: COMMIT before the callback's error is looked at.
RollbackAfterCommit(r) ==
  /\ At(r, "tx")
  /\ committed' = committed \cup UNION {conn[i].writes : i \in {j \in Conns : conn[j].by = r}}
  /\ Release(r) /\ Answer(r, "thrown")
  /\ UNCHANGED <<kind, isOpen, locked, joined>>

\* Mutant: the connection is not given back.
RollbackKeeps(r) ==
  /\ At(r, "tx")
  /\ Answer(r, "thrown")
  /\ UNCHANGED <<kind, isOpen, locked, joined, txDepth, conn, committed>>

\* The callback threw: ROLLBACK, whose own error is dropped, takes back the writes on the
\* connection, whoever made them.  D1 has nothing to take back.
Rollback(r) ==
  /\ At(r, "tx")
  /\ Release(r) /\ Answer(r, "thrown")
  /\ UNCHANGED <<kind, isOpen, locked, committed, joined>>

\* atomicBatch(), where the database has it.
Batch(r) ==
  /\ At(r, "new") /\ isOpen /\ kind = "atomic-batch"
  /\ Acknowledge(r, MaxWrites)
  /\ committed' = committed \cup {<<r, i>> : i \in 1..MaxWrites}
  /\ UNCHANGED <<kind, isOpen, txDepth, conn, locked, joined>>

\* close(): the open transactions of the connections are gone with them.
Close ==
  /\ isOpen /\ isOpen' = FALSE
  /\ conn' = [i \in DOMAIN conn |-> NoTx]
  /\ UNCHANGED <<kind, txDepth, locked, committed, work, joined>>

\* External: another process takes and leaves the write lock.
OtherLocks ==
  /\ kind = "interactive" /\ ~locked /\ IdleConns # {} /\ locked' = TRUE
  /\ UNCHANGED <<kind, isOpen, txDepth, conn, committed, work, joined>>

OtherUnlocks ==
  /\ locked /\ locked' = FALSE
  /\ UNCHANGED <<kind, isOpen, txDepth, conn, committed, work, joined>>

RequestNext(r) ==
  \/ Execute(r) \/ ExecuteD1(r) \/ ExecutePool(r) \/ BeginShared(r) \/ BeginD1(r) \/ BeginPool(r)
  \/ RefuseClosed(r) \/ TxExecute(r) \/ ReadOutside(r) \/ ReadAnswered(r)
  \/ Commit(r) \/ Rollback(r) \/ Batch(r)

AdapterNext == Close \/ OtherLocks \/ OtherUnlocks \/ \E r \in Requests : RequestNext(r)

AdapterSpec == AdapterInit /\ [][AdapterNext]_adapterVars

--------------------------------------------------------------------------------

\* What was acknowledged is kept, unless it was an autocommit that fell into the open
\* transaction of another request on the shared SQLite connection; and nothing is kept of a
\* transaction that threw or was cut off, except on D1.
KeptOrGone ==
  \A r \in Requests :
    /\ work[r].answer = "ok" => Writes(r) \subseteq committed \cup joined
    /\ work[r].tx /\ work[r].answer # "ok" /\ kind # "atomic-batch" =>
         Writes(r) \cap committed = {}

\* Requests that have not been answered can move, unless every connection is held by a
\* transaction that waits for a further connection.
StallsOnlyOutside ==
  LET waiting == {r \in Requests : At(r, "outside")}
  IN  kind \in Pools /\ isOpen /\ IdleConns = {} =>
        (\E i \in Conns : At(conn[i].by, "tx")) \/ {conn[i].by : i \in Conns} \subseteq waiting
================================================================================
