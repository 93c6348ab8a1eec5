--------------------------- MODULE TelemetryLedger ---------------------------
(***************************************************************************)
(* state/ledger.py: SqliteLedger queues records and writes them in batches *)
(* by a worker, and once more when it is closed.  The statements run in    *)
(* the thread of the connection: they go on when the worker is cancelled,  *)
(* and what they have inserted stays in the open transaction when a later  *)
(* one fails.                                                              *)
(***************************************************************************)
EXTENDS Naturals, FiniteSets

CONSTANT Metrics   \* the records, each queued once

VARIABLES
  queue,       \* _pending_metrics
  batch,       \* what a flush has taken out of it
  flush,       \* what the flush awaits: "none", "insert", "commit"
  running,     \* "running", or how far close has come: "closing", "flushed", "closed"
  txn,         \* how often each record is in the open transaction
  table,       \* how often it is in the table
  recorded,    \* the records queued so far (history)
  late,        \* those queued when close had taken the queue (history)
  disturbed    \* a statement failed or the daemon was killed (history)

ledgerVars == <<queue, batch, flush, running, txn, table, recorded, late, disturbed>>

NoRows == [m \in Metrics |-> 0]

LedgerInit ==
  /\ queue = {} /\ batch = {} /\ flush = "none" /\ running = "running"
  /\ txn = NoRows /\ table = NoRows
  /\ recorded = {} /\ late = {} /\ disturbed = FALSE
-----------------------------------------------------------------------------
Plus(rows, s) == [m \in Metrics |-> rows[m] + (IF m \in s THEN 1 ELSE 0)]

\* record_telemetry does not ask whether the ledger is closed.
Record(m) ==
  /\ m \notin recorded
  /\ queue' = queue \cup {m} /\ recorded' = recorded \cup {m}
  /\ late' = IF running \in {"flushed", "closed"} THEN late \cup {m} ELSE late
  /\ UNCHANGED <<batch, flush, running, txn, table, disturbed>>

\* Mutant: the queue is copied and not emptied.
TakeCopy ==
  /\ flush = "none"
  /\ (running = "running" /\ queue # {}) \/ running = "closing"
  /\ batch' = queue /\ flush' = IF queue = {} THEN "none" ELSE "insert"
  /\ running' = IF running = "closing" THEN "flushed" ELSE running
  /\ UNCHANGED <<queue, txn, table, recorded, late, disturbed>>

\* force_flush, of the worker or, once, of close: under the lock the queue is
\* copied and emptied.
Take ==
  /\ flush = "none"
  /\ (running = "running" /\ queue # {}) \/ running = "closing"
  /\ batch' = queue /\ queue' = {} /\ flush' = IF queue = {} THEN "none" ELSE "insert"
  /\ running' = IF running = "closing" THEN "flushed" ELSE running
  /\ UNCHANGED <<txn, table, recorded, late, disturbed>>

Insert ==
  /\ flush = "insert"
  /\ txn' = Plus(txn, batch) /\ flush' = "commit"
  /\ UNCHANGED <<queue, batch, running, table, recorded, late, disturbed>>

Commit ==
  /\ flush = "commit"
  /\ table' = [m \in Metrics |-> table[m] + txn[m]] /\ txn' = NoRows
  /\ flush' = "none" /\ batch' = {}
  /\ UNCHANGED <<queue, running, recorded, late, disturbed>>

\* executemany raises after some rows; commit raises.  Nothing is rolled back, and
\* the batch is not queued again.
InsertFails ==
  /\ flush = "insert"
  /\ \E s \in SUBSET batch : txn' = Plus(txn, s)
  /\ flush' = "none" /\ batch' = {} /\ disturbed' = TRUE
  /\ UNCHANGED <<queue, running, table, recorded, late>>

CommitFails ==
  /\ flush = "commit"
  /\ flush' = "none" /\ batch' = {} /\ disturbed' = TRUE
  /\ UNCHANGED <<queue, running, txn, table, recorded, late>>

\* close: the worker is cancelled.  A statement it awaits is carried out, but
\* nobody goes on from there: what was inserted is not committed.
Close ==
  /\ running = "running" /\ running' = "closing"
  /\ flush' = "none" /\ batch' = {}
  /\ txn' = IF flush = "insert" THEN Plus(txn, batch) ELSE IF flush = "commit" THEN NoRows ELSE txn
  /\ table' = IF flush = "commit" THEN [m \in Metrics |-> table[m] + txn[m]] ELSE table
  /\ disturbed' = (disturbed \/ flush = "insert")
  /\ UNCHANGED <<queue, recorded, late>>

\* Mutant: the connection is closed while the last flush is under way.
CloseAtOnce ==
  /\ running = "flushed"
  /\ running' = "closed" /\ txn' = NoRows /\ flush' = "none" /\ batch' = {}
  /\ UNCHANGED <<queue, table, recorded, late, disturbed>>

\* After the last flush; an open transaction is rolled back, and what came too
\* late for the flush stays in the queue for good.
CloseConnection ==
  /\ running = "flushed" /\ flush = "none"
  /\ running' = "closed" /\ txn' = NoRows
  /\ UNCHANGED <<queue, batch, flush, table, recorded, late, disturbed>>

\* The daemon is killed, and started again: only the table is left.
LedgerKilled ==
  /\ queue' = {} /\ batch' = {} /\ flush' = "none" /\ running' = "running"
  /\ txn' = NoRows /\ disturbed' = TRUE
  /\ UNCHANGED <<table, recorded, late>>

LedgerNext ==
  \/ \E m \in Metrics : Record(m)
  \/ Take \/ Insert \/ Commit \/ InsertFails \/ CommitFails
  \/ Close \/ CloseConnection
-----------------------------------------------------------------------------
LedgerTypeOK ==
  /\ queue \subseteq Metrics /\ batch \subseteq Metrics /\ recorded \subseteq Metrics /\ late \subseteq Metrics
  /\ flush \in {"none", "insert", "commit"}
  /\ running \in {"running", "closing", "flushed", "closed"}
  /\ txn \in [Metrics -> Nat] /\ table \in [Metrics -> Nat]
  /\ disturbed \in BOOLEAN

\* No record is written twice, although a flush may fail after its rows were
\* inserted and a later one commits them.
WrittenOnce ==
  \A m \in Metrics :
    txn[m] + table[m] + (IF m \in queue THEN 1 ELSE 0)
      + (IF m \in batch /\ flush = "insert" THEN 1 ELSE 0) <= 1

\* When the ledger was closed every record that was queued before close took the
\* queue is in the table, unless a statement failed or close cut off the worker's:
\* the worker's flushes and the last one lose nothing between them.
ClosedIsComplete ==
  running = "closed" /\ ~disturbed => \A m \in recorded \ late : table[m] = 1
==============================================================================
