------------------------------ MODULE LogStore ------------------------------
(***************************************************************************)
(* The writer of one app's log database (internal/logstore: writer.go,     *)
(* retention.go, store.go).  Requests and log lines are queued without     *)
(* waiting, one goroutine batches them and inserts a batch in one          *)
(* transaction; the queue and the batch are bounded, and a database that   *)
(* fails is tried again at the next tick.                                  *)
(***************************************************************************)
EXTENDS Naturals, Sequences, SequencesExt, FiniteSets

CONSTANTS
    RowIds,       \* the rows that are recorded
    QueueSize,    \* queueSize
    FlushAt,      \* requests that are flushed without waiting for the tick
    MaxBuffered,  \* maxBufferedRequests, maxBufferedLogs
    MaxFailures   \* bound: inserts that fail

ASSUME LogStoreAssumption ==
    /\ IsFiniteSet(RowIds)
    /\ QueueSize \in Nat \ {0} /\ FlushAt \in Nat \ {0} /\ MaxBuffered \in Nat \ {0}
    /\ MaxFailures \in Nat

VARIABLES
    rowState,   \* of each row: "new", "refused" by a full queue, "accepted",
                \* "late" when it was accepted after Close
    rowQueue,   \* w.entries
    rowBatch,   \* requests and logs, the rows waiting for an insert
    rowTable,   \* the committed rows
    rowWriter,  \* the goroutine: "loop", "flush" before an insert, "draining", "last" flush, "done"
    rowStop,    \* w.stop is closed
    rowDropped, \* rows the caps dropped
    rowFailures \* failed inserts so far

rowVars == <<rowState, rowQueue, rowBatch, rowTable, rowWriter, rowStop, rowDropped, rowFailures>>

RowInit ==
    /\ rowState = [r \in RowIds |-> "new"]
    /\ rowQueue = <<>> /\ rowBatch = <<>> /\ rowTable = <<>>
    /\ rowWriter = "loop" /\ rowStop = FALSE
    /\ rowDropped = {} /\ rowFailures = 0

(* Record, RecordLogs: never waits.  The writer of an app stays in s.apps  *)
(* after Close, so that a late row is accepted as well.                    *)
RowRecord(r) ==
    /\ rowState[r] = "new"
    /\ IF Len(rowQueue) < QueueSize
       THEN rowState' = [rowState EXCEPT ![r] = IF rowStop THEN "late" ELSE "accepted"] /\ rowQueue' = Append(rowQueue, r)
       ELSE rowState' = [rowState EXCEPT ![r] = "refused"] /\ rowQueue' = rowQueue
    /\ UNCHANGED <<rowBatch, rowTable, rowWriter, rowStop, rowDropped, rowFailures>>

(* The loop takes an entry; enough of them are flushed at once.            *)
RowTake ==
    /\ rowWriter \in {"loop", "draining"} /\ rowQueue # <<>>
    /\ rowBatch' = Append(rowBatch, Head(rowQueue))
    /\ rowQueue' = Tail(rowQueue)
    /\ rowWriter' = IF rowWriter = "loop" /\ Len(rowBatch') >= FlushAt THEN "flush" ELSE rowWriter
    /\ UNCHANGED <<rowState, rowTable, rowStop, rowDropped, rowFailures>>

RowTick ==
    /\ rowWriter = "loop" /\ rowBatch # <<>>
    /\ rowWriter' = "flush"
    /\ UNCHANGED <<rowState, rowQueue, rowBatch, rowTable, rowStop, rowDropped, rowFailures>>

RowFlushed == IF rowWriter = "flush" THEN "loop" ELSE "done"

(* Mutant: the batch is kept after it was inserted.                        *)
RowInsertKeep ==
    /\ rowWriter \in {"flush", "last"}
    /\ rowTable' = rowTable \o rowBatch
    /\ rowWriter' = RowFlushed
    /\ UNCHANGED <<rowState, rowQueue, rowBatch, rowStop, rowDropped, rowFailures>>

RowInsert ==
    /\ rowWriter \in {"flush", "last"}
    /\ rowTable' = rowTable \o rowBatch
    /\ rowBatch' = <<>>
    /\ rowWriter' = RowFlushed
    /\ UNCHANGED <<rowState, rowQueue, rowStop, rowDropped, rowFailures>>

(* Mutant: a failed batch is dropped.                                      *)
RowInsertGivesUp ==
    /\ rowWriter \in {"flush", "last"} /\ rowFailures < MaxFailures
    /\ rowFailures' = rowFailures + 1
    /\ rowBatch' = <<>>
    /\ rowDropped' = rowDropped
    /\ rowWriter' = RowFlushed
    /\ UNCHANGED <<rowState, rowQueue, rowTable, rowStop>>

(* A failed batch waits for the next tick, the newest rows of it.          *)
RowInsertFails ==
    /\ rowWriter \in {"flush", "last"} /\ rowFailures < MaxFailures
    /\ rowFailures' = rowFailures + 1
    /\ LET drop == IF Len(rowBatch) > MaxBuffered THEN Len(rowBatch) - MaxBuffered ELSE 0 IN
       /\ rowDropped' = rowDropped \cup ToSet(SubSeq(rowBatch, 1, drop))
       /\ rowBatch' = SubSeq(rowBatch, drop + 1, Len(rowBatch))
    /\ rowWriter' = RowFlushed
    /\ UNCHANGED <<rowState, rowQueue, rowTable, rowStop>>

RowClose ==
    /\ ~rowStop
    /\ rowStop' = TRUE
    /\ UNCHANGED <<rowState, rowQueue, rowBatch, rowTable, rowWriter, rowDropped, rowFailures>>

(* select takes stop or a waiting entry; what is queued is drained first.  *)
RowSeesStop ==
    /\ rowStop /\ rowWriter = "loop"
    /\ rowWriter' = "draining"
    /\ UNCHANGED <<rowState, rowQueue, rowBatch, rowTable, rowStop, rowDropped, rowFailures>>

RowDrained ==
    /\ rowWriter = "draining" /\ rowQueue = <<>>
    /\ rowWriter' = IF rowBatch = <<>> THEN "done" ELSE "last"
    /\ UNCHANGED <<rowState, rowQueue, rowBatch, rowTable, rowStop, rowDropped, rowFailures>>

RowStep == RowTake \/ RowTick \/ RowInsert \/ RowInsertFails \/ RowSeesStop \/ RowDrained

RowNext == (\E r \in RowIds : RowRecord(r)) \/ RowClose \/ RowStep

RowSpec == RowInit /\ [][RowNext]_rowVars

-----------------------------------------------------------------------------
(* properties *)

Accepted == {r \in RowIds : rowState[r] = "accepted"}
Late == {r \in RowIds : rowState[r] = "late"}

(* A row the store accepted is committed once or still on its way; a cap   *)
(* drops it only after an insert failed, and a writer that stops has       *)
(* committed all it accepted before Close unless its inserts failed.       *)
AcceptedOnce ==
    LET kept == rowTable \o rowBatch \o rowQueue IN
    /\ IsInjective(kept)
    /\ Accepted \cup Late = ToSet(kept) \cup rowDropped
    /\ rowFailures = 0 => rowDropped = {}
    /\ rowFailures = 0 /\ rowWriter = "done" => Accepted \subseteq ToSet(rowTable)
=============================================================================
