----------------------------- MODULE EventQueries -----------------------------
(* Reading the event store while it is being written (events/reader.go): the    *)
(* summary of an index-only filter lists the partitions, takes each day from    *)
(* its stored index or from the raw files through a cache, then the days that   *)
(* have nothing but an index - while batches arrive, the nightly job compacts   *)
(* and prunes, and nobody holds a lock.  EventStore models the writers with     *)
(* their crashes; here they are the steps a reader can tell apart.              *)
EXTENDS Naturals, FiniteSets

CONSTANTS
    EvqDays,        \* days 1 .. n of one namespace
    EvqMaxRows,     \* bound: events
    EvqMaxFiles,    \* bound: files ever written
    EvqQueries      \* bound: summaries asked

ASSUME EventQueriesAssumption == EvqDays \in Nat \ {0} /\ EvqMaxFiles \in Nat \ {0}

VARIABLES
    evqFiles,       \* day -> finished Parquet files: id, day (compacted), rows
    evqDir,         \* days whose partition directory exists
    evqIndex,       \* day -> the rows its stored indexes count, or NoIndex
    evqMerge,       \* the compaction under way
    evqPruned,      \* days retention has begun to remove
    evqCache,       \* Reader.open: day -> signature and rows
    evqRead,        \* the summary under way
    evqRows, evqNames, evqAsked,
    evqSaid         \* history variable: of the finished summary, what each day held when it began, what it said

evqVars == <<evqFiles, evqDir, evqIndex, evqMerge, evqPruned, evqCache, evqRead, evqRows, evqNames,
             evqAsked, evqSaid>>

EvqDay == 1 .. EvqDays
NoIndex == [rows |-> {}, is |-> "missing"]
IndexOf(rows) == [rows |-> rows, is |-> "stored"]
NoMerge == [at |-> "none"]
NoRead == [at |-> "none"]
NothingSaid == [begun |-> <<>>, said |-> <<>>, disturbed |-> {}]
RowsIn(files) == UNION {f.rows : f \in files}

EvqInit ==
    /\ evqFiles = [d \in EvqDay |-> {}] /\ evqDir = {}
    /\ evqIndex = [d \in EvqDay |-> NoIndex]
    /\ evqMerge = NoMerge /\ evqPruned = {}
    /\ evqCache = [d \in EvqDay |-> [sig |-> {}, rows |-> {}]]
    /\ evqRead = NoRead /\ evqRows = 0 /\ evqNames = 0 /\ evqAsked = 0 /\ evqSaid = NothingSaid

Disturb(d) == evqSaid' = [evqSaid EXCEPT !.disturbed = @ \union {d}]
\* A day compacted again: until its index is rewritten the one on disk is of the first time.
Recompacting == IF evqMerge.at \in {"sweep", "index"} /\ evqIndex[evqMerge.d] # NoIndex
                THEN {evqMerge.d} ELSE {}

-----------------------------------------------------------------------------
(* The writers *)

\* Append: a batch of the day, in place with a rename.
EvqAppend(d) ==
    /\ evqRows < EvqMaxRows /\ evqNames < EvqMaxFiles
    /\ evqRows' = evqRows + 1 /\ evqNames' = evqNames + 1
    /\ evqFiles' = [evqFiles EXCEPT ![d] = @ \union
           {[id |-> evqNames + 1, day |-> FALSE, rows |-> {evqRows + 1}]}]
    /\ evqDir' = evqDir \union {d}
    /\ IF d \in evqPruned THEN Disturb(d) ELSE UNCHANGED evqSaid
    /\ UNCHANGED <<evqIndex, evqMerge, evqPruned, evqCache, evqRead, evqAsked>>

Compacted(files) == Cardinality(files) = 1 /\ \A f \in files : f.day

\* compact, recover, writeIndex: read the files, put the merged one in place, remove the
\* sources one by one, write the indexes.
EvqMergeReads(d) ==
    /\ evqMerge = NoMerge /\ evqFiles[d] # {} /\ d \notin evqPruned
    /\ ~(Compacted(evqFiles[d]) /\ evqIndex[d] # NoIndex)
    /\ evqMerge' = [at |-> "merge", d |-> d, from |-> evqFiles[d], rows |-> RowsIn(evqFiles[d])]
    /\ UNCHANGED <<evqFiles, evqDir, evqIndex, evqPruned, evqCache, evqRead, evqRows, evqNames, evqAsked, evqSaid>>

EvqMergeLands ==
    /\ evqMerge.at = "merge" /\ evqNames < EvqMaxFiles
    /\ evqNames' = evqNames + 1
    /\ evqFiles' = [evqFiles EXCEPT ![evqMerge.d] = @ \union
           {[id |-> evqNames + 1, day |-> TRUE, rows |-> evqMerge.rows]}]
    /\ evqMerge' = [evqMerge EXCEPT !.at = "sweep"]
    /\ IF evqIndex[evqMerge.d] # NoIndex THEN Disturb(evqMerge.d) ELSE UNCHANGED evqSaid
    /\ UNCHANGED <<evqDir, evqIndex, evqPruned, evqCache, evqRead, evqRows, evqAsked>>

EvqMergeSweeps ==
    /\ evqMerge.at = "sweep"
    /\ IF evqMerge.from \intersect evqFiles[evqMerge.d] = {}
       THEN evqMerge' = [evqMerge EXCEPT !.at = "index"] /\ UNCHANGED evqFiles
       ELSE /\ \E f \in evqMerge.from \intersect evqFiles[evqMerge.d] :
                   evqFiles' = [evqFiles EXCEPT ![evqMerge.d] = @ \ {f}]
            /\ UNCHANGED evqMerge
    /\ UNCHANGED <<evqDir, evqIndex, evqPruned, evqCache, evqRead, evqRows, evqNames, evqAsked, evqSaid>>

EvqMergeIndexes ==
    /\ evqMerge.at = "index"
    /\ evqIndex' = [evqIndex EXCEPT ![evqMerge.d] = IndexOf(evqMerge.rows)]
    /\ evqMerge' = NoMerge
    /\ UNCHANGED <<evqFiles, evqDir, evqPruned, evqCache, evqRead, evqRows, evqNames, evqAsked, evqSaid>>

\* Prune: RemoveAll takes the files, then the directory; the indexes stay.
EvqPruneFiles(d) ==
    /\ evqMerge = NoMerge /\ d \in evqDir /\ evqIndex[d] # NoIndex
    /\ evqPruned' = evqPruned \union {d}
    /\ evqFiles' = [evqFiles EXCEPT ![d] = {}]
    /\ Disturb(d)
    /\ UNCHANGED <<evqDir, evqIndex, evqMerge, evqCache, evqRead, evqRows, evqNames, evqAsked>>

EvqPruneDir(d) ==
    /\ d \in evqPruned \intersect evqDir /\ evqFiles[d] = {}
    /\ evqDir' = evqDir \ {d}
    /\ Disturb(d)
    /\ UNCHANGED <<evqFiles, evqIndex, evqMerge, evqPruned, evqCache, evqRead, evqRows, evqNames, evqAsked>>

-----------------------------------------------------------------------------
(* The reader *)

\* What a day holds: its raw events, or the counts that outlived them.
Holds(d) == IF evqFiles[d] # {} THEN RowsIn(evqFiles[d]) ELSE evqIndex[d].rows

EvqList ==
    /\ evqRead = NoRead /\ evqAsked < EvqQueries
    /\ evqAsked' = evqAsked + 1
    /\ evqRead' = [at |-> "days", listed |-> [d \in evqDir |-> evqFiles[d]], todo |-> evqDir,
                   said |-> [d \in EvqDay |-> {}]]
    /\ evqSaid' = [begun |-> [d \in EvqDay |-> Holds(d)], said |-> <<>>, disturbed |-> Recompacting]
    /\ UNCHANGED <<evqFiles, evqDir, evqIndex, evqMerge, evqPruned, evqCache, evqRows, evqNames>>

\* A cache that tells the files of a day apart by how many they are (mutant).
SignatureCount(files, now) == {<<Cardinality(files), TRUE>>}
\* signatureOf: the names, and the times of the files that are still there.
Signature(files, now) == {<<f.id, f \in now>> : f \in files}

\* A listing taken for compacted when it holds a compacted file at all (mutant).
FromIndexAny(files, d) == (\E f \in files : f.day) /\ evqIndex[d] # NoIndex
FromIndex(files, d) == Compacted(files) /\ evqIndex[d] # NoIndex

\* Reader.index: the day from its stored index, from the cache, or from the files listed -
\* gone meanwhile, they fail the summary.
EvqReadDay(d) ==
    LET files == evqRead.listed[d]
        sig == Signature(files, evqFiles[d])
        say(rows) == evqRead' = [evqRead EXCEPT !.todo = @ \ {d}, !.said[d] = rows]
    IN
    /\ evqRead.at = "days" /\ d \in evqRead.todo
    /\ IF FromIndex(files, d)
       THEN say(evqIndex[d].rows) /\ evqCache' = [evqCache EXCEPT ![d] = [sig |-> {}, rows |-> {}]]
       ELSE IF evqCache[d].sig = sig /\ sig # {} THEN say(evqCache[d].rows) /\ UNCHANGED evqCache
       ELSE IF files \subseteq evqFiles[d]
       THEN say(RowsIn(files)) /\ evqCache' = [evqCache EXCEPT ![d] = [sig |-> sig, rows |-> RowsIn(files)]]
       ELSE evqRead' = NoRead /\ UNCHANGED evqCache
    /\ UNCHANGED <<evqFiles, evqDir, evqIndex, evqMerge, evqPruned, evqRows, evqNames, evqAsked, evqSaid>>

\* The days with an index and no partition listed, each read on its own.
EvqDates ==
    /\ evqRead.at = "days" /\ evqRead.todo = {}
    /\ evqRead' = [evqRead EXCEPT !.at = "dates",
           !.todo = {d \in EvqDay : evqIndex[d] # NoIndex} \ DOMAIN evqRead.listed]
    /\ UNCHANGED <<evqFiles, evqDir, evqIndex, evqMerge, evqPruned, evqCache, evqRows, evqNames, evqAsked, evqSaid>>

EvqReadStored(d) ==
    /\ evqRead.at = "dates" /\ d \in evqRead.todo
    /\ evqRead' = [evqRead EXCEPT !.todo = @ \ {d}, !.said[d] = evqIndex[d].rows]
    /\ UNCHANGED <<evqFiles, evqDir, evqIndex, evqMerge, evqPruned, evqCache, evqRows, evqNames, evqAsked, evqSaid>>

EvqAnswer ==
    /\ evqRead.at = "dates" /\ evqRead.todo = {}
    /\ evqRead' = NoRead
    /\ evqSaid' = [evqSaid EXCEPT !.said = evqRead.said]
    /\ UNCHANGED <<evqFiles, evqDir, evqIndex, evqMerge, evqPruned, evqCache, evqRows, evqNames, evqAsked>>

EvqNext ==
    \/ \E d \in EvqDay : \/ EvqAppend(d) \/ EvqMergeReads(d) \/ EvqPruneFiles(d) \/ EvqPruneDir(d)
                         \/ EvqReadDay(d) \/ EvqReadStored(d)
    \/ EvqMergeLands \/ EvqMergeSweeps \/ EvqMergeIndexes
    \/ EvqList \/ EvqDates \/ EvqAnswer
EvqSpec == EvqInit /\ [][EvqNext]_evqVars

-----------------------------------------------------------------------------
(* A summary that answers has counted every event its days held when it began:  *)
(* no compaction, late batch or earlier summary makes it miss one.  Left out    *)
(* are the days retention removes or a second compaction replaces meanwhile     *)
(* (Reader.Summary, index, signatureOf).                                       *)
SummaryMissesNone ==
    evqSaid.said # <<>> =>
        \A d \in EvqDay \ evqSaid.disturbed :
            (d \notin evqPruned \/ d \notin evqDir) => evqSaid.begun[d] \subseteq evqSaid.said[d]

(* "The indexes stay: they ... keep counts and facets for days whose events are *)
(* gone" (compact.go, Prune).  A summary that lists a partition between the     *)
(* removal of its files and of its directory takes the day for empty.          *)
CountsOutlive ==
    evqSaid.said # <<>> => \A d \in EvqDay : evqSaid.begun[d] # {} => evqSaid.said[d] # {}
=============================================================================
