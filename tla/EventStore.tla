---------------------------- MODULE EventStore -----------------------------
(***************************************************************************)
(* Events of one namespace of one app, from the lines the app appends to   *)
(* log/<ns>.json.log to the Parquet files and indexes of a day             *)
(* (internal/ingest: tailEvents; internal/events: store.go, compact.go,    *)
(* index.go, module.go; the tail_offsets row of internal/logstore).        *)
(*                                                                         *)
(* Three goroutines of two programs share the disk and nothing else: the   *)
(* app, the ingest pass and the daily maintenance.  The daemon may go down *)
(* between any two writes.                                                 *)
(***************************************************************************)
EXTENDS Naturals, Sequences, FiniteSets

CONSTANTS
    Events,     \* the events the app records, numbered in its order
    LastDay,    \* bound: the days the model runs for
    Retention,  \* events.retention, in days
    Batch,      \* eventBatch: lines read by one pass
    MaxFaults,  \* bound: crashes and failed writes
    MaxLogs,    \* bound: incarnations of the app's file
    Rewrites,   \* how the app starts its file over: "replace", "truncate"
    Missing        \* nothing there

ASSUME BoundsAssumption ==
    /\ IsFiniteSet(Events) /\ Events = 1 .. Cardinality(Events)
    /\ LastDay \in Nat /\ Retention \in Nat \ {0} /\ Batch \in Nat \ {0}
    /\ MaxFaults \in Nat /\ MaxLogs \in Nat \ {0}
    /\ Rewrites \subseteq {"replace", "truncate"}

(* A journal that is there is told from none.                              *)
ASSUME MissingAssumption == Missing \notin [target : Nat, sources : SUBSET Nat]

Days == 1 .. LastDay

VARIABLES
    today,    \* Today(now)
    ts,       \* the UTC day of each event, 0 before the app records it
    log,      \* the file the app writes: inode and lines
    tail,     \* its tail_offsets row
    part,     \* the *.parquet files of each ns/date directory
    writing,  \* a merged file before its rename
    journal,  \* .compact of each directory
    daily,    \* the _daily index of each day
    rest,     \* the _facets and _keys indexes
    clock,    \* UnixNano: the next file name
    ing,      \* tailEvents
    mnt,      \* MaintainDays
    stored,   \* events a saved offset is past and retention has not removed
    faults    \* crashes and failed writes so far

disk == <<tail, part, writing, journal, daily, rest>>
evVars == <<today, ts, log, disk, clock, ing, mnt, stored, faults>>

NoIngest == [at |-> "idle", batch |-> {}, rows |-> {}, ino |-> 0, next |-> 0]
NoMaintain == [at |-> "idle", todo |-> {}, today |-> 0, d |-> Missing, files |-> {}, rows |-> {}]

(* A file is its name, its rows and, to state what a crash may leave, the *)
(* names of the files it was merged from.                                  *)
IsMergedFrom(f, g) == f.merged /\ g.id \in f.from

(* eventID: a line is identified by its place in a file.                   *)
Row(e, ino, pos) == [eid |-> <<ino, pos>>, e |-> e]

EventsOf(rows) == {r.e : r \in rows}

RowsOf(files) == UNION {f.rows : f \in files}

(* The file a reader or a compaction sees first: batches by name, then     *)
(* merged days ("day-" sorts after digits).                                *)
Before(f, g) == \/ ~f.merged /\ g.merged
                \/ f.merged = g.merged /\ f.id < g.id

(* Dedupe: the first row of every eid.                                     *)
Dedupe(files) ==
    {r \in RowsOf(files) :
       \E f \in files :
         /\ r \in f.rows
         /\ \A g \in files : \A s \in g.rows :
              s.eid = r.eid => (g = f \/ Before(f, g))}

(* Partition.Compact, hasIndex.                                            *)
Compact(d) == Cardinality(part[d]) = 1 /\ \A f \in part[d] : f.merged
hasIndex(d) == daily[d] # Missing /\ rest[d] # Missing

EvInit ==
    /\ today = 1
    /\ ts = [e \in Events |-> 0]
    /\ log = [ino |-> 1, lines |-> <<>>]
    /\ tail = Missing
    /\ part = [d \in Days |-> {}]
    /\ writing = [d \in Days |-> Missing]
    /\ journal = [d \in Days |-> Missing]
    /\ daily = [d \in Days |-> Missing]
    /\ rest = [d \in Days |-> Missing]
    /\ clock = 1
    /\ ing = NoIngest
    /\ mnt = NoMaintain
    /\ stored = {}
    /\ faults = 0

-----------------------------------------------------------------------------
(* the app *)

(* A line names its own time: an event may be of a day that is over.       *)
RecordEvent(e, d) ==
    /\ ts[e] = 0 /\ \A f \in 1 .. (e - 1) : ts[f] # 0
    /\ d \in 1 .. today
    /\ ts' = [ts EXCEPT ![e] = d]
    /\ log' = [log EXCEPT !.lines = Append(@, e)]
    /\ UNCHANGED <<today, disk, clock, ing, mnt, stored, faults>>

(* The file is replaced by an empty one, or truncated in place.            *)
Rewrite(how) ==
    /\ how \in Rewrites
    /\ log.ino < MaxLogs /\ log.lines # <<>>
    /\ log' = [ino |-> IF how = "replace" THEN log.ino + 1 ELSE log.ino, lines |-> <<>>]
    /\ UNCHANGED <<today, ts, disk, clock, ing, mnt, stored, faults>>

Tomorrow ==
    /\ today < LastDay
    /\ today' = today + 1
    /\ UNCHANGED <<ts, log, disk, clock, ing, mnt, stored, faults>>

-----------------------------------------------------------------------------
(* tailEvents *)

(* A new inode or a file shorter than the offset is read from the start.   *)
Start == IF tail = Missing THEN 0
         ELSE IF tail.ino # log.ino \/ Len(log.lines) < tail.off THEN 0 ELSE tail.off

(* Up to Batch whole lines, each with an id of its place.                  *)
Read ==
    LET start == Start
        next == IF start + Batch < Len(log.lines) THEN start + Batch ELSE Len(log.lines)
        rows == {Row(log.lines[i], log.ino, i) : i \in start + 1 .. next}
    IN
    /\ ing.at = "idle"
    /\ start < Len(log.lines)
    /\ ing' = [at |-> "append", batch |-> rows, rows |-> rows, ino |-> log.ino, next |-> next]
    /\ UNCHANGED <<today, ts, log, disk, clock, mnt, stored, faults>>

(* An empty new file is only remembered.                                   *)
ReadNothing ==
    /\ ing.at = "idle"
    /\ Start >= Len(log.lines)
    /\ IF tail = Missing THEN TRUE ELSE tail.ino # log.ino
    /\ tail' = [ino |-> log.ino, off |-> Start]
    /\ UNCHANGED <<today, ts, log, part, writing, journal, daily, rest, clock, ing, mnt, stored, faults>>

(* Append writes one batch per day the rows fall on, each by a rename.     *)
AppendDay(d) ==
    LET batch == {r \in ing.rows : ts[r.e] = d} IN
    /\ ing.at = "append" /\ batch # {}
    /\ part' = [part EXCEPT ![d] = @ \cup {[id |-> clock, merged |-> FALSE, rows |-> batch, from |-> {}]}]
    /\ clock' = clock + 1
    /\ ing' = [ing EXCEPT !.rows = @ \ batch]
    /\ UNCHANGED <<today, ts, log, tail, writing, journal, daily, rest, mnt, stored, faults>>

(* What a reader is owed once the offset is past it: retention may take a  *)
(* late event at once.                                                     *)
Owed(rows) == {e \in EventsOf(rows) : ts[e] + Retention >= today}

(* Mutant: the offset is saved before the rows are on disk.                *)
SaveOffsetFirst ==
    /\ ing.at = "append"
    /\ tail' = [ino |-> ing.ino, off |-> ing.next]
    /\ stored' = stored \cup Owed(ing.batch)
    /\ ing' = IF ing.rows = {} THEN NoIngest ELSE ing
    /\ UNCHANGED <<today, ts, log, part, writing, journal, daily, rest, clock, mnt, faults>>

(* Only then is the offset saved.                                          *)
SaveOffset ==
    /\ ing.at = "append" /\ ing.rows = {}
    /\ tail' = [ino |-> ing.ino, off |-> ing.next]
    /\ stored' = stored \cup Owed(ing.batch)
    /\ ing' = NoIngest
    /\ UNCHANGED <<today, ts, log, part, writing, journal, daily, rest, clock, mnt, faults>>

-----------------------------------------------------------------------------
(* MaintainDays: CompactApp over the days there are, oldest first, then Prune *)

Quietly == UNCHANGED <<today, ts, log, tail, ing, stored, faults>>

Exists(d) == part[d] # {} \/ journal[d] # Missing \/ writing[d] # Missing

Begin ==
    /\ mnt.at = "idle"
    /\ mnt' = [NoMaintain EXCEPT !.at = "next", !.todo = {d \in Days : Exists(d)}, !.today = today]
    /\ UNCHANGED <<part, writing, journal, daily, rest, clock>> /\ Quietly

NextDay ==
    /\ mnt.at = "next" /\ mnt.todo # {}
    /\ \E d \in mnt.todo :
         /\ \A x \in mnt.todo : d <= x
         /\ mnt' = [mnt EXCEPT !.at = "recover", !.todo = @ \ {d}, !.d = d]
    /\ UNCHANGED <<part, writing, journal, daily, rest, clock>> /\ Quietly

Landed(d) == \E f \in part[d] : f.id = journal[d].target

(* recover: the merged file is in place, so the sources go one by one.     *)
RemoveSource(d) ==
    /\ journal[d] # Missing
    /\ Landed(d)
    /\ \E f \in part[d] :
         /\ f.id \in journal[d].sources
         /\ part' = [part EXCEPT ![d] = @ \ {f}]
    /\ UNCHANGED <<writing, journal, mnt>>

(* Then, or when the merged file never landed, the leftovers go.           *)
RemoveJournal(d) ==
    /\ journal[d] # Missing
    /\ Landed(d) => \A f \in part[d] : f.id \notin journal[d].sources
    /\ writing' = [writing EXCEPT ![d] = Missing]
    /\ journal' = [journal EXCEPT ![d] = Missing]
    /\ UNCHANGED <<part, mnt>>

Recovered(d) ==
    /\ journal[d] = Missing
    /\ mnt' = [mnt EXCEPT !.at = IF @ = "recover" THEN "list" ELSE "daily"]
    /\ UNCHANGED <<part, writing, journal>>

Recover ==
    /\ mnt.at \in {"recover", "clean"}
    /\ RemoveSource(mnt.d) \/ RemoveJournal(mnt.d) \/ Recovered(mnt.d)
    /\ UNCHANGED <<daily, rest, clock>> /\ Quietly

(* Mutant: a merged day is left alone, with or without its indexes.        *)
SkippedWhenMerged(d) == d >= mnt.today \/ part[d] = {} \/ Compact(d)

(* An open day, an empty one, and one that is done, are left alone.        *)
Skipped(d) == d >= mnt.today \/ part[d] = {} \/ (Compact(d) /\ hasIndex(d))

(* compact reads and merges the files; a lone merged file only lacks its   *)
(* indexes.                                                                *)
List ==
    /\ mnt.at = "list"
    /\ mnt' = IF Skipped(mnt.d)
              THEN [mnt EXCEPT !.at = "next", !.d = Missing]
              ELSE [mnt EXCEPT !.at = IF Compact(mnt.d) THEN "daily" ELSE "merge",
                               !.files = part[mnt.d], !.rows = Dedupe(part[mnt.d])]
    /\ UNCHANGED <<part, writing, journal, daily, rest, clock>> /\ Quietly

(* The merged rows go to a file no reader lists.  (One that an earlier     *)
(* crash left without a journal stays on disk, unread; it is not kept.)    *)
MergeDay ==
    /\ mnt.at = "merge"
    /\ writing' = [writing EXCEPT ![mnt.d] = [id |-> clock, merged |-> TRUE, rows |-> mnt.rows,
                                              from |-> {f.id : f \in mnt.files}]]
    /\ clock' = clock + 1
    /\ mnt' = [mnt EXCEPT !.at = "journal"]
    /\ UNCHANGED <<part, journal, daily, rest>> /\ Quietly

(* Mutant: the merged file is renamed before the journal is written.       *)
JournalLast ==
    /\ mnt.at = "journal"
    /\ part' = [part EXCEPT ![mnt.d] = @ \cup {writing[mnt.d]}]
    /\ writing' = [writing EXCEPT ![mnt.d] = Missing]
    /\ mnt' = [mnt EXCEPT !.at = "late"]
    /\ UNCHANGED <<journal, daily, rest, clock>> /\ Quietly

WriteJournal ==
    /\ mnt.at = "journal"
    /\ journal' = [journal EXCEPT ![mnt.d] = [target |-> writing[mnt.d].id,
                                              sources |-> {f.id : f \in mnt.files}]]
    /\ mnt' = [mnt EXCEPT !.at = "rename"]
    /\ UNCHANGED <<part, writing, daily, rest, clock>> /\ Quietly

Rename ==
    /\ mnt.at = "rename"
    /\ part' = [part EXCEPT ![mnt.d] = @ \cup {writing[mnt.d]}]
    /\ writing' = [writing EXCEPT ![mnt.d] = Missing]
    /\ mnt' = [mnt EXCEPT !.at = "clean"]
    /\ UNCHANGED <<journal, daily, rest, clock>> /\ Quietly

(* writeIndex: the daily counts, then the facets and the keys.             *)
WriteDaily ==
    /\ mnt.at = "daily"
    /\ daily' = [daily EXCEPT ![mnt.d] = EventsOf(mnt.rows)]
    /\ mnt' = [mnt EXCEPT !.at = "rest"]
    /\ UNCHANGED <<part, writing, journal, rest, clock>> /\ Quietly

WriteRest ==
    /\ mnt.at = "rest"
    /\ rest' = [rest EXCEPT ![mnt.d] = EventsOf(mnt.rows)]
    /\ mnt' = [mnt EXCEPT !.at = "next", !.d = Missing, !.files = {}, !.rows = {}]
    /\ UNCHANGED <<part, writing, journal, daily, clock>> /\ Quietly

(* Prune: the days older than retention, of those there are.               *)
Expired == {d \in Days : d + Retention < mnt.today /\ Exists(d)}

Prune ==
    /\ mnt.at = "next" /\ mnt.todo = {}
    /\ mnt' = [mnt EXCEPT !.at = "prune", !.todo = Expired]
    /\ UNCHANGED <<part, writing, journal, daily, rest, clock>> /\ Quietly

(* RemoveAll takes the directory of a day away file by file.               *)
PruneFile(d) ==
    /\ mnt.at = "prune" /\ d \in mnt.todo
    /\ \/ \E f \in part[d] :
            /\ part' = [part EXCEPT ![d] = @ \ {f}]
            /\ UNCHANGED <<writing, journal>>
       \/ /\ writing[d] # Missing
          /\ writing' = [writing EXCEPT ![d] = Missing]
          /\ UNCHANGED <<part, journal>>
       \/ /\ journal[d] # Missing
          /\ journal' = [journal EXCEPT ![d] = Missing]
          /\ UNCHANGED <<part, writing>>
    /\ stored' = {e \in stored : ts[e] # d}
    /\ UNCHANGED <<today, ts, log, tail, daily, rest, clock, ing, mnt, faults>>

Pruned(d) ==
    /\ mnt.at = "prune" /\ d \in mnt.todo /\ ~Exists(d)
    /\ mnt' = [mnt EXCEPT !.todo = @ \ {d}]
    /\ UNCHANGED <<part, writing, journal, daily, rest, clock>> /\ Quietly

End ==
    /\ mnt.at = "prune" /\ mnt.todo = {}
    /\ mnt' = NoMaintain
    /\ UNCHANGED <<part, writing, journal, daily, rest, clock>> /\ Quietly

-----------------------------------------------------------------------------
(* failures *)

(* A write of ingest fails: the pass is given up, the offset stays.        *)
IngestFails ==
    /\ faults < MaxFaults /\ ing.at # "idle"
    /\ faults' = faults + 1
    /\ ing' = NoIngest
    /\ UNCHANGED <<today, ts, log, disk, clock, mnt, stored>>

(* A step of a day fails: it is logged and the next day goes on.  Only a   *)
(* failed journal takes the merged file away.                              *)
DayFails ==
    /\ faults < MaxFaults /\ mnt.d # Missing
    /\ faults' = faults + 1
    /\ mnt' = [mnt EXCEPT !.at = "next", !.d = Missing, !.files = {}, !.rows = {}]
    /\ writing' = IF mnt.at = "journal" THEN [writing EXCEPT ![mnt.d] = Missing] ELSE writing
    /\ UNCHANGED <<today, ts, log, tail, part, journal, daily, rest, clock, ing, stored>>

(* The daemon goes down; files keep what was renamed into place.           *)
Crash ==
    /\ faults < MaxFaults /\ (ing.at # "idle" \/ mnt.at # "idle")
    /\ faults' = faults + 1
    /\ ing' = NoIngest
    /\ mnt' = NoMaintain
    /\ UNCHANGED <<today, ts, log, disk, clock, stored>>

Ingest == Read \/ ReadNothing \/ (\E d \in Days : AppendDay(d)) \/ SaveOffset

MaintainDays ==
    \/ Begin \/ NextDay \/ Recover \/ List \/ MergeDay \/ WriteJournal \/ Rename
    \/ WriteDaily \/ WriteRest
    \/ Prune \/ (\E d \in Days : PruneFile(d) \/ Pruned(d)) \/ End

EvNext ==
    \/ \E e \in Events, d \in Days : RecordEvent(e, d)
    \/ \E how \in Rewrites : Rewrite(how)
    \/ Tomorrow
    \/ Ingest \/ MaintainDays
    \/ IngestFails \/ DayFails \/ Crash

EvSpec == EvInit /\ [][EvNext]_evVars

(* The tickers of ingest and of the daily maintenance come round, and what *)
(* they begin goes on.                                                     *)
EvFairSpec == EvSpec /\ WF_evVars(Ingest) /\ WF_evVars(MaintainDays)

-----------------------------------------------------------------------------
(* properties *)

Rows == [eid : (1 .. MaxLogs) \X (1 .. Cardinality(Events)), e : Events]
IsFile(f) == f.id \in Nat /\ f.merged \in BOOLEAN /\ f.rows \subseteq Rows /\ f.from \subseteq Nat

(* The types of the variables.                                             *)
EvTypeOK ==
    /\ today \in Nat
    /\ ts \in [Events -> 0 .. LastDay]
    /\ log.ino \in 1 .. MaxLogs /\ log.lines \in Seq(Events)
    /\ tail # Missing => tail.ino \in 1 .. MaxLogs /\ tail.off \in 0 .. Cardinality(Events)
    /\ \A d \in Days :
         /\ \A f \in part[d] : IsFile(f) /\ f.id < clock
         /\ writing[d] # Missing => IsFile(writing[d])
         /\ journal[d] # Missing => journal[d].target \in Nat /\ journal[d].sources \subseteq Nat
         /\ daily[d] # Missing => daily[d] \subseteq Events
         /\ rest[d] # Missing => rest[d] \subseteq Events
    /\ stored \subseteq Events

(* An event whose line a saved offset is past is in a file of its day, and *)
(* a reader finds it there, until retention removes the day: neither a     *)
(* crash nor a failed write at any point of a compaction loses it.         *)
EventsKept == \A e \in stored : e \in EventsOf(Dedupe(part[ts[e]]))

(* "A crash between the rename and the deletes is finished on the next run *)
(* instead of leaving every row twice": a merged file is next to a file it *)
(* was merged from only while a journal is there to finish the job, or the *)
(* whole day is past retention.                                            *)
JournalCoversDoubles ==
    \A d \in Days : \A f \in part[d] : \A g \in part[d] :
      IsMergedFrom(f, g) =>
        \/ d + Retention < today
        \/ journal[d] # Missing /\ journal[d].target = f.id /\ g.id \in journal[d].sources

(* Without a failure, the index a reader uses for a compacted day counts   *)
(* the events of its file, after late events too.                          *)
IndexExact ==
    \A d \in Days :
      faults = 0 /\ Compact(d) /\ hasIndex(d) /\ mnt.d # d =>
        daily[d] = EventsOf(RowsOf(part[d])) /\ rest[d] = daily[d]

Settled(d) == part[d] = {} \/ (Compact(d) /\ hasIndex(d) /\ journal[d] = Missing)

(* Once the app is quiet, every closed day ends up as one file with its    *)
(* indexes, whatever failed before.                                        *)
CompactsEventually == <>[](\A d \in Days : d < today => Settled(d))

(* Maintenance gets every closed day there, and no event is lost on the    *)
(* way (Maintain, CompactApp, tailEvents).                                 *)
EventsSettle == CompactsEventually /\ []EventsKept

(* "The indexes stay, so counts and facets outlive the events": what the   *)
(* daily index counts for a day is never taken back.                       *)
IndexOutlives ==
    [][\A d \in Days : daily[d] # Missing => daily'[d] # Missing /\ daily[d] \subseteq daily'[d]]_evVars

(* Compaction neither doubles rows over a crash nor leaves an index behind *)
(* its day (compact.go).                                                   *)
CompactionSound == JournalCoversDoubles /\ IndexExact
=============================================================================
