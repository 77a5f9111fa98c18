------------------------------- MODULE Backups -------------------------------
(* PostgreSQL dumps (pg/backup.go, catalog.go, retention.go, restore.go): the   *)
(* daily run and the operator's runs dump databases into files named by the    *)
(* second, uploads land beside them, a catalog lists them, rotation and the    *)
(* operator remove them, a restore loads one into a database.  All of them run *)
(* at once; only two dumps of one database exclude each other.                 *)
(* An archive's bytes are a number, its checksum is that number; one that is    *)
(* still being written is Torn.                                                *)
EXTENDS Naturals, Sequences, FiniteSets, SequencesExt

CONSTANTS
    Dbs,           \* databases that are dumped, numbered as they first are
    BakTargets,       \* databases that dumps are restored into
    RunKinds,      \* who asks for dumps: "schedule", "all", "one"
    Window,        \* age, in seconds of the clock, that rotation keeps
    CatalogKeep,   \* entries the catalog holds at most (2000 in the code)
    MaxSecond,     \* bound: the clock
    MaxDumps,      \* bound: archives made or uploaded
    MaxBakFaults,  \* bound: failed dumps, failed saves of the catalog and crashes
    NoBytes,       \* no such file
    Torn           \* a file created and not complete

ASSUME BackupsAssumption ==
    /\ IsFiniteSet(Dbs) /\ Dbs = 1 .. Cardinality(Dbs)
    /\ CatalogKeep \in Nat \ {0} /\ Window \in Nat

VARIABLES
    bakFiles,    \* path -> bytes; a path is <<database, id>>
    bakCatalog,  \* the entries in memory, oldest first
    bakSaved,    \* pg-backups.json
    bakRuns,     \* database -> the dump under way
    bakUpload,   \* the upload under way
    bakRemoval,  \* the rotation or the deletion under way
    bakRestore,  \* the restore under way
    bakBases,    \* the targets that exist
    bakClock, bakDumps, bakFaults,
    bakPromised  \* history variable: manual dumps recorded and not deleted since

bakVars == <<bakFiles, bakCatalog, bakSaved, bakRuns, bakUpload, bakRemoval, bakRestore,
             bakBases, bakClock, bakDumps, bakFaults, bakPromised>>

Indexes == 1..MaxDumps
DumpIds == (1..MaxSecond) \X Indexes   \* the second, and the suffix within it
NoJob == [pc |-> "none"]

BackupsInit ==
    /\ bakFiles = [p \in Dbs \X DumpIds |-> NoBytes]
    /\ bakCatalog = <<>> /\ bakSaved = <<>>
    /\ bakRuns = [d \in Dbs |-> NoJob]
    /\ bakUpload = NoJob /\ bakRemoval = NoJob /\ bakRestore = NoJob
    /\ bakBases = BakTargets
    /\ bakClock = 1 /\ bakDumps = 0 /\ bakFaults = 0
    /\ bakPromised = {}

\* uniqueDump: the stamp of the second, with a suffix while a file has the name.
UniqueDump(d) == <<bakClock, CHOOSE i \in Indexes :
                       /\ bakFiles[<<d, <<bakClock, i>>>>] = NoBytes
                       /\ \A j \in 1..(i - 1) : bakFiles[<<d, <<bakClock, j>>>>] # NoBytes>>

\* catalog.get: list sorts by time, newest first; entries of one second come in any order.
Found(entry, id) ==
    /\ entry \in ToSet(bakCatalog) /\ entry.id = id
    /\ \A other \in ToSet(bakCatalog) : other.id = id => other.time <= entry.time

\* catalog.save: the file is replaced, or the save fails and only memory has changed.
SaveCatalog(entries) ==
    /\ bakCatalog' = entries
    /\ \/ bakSaved' = entries /\ UNCHANGED bakFaults
       \/ bakFaults < MaxBakFaults /\ bakFaults' = bakFaults + 1 /\ UNCHANGED bakSaved

Capped(entries) ==
    SubSeq(entries, IF Len(entries) > CatalogKeep THEN Len(entries) - CatalogKeep + 1 ELSE 1,
           Len(entries))

\* fileSHA256 reads the file as it is then; a failed dump's entry has no sum and no path.
EntryOf(d, job, ok) == [db |-> d, id |-> job.id, time |-> job.time, ok |-> ok, by |-> job.by,
                        sum |-> IF ok THEN bakFiles[<<d, job.id>>] ELSE NoBytes]

\* History of a restore between its two reads of the archive: what was put under the name.
PutsOver(path, bytes) ==
    bakRestore' = IF bakRestore.pc = "checked" /\ path = <<bakRestore.entry.db, bakRestore.entry.id>>
                  THEN [bakRestore EXCEPT !.over = @ \union {bytes}] ELSE bakRestore

\* BackupDatabase marks the operator's run of one database, ImportBackup an upload; the
\* operator's run of all databases is BackupAll, the same as the schedule's.
Manual(entry) == entry.by \in {"one", "upload"}

\* catalog.record: the entry is appended, the cap drops the oldest ones, manual or not.
\* What was promised and still saved stays promised.
Record(entry) ==
    /\ SaveCatalog(Capped(Append(bakCatalog, entry)))
    /\ bakPromised' =
           (bakPromised \union (IF entry.ok /\ Manual(entry) /\ bakSaved' = bakCatalog'
                                THEN {entry} ELSE {})) \intersect ToSet(bakCatalog')

\* catalog.forget: the entries in turn, without those of the ids.
Forget(ids) ==
    LET kept[i \in 0 .. Len(bakCatalog)] ==
            IF i = 0 THEN <<>>
            ELSE IF bakCatalog[i].id \in ids THEN kept[i - 1]
            ELSE Append(kept[i - 1], bakCatalog[i])
    IN  kept[Len(bakCatalog)]

-----------------------------------------------------------------------------
(* Dumps: BackupDatabase, BackupAll and runDump                              *)

\* One dump of a database at a time; the file's name is taken before pg_dump runs.
\* by: the daily schedule, the operator for one database, or the operator for all of
\* them, which dumps like the schedule does.
DumpStarts(d, by) ==
    /\ bakRuns[d] = NoJob /\ bakDumps < MaxDumps /\ d <= bakDumps + 1
    /\ bakDumps' = bakDumps + 1
    /\ bakRuns' = [bakRuns EXCEPT ![d] =
           [pc |-> "dumping", id |-> UniqueDump(d), time |-> bakClock, bytes |-> bakDumps + 1,
            by |-> by]]
    /\ UNCHANGED <<bakFiles, bakCatalog, bakSaved, bakUpload, bakRemoval, bakRestore,
                   bakBases, bakClock, bakFaults, bakPromised>>

\* zipSQL creates the archive over whatever has the name by then ...
DumpCreates(d) ==
    /\ bakRuns[d].pc = "dumping"
    /\ bakFiles' = [bakFiles EXCEPT ![<<d, bakRuns[d].id>>] = Torn]
    /\ bakRuns' = [bakRuns EXCEPT ![d].pc = "zipping"]
    /\ UNCHANGED <<bakCatalog, bakSaved, bakUpload, bakRemoval, bakRestore, bakBases,
                   bakClock, bakDumps, bakFaults, bakPromised>>

\* ... and writes it, into no name at all when a removal has taken the file, or when an
\* upload of the same second has the name since.
DumpZips(d) ==
    /\ bakRuns[d].pc = "zipping"
    /\ LET path == <<d, bakRuns[d].id>>
       IN  IF bakFiles[path] = Torn
           THEN /\ bakFiles' = [bakFiles EXCEPT ![path] = bakRuns[d].bytes]
                /\ PutsOver(path, bakRuns[d].bytes)
           ELSE UNCHANGED <<bakFiles, bakRestore>>
    /\ bakRuns' = [bakRuns EXCEPT ![d].pc = "zipped"]
    /\ UNCHANGED <<bakCatalog, bakSaved, bakUpload, bakRemoval, bakBases, bakClock, bakDumps,
                   bakFaults, bakPromised>>

\* The archive's checksum goes into its entry; one whose file is gone has failed.
DumpRecords(d) ==
    /\ bakRuns[d].pc = "zipped"
    /\ Record(EntryOf(d, bakRuns[d], bakFiles[<<d, bakRuns[d].id>>] # NoBytes))
    /\ bakRuns' = [bakRuns EXCEPT ![d] = NoJob]
    /\ UNCHANGED <<bakFiles, bakUpload, bakRemoval, bakRestore, bakBases, bakClock, bakDumps>>

\* pg_dump or the archive fails: the entry says so and keeps the name, and the part of
\* the archive that was written stays.
DumpFails(d) ==
    /\ bakRuns[d].pc \in {"dumping", "zipping"} /\ bakFaults < MaxBakFaults
    /\ bakCatalog' = Capped(Append(bakCatalog, EntryOf(d, bakRuns[d], FALSE)))
    /\ bakSaved' = bakCatalog'
    /\ bakFaults' = bakFaults + 1
    /\ bakPromised' = bakPromised \intersect ToSet(bakCatalog')
    /\ bakRuns' = [bakRuns EXCEPT ![d] = NoJob]
    /\ UNCHANGED <<bakFiles, bakUpload, bakRemoval, bakRestore, bakBases, bakClock, bakDumps>>

-----------------------------------------------------------------------------
(* ImportBackup                                                              *)

\* The checked upload is renamed to a name no file has; a dump of the same second may
\* have chosen it already and not written it yet.
UploadLands(d) ==
    /\ bakUpload = NoJob /\ bakDumps < MaxDumps /\ d <= bakDumps + 1
    /\ bakDumps' = bakDumps + 1
    /\ bakFiles' = [bakFiles EXCEPT ![<<d, UniqueDump(d)>>] = bakDumps + 1]
    /\ bakUpload' = [pc |-> "landed", db |-> d, id |-> UniqueDump(d), time |-> bakClock,
                     by |-> "upload"]
    /\ PutsOver(<<d, UniqueDump(d)>>, bakDumps + 1)
    /\ UNCHANGED <<bakCatalog, bakSaved, bakRuns, bakRemoval, bakBases, bakClock, bakFaults,
                   bakPromised>>

UploadRecords ==
    /\ bakUpload.pc = "landed"
    /\ bakFiles[<<bakUpload.db, bakUpload.id>>] # NoBytes
    /\ Record(EntryOf(bakUpload.db, bakUpload, TRUE))
    /\ bakUpload' = NoJob
    /\ UNCHANGED <<bakFiles, bakRuns, bakRemoval, bakRestore, bakBases, bakClock, bakDumps>>

\* A removal took the file first: the upload ends in an error, and nothing is recorded.
UploadLost ==
    /\ bakUpload.pc = "landed"
    /\ bakFiles[<<bakUpload.db, bakUpload.id>>] = NoBytes
    /\ bakUpload' = NoJob
    /\ UNCHANGED <<bakFiles, bakCatalog, bakSaved, bakRuns, bakRemoval, bakRestore, bakBases,
                   bakClock, bakDumps, bakFaults, bakPromised>>

-----------------------------------------------------------------------------
(* Removal: prune after a run of all databases, DeleteBackup                  *)

\* keepSet with the two exemptions swapped: manual dumps age like the others (mutant).
AgedIds(entries) == {e.id : e \in {f \in ToSet(entries) :
                                      f.ok /\ f.time + Window >= bakClock}}

\* keepSet of every database: the manual entries, and the complete ones within Window.
KeptIds(entries) == {e.id : e \in {f \in ToSet(entries) :
                                      Manual(f) \/ (f.ok /\ f.time + Window >= bakClock)}}

\* prune lists the catalog, removes the files of what rotation does not keep ...
PruneFiles ==
    /\ bakRemoval = NoJob
    /\ LET old == {e \in ToSet(bakCatalog) : e.ok /\ e.id \notin KeptIds(bakCatalog)}
       IN  /\ old # {}
           /\ bakFiles' = [p \in DOMAIN bakFiles |->
                  IF \E e \in old : p = <<e.db, e.id>> THEN NoBytes ELSE bakFiles[p]]
           /\ bakRemoval' = [pc |-> "forget", ids |-> {e.id : e \in old}, asked |-> FALSE]
    /\ UNCHANGED <<bakCatalog, bakSaved, bakRuns, bakUpload, bakRestore, bakBases,
                   bakClock, bakDumps, bakFaults, bakPromised>>

\* DeleteBackup removes the file of the entry the id leads to, when it has one ...
DeleteFile(id) ==
    /\ bakRemoval = NoJob
    /\ \E e \in ToSet(bakCatalog) :
        /\ Found(e, id)
        /\ bakFiles' = IF e.ok THEN [bakFiles EXCEPT ![<<e.db, id>>] = NoBytes] ELSE bakFiles
    /\ bakRemoval' = [pc |-> "forget", ids |-> {id}, asked |-> TRUE]
    /\ bakPromised' = {e \in bakPromised : e.id # id}
    /\ UNCHANGED <<bakCatalog, bakSaved, bakRuns, bakUpload, bakRestore, bakBases,
                   bakClock, bakDumps, bakFaults>>

\* ... and both then drop every entry with the ids, one that a dump of the same second
\* has recorded meanwhile included.
ForgetEntries ==
    /\ bakRemoval.pc = "forget"
    /\ SaveCatalog(Forget(bakRemoval.ids))
    /\ bakPromised' = {e \in bakPromised : bakRemoval.asked => e.id \notin bakRemoval.ids}
    /\ bakRemoval' = NoJob
    /\ UNCHANGED <<bakFiles, bakRuns, bakUpload, bakRestore, bakBases, bakClock, bakDumps>>

-----------------------------------------------------------------------------
(* Restore                                                                   *)

\* The entry is looked up and its file opened only when it completed; the file may be
\* replaced or removed until it is read.
RestoreFinds(id, target, replace) ==
    /\ bakRestore = NoJob
    /\ \E e \in ToSet(bakCatalog) :
        /\ Found(e, id) /\ e.ok /\ bakFiles[<<e.db, id>>] # NoBytes
        /\ bakRestore' = [pc |-> "found", entry |-> e, target |-> target,
                          replace |-> replace, sql |-> NoBytes, over |-> {}]
    /\ UNCHANGED <<bakFiles, bakCatalog, bakSaved, bakRuns, bakUpload, bakRemoval,
                   bakBases, bakClock, bakDumps, bakFaults, bakPromised>>

\* A restore that trusts the catalog and compares no checksum (mutant).
RestoreTrusts ==
    /\ bakRestore.pc = "found"
    /\ bakRestore' = [bakRestore EXCEPT !.pc = "checked"]
    /\ UNCHANGED <<bakFiles, bakCatalog, bakSaved, bakRuns, bakUpload, bakRemoval,
                   bakBases, bakClock, bakDumps, bakFaults, bakPromised>>

\* The file is read for its checksum; one that is gone or changed ends the restore.
RestoreChecks ==
    /\ bakRestore.pc = "found"
    /\ bakRestore' = IF bakFiles[<<bakRestore.entry.db, bakRestore.entry.id>>] = bakRestore.entry.sum
                     THEN [bakRestore EXCEPT !.pc = "checked"] ELSE NoJob
    /\ UNCHANGED <<bakFiles, bakCatalog, bakSaved, bakRuns, bakUpload, bakRemoval,
                   bakBases, bakClock, bakDumps, bakFaults, bakPromised>>

\* unzip opens the path a second time and unpacks what it finds there to a temp file; no
\* file, or one that is not complete, is not a readable archive.
RestoreUnpacks ==
    /\ bakRestore.pc = "checked"
    /\ LET bytes == bakFiles[<<bakRestore.entry.db, bakRestore.entry.id>>]
       IN  bakRestore' = IF bytes \in {NoBytes, Torn} THEN NoJob
                         ELSE [bakRestore EXCEPT !.pc = "unpacked", !.sql = bytes]
    /\ UNCHANGED <<bakFiles, bakCatalog, bakSaved, bakRuns, bakUpload, bakRemoval,
                   bakBases, bakClock, bakDumps, bakFaults, bakPromised>>

\* DROP DATABASE only for a confirmed replacement; otherwise an existing target is an
\* error of CREATE DATABASE.
RestoreClears ==
    /\ bakRestore.pc = "unpacked"
    /\ IF bakRestore.replace \/ bakRestore.target \notin bakBases
       THEN /\ bakBases' = bakBases \ {bakRestore.target}
            /\ bakRestore' = [bakRestore EXCEPT !.pc = "cleared"]
       ELSE bakRestore' = NoJob /\ UNCHANGED bakBases
    /\ UNCHANGED <<bakFiles, bakCatalog, bakSaved, bakRuns, bakUpload, bakRemoval,
                   bakClock, bakDumps, bakFaults, bakPromised>>

\* CREATE DATABASE and psql, which stops at its first error: the target is there again,
\* with all of the dump or the part that had been loaded.
RestoreLoads ==
    /\ bakRestore.pc = "cleared"
    /\ bakBases' = bakBases \union {bakRestore.target}
    /\ bakRestore' = NoJob
    /\ UNCHANGED <<bakFiles, bakCatalog, bakSaved, bakRuns, bakUpload, bakRemoval,
                   bakClock, bakDumps, bakFaults, bakPromised>>

\* The operator drops a database.
DropBase(t) ==
    /\ t \in bakBases
    /\ bakBases' = bakBases \ {t}
    /\ UNCHANGED <<bakFiles, bakCatalog, bakSaved, bakRuns, bakUpload, bakRemoval,
                   bakRestore, bakClock, bakDumps, bakFaults, bakPromised>>

-----------------------------------------------------------------------------

\* A dump ends within its hour, long before rotation's week is over.
SecondPasses ==
    /\ bakClock < MaxSecond
    /\ \A d \in Dbs : bakRuns[d] # NoJob => bakRuns[d].time + Window > bakClock
    /\ bakUpload # NoJob => bakUpload.time + Window > bakClock
    /\ bakClock' = bakClock + 1
    /\ UNCHANGED <<bakFiles, bakCatalog, bakSaved, bakRuns, bakUpload, bakRemoval,
                   bakRestore, bakBases, bakDumps, bakFaults, bakPromised>>

\* A restart reads the catalog from its file; what was under way is gone.
BackupsCrash ==
    /\ bakFaults < MaxBakFaults
    /\ \/ bakCatalog # bakSaved \/ \E d \in Dbs : bakRuns[d] # NoJob
       \/ {bakUpload, bakRemoval, bakRestore} # {NoJob}
    /\ bakFaults' = bakFaults + 1
    /\ bakCatalog' = bakSaved
    /\ bakRuns' = [d \in Dbs |-> NoJob]
    /\ bakUpload' = NoJob /\ bakRemoval' = NoJob /\ bakRestore' = NoJob
    /\ UNCHANGED <<bakFiles, bakSaved, bakBases, bakClock, bakDumps, bakPromised>>

BackupsNext ==
    \/ \E d \in Dbs :
        \/ \E by \in RunKinds : DumpStarts(d, by)
        \/ DumpCreates(d) \/ DumpZips(d) \/ DumpRecords(d) \/ DumpFails(d)
        \/ UploadLands(d)
    \/ \E t \in BakTargets :
        \/ DropBase(t)
        \/ \E id \in DumpIds, replace \in BOOLEAN : RestoreFinds(id, t, replace)
    \/ UploadRecords \/ UploadLost
    \/ PruneFiles \/ ForgetEntries \/ \E id \in DumpIds : DeleteFile(id)
    \/ RestoreChecks \/ RestoreUnpacks \/ RestoreClears \/ RestoreLoads
    \/ SecondPasses \/ BackupsCrash

BackupsSpec == BackupsInit /\ [][BackupsNext]_bakVars

-----------------------------------------------------------------------------
(* Manual dumps are kept: once recorded, an operator's dump is in the saved    *)
(* catalog until the operator deletes its id or the cap drops it, whatever     *)
(* rotation removes and wherever the daemon dies (prune, keepSet, record).     *)
ManualKept == bakPromised \subseteq ToSet(bakSaved)

(* A dump the operator asked for is never rotated away (ops/pg.go: an explicit *)
(* run is a manual backup): false, a run of all databases is not marked manual. *)
ExplicitKept ==
    bakRemoval # NoJob /\ ~bakRemoval.asked =>
        \A e \in ToSet(bakCatalog) : e.id \in bakRemoval.ids => e.by = "schedule"

(* A database is dropped for a restore only when a whole archive is in hand:   *)
(* the one the catalog recorded, or one that was put under its name between    *)
(* the restore's two reads of the file.  Whatever dumps, uploads and removals  *)
(* did before the checksum was compared ends the restore with its target       *)
(* untouched (Restore: checksum, unzip, and only then drop).                   *)
RestoreInHand ==
    bakRestore.pc \in {"unpacked", "cleared"} =>
        /\ bakRestore.sql \notin {NoBytes, Torn}
        /\ bakRestore.sql \in {bakRestore.entry.sum} \union bakRestore.over

(* A restore loads the bytes the catalog recorded (the checksum's promise):    *)
(* false, the file is opened again after its checksum was compared, and a dump *)
(* or an upload of the same second may have taken its place.                  *)
RestoreAsRecorded ==
    bakRestore.pc \in {"unpacked", "cleared"} => bakRestore.sql = bakRestore.entry.sum

(* What is kept of manual dumps, and what a restore has before it drops (pg).  *)
DumpsKept == ManualKept /\ RestoreInHand
=============================================================================
