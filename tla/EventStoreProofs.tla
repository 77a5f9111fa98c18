--------------------------- MODULE EventStoreProofs ---------------------------
(* Theorems about EventStore, for every set of events, every retention, every   *)
(* batch, and any number of days, crashes and failed writes: an event whose     *)
(* line a saved offset is past is not lost, and a compaction neither doubles    *)
(* rows nor leaves an index behind.                                            *)
EXTENDS EventStore, FiniteSetTheorems, WellFoundedInduction, TLAPS

-----------------------------------------------------------------------------
(* The inductive invariant.                                                    *)

AnyRow == [eid : Nat \X Nat, e : Events]
File == [id : Nat, merged : BOOLEAN, rows : SUBSET AnyRow, from : SUBSET Nat]
Journal == [target : Nat, sources : SUBSET Nat]
IdsOf(files) == {f.id : f \in files}

Working == {"recover", "list", "merge", "journal", "rename", "clean", "daily", "rest"}
Ingesting == [at : {"idle", "append"}, batch : SUBSET AnyRow, rows : SUBSET AnyRow, ino : Nat, next : Nat]
Maintaining == [at : Working \cup {"idle", "next", "prune"}, todo : SUBSET Days, today : Nat,
                d : Days \cup {Missing}, files : SUBSET File, rows : SUBSET AnyRow]

Types ==
    /\ today \in Nat /\ clock \in Nat /\ faults \in Nat
    /\ ts \in [Events -> 0 .. LastDay]
    /\ log \in [ino : Nat, lines : Seq(Events)]
    /\ tail \in [ino : Nat, off : Nat] \cup {Missing}
    /\ part \in [Days -> SUBSET File]
    /\ writing \in [Days -> File \cup {Missing}]
    /\ journal \in [Days -> Journal \cup {Missing}]
    /\ daily \in [Days -> (SUBSET Events) \cup {Missing}]
    /\ rest \in [Days -> (SUBSET Events) \cup {Missing}]
    /\ ing \in Ingesting /\ mnt \in Maintaining
    /\ mnt.at \in Working => mnt.d \in Days
    /\ stored \subseteq Events
    /\ \A d \in Days : IsFiniteSet(part[d])

AllRows == ing.batch \cup mnt.rows \cup UNION {RowsOf(part[d]) : d \in Days}

(* No two files of a day share a name, and no name was given yet to what is    *)
(* to come.                                                                    *)
Named ==
    \A d \in Days :
        /\ \A f \in part[d] : f.id < clock /\ \A x \in f.from : x < clock
        /\ \A f, g \in part[d] : f.id = g.id => f = g

(* The merged file before its rename.                                          *)
NewFile(w) ==
    /\ w \in File /\ w.merged /\ w.rows = mnt.rows /\ w.from = IdsOf(mnt.files)
    /\ w.id < clock /\ w.id \notin w.from
    /\ \A f \in part[mnt.d] : f.id # w.id /\ w.id \notin f.from

(* A compaction works on a day without a journal until it writes one, and the  *)
(* merged file is new and takes the place of the other merged ones.            *)
Merging ==
    /\ mnt.at \in {"list", "merge", "journal"} => journal[mnt.d] = Missing
    /\ mnt.at \in {"merge", "journal", "rename"} =>
         /\ \A x \in IdsOf(mnt.files) : x < clock
         /\ \A f \in part[mnt.d] : f.merged => f.id \in IdsOf(mnt.files)
    /\ mnt.at \in {"journal", "rename"} => NewFile(writing[mnt.d])
    /\ mnt.at = "rename" =>
         journal[mnt.d] = [target |-> writing[mnt.d].id, sources |-> writing[mnt.d].from]

Journaled ==
    \A d \in Days : journal[d] # Missing =>
        /\ journal[d].target < clock /\ \A x \in journal[d].sources : x < clock
        /\ journal[d].target \notin journal[d].sources

(* Maintenance prunes days past retention only.                                *)
Pruning ==
    /\ mnt.today <= today
    /\ mnt.at = "prune" => \A d \in mnt.todo : d + Retention < today

Doubled ==
    \A d \in Days : \A f, g \in part[d] : IsMergedFrom(f, g) =>
        \/ d + Retention < today
        \/ journal[d] # Missing /\ journal[d].target = f.id /\ g.id \in journal[d].sources

(* Without a failure every merged file has its indexes, except while they are  *)
(* being written.                                                              *)
Indexed ==
    faults = 0 =>
        \A d \in Days : \A m \in part[d] : m.merged =>
            IF mnt.d = d /\ mnt.at \in {"clean", "daily", "rest"}
            THEN /\ \/ EventsOf(m.rows) = EventsOf(mnt.rows)
                    \/ mnt.at = "clean" /\ journal[d] # Missing /\ Landed(d) /\ m.id \in journal[d].sources
                 /\ mnt.at = "rest" => daily[d] = EventsOf(mnt.rows)
            ELSE daily[d] = EventsOf(m.rows) /\ rest[d] = EventsOf(m.rows)

CompInv == Types /\ Named /\ Merging /\ Journaled /\ Pruning /\ Doubled /\ Indexed

(* A row says where its line is: a line of the file there is now is still      *)
(* there, and no other event has its place.                                    *)
Placed ==
    /\ \A r \in AllRows :
         /\ r.eid[1] <= log.ino
         /\ r.eid[1] = log.ino => r.eid[2] \in 1 .. Len(log.lines) /\ log.lines[r.eid[2]] = r.e
    /\ \A r, s \in AllRows : r.eid = s.eid => r = s

(* What is in the app's file, in a batch or past a saved offset has its day.   *)
Dated ==
    /\ \A i \in 1 .. Len(log.lines) : ts[log.lines[i]] # 0
    /\ \A r \in ing.batch : ts[r.e] # 0
    /\ \A e \in stored : ts[e] # 0

(* What a pass has written so far is there, unless retention took it.          *)
Written ==
    /\ ing.rows \subseteq ing.batch
    /\ \A r \in ing.batch \ ing.rows :
         ts[r.e] + Retention >= today => r.e \in EventsOf(RowsOf(part[ts[r.e]]))

(* What the merged file replaces is in it: the files a compaction listed while  *)
(* it runs, the files a journal names afterwards.                              *)
Covered ==
    /\ mnt.at \in {"merge", "journal", "rename"} =>
         \A f \in part[mnt.d] : f.id \in IdsOf(mnt.files) => EventsOf(f.rows) \subseteq EventsOf(mnt.rows)
    /\ \A d \in Days : journal[d] # Missing =>
         \A t, f \in part[d] : t.id = journal[d].target /\ f.id \in journal[d].sources =>
              EventsOf(f.rows) \subseteq EventsOf(t.rows)

Kept == \A e \in stored : e \in EventsOf(RowsOf(part[ts[e]]))

KeepInv == CompInv /\ Placed /\ Dated /\ Written /\ Covered /\ Kept

(* The app starts its file over by replacing it.                               *)
Replaced == Rewrites \subseteq {"replace"}

-----------------------------------------------------------------------------
(* Types.                                                                      *)

LEMMA ConstFact ==
    /\ LastDay \in Nat /\ Retention \in Nat \ {0} /\ Batch \in Nat \ {0}
    /\ Events \subseteq Nat /\ Days \subseteq Nat /\ Missing \notin Journal
<1>1. Cardinality(Events) \in Nat
  BY BoundsAssumption, FS_CardinalityType
<1>2. Events \subseteq Nat
  BY <1>1, BoundsAssumption
<1>3. Days \subseteq Nat
  BY BoundsAssumption DEF Days
<1>4. Missing \notin Journal
  BY MissingAssumption DEF Journal
<1> QED
  BY <1>2, <1>3, <1>4, BoundsAssumption

(* One step of maintenance leaves a record of its kind.                        *)
LEMMA MntFact ==
    ASSUME mnt \in Maintaining, NEW at \in Working \cup {"idle", "next", "prune"},
           NEW todo \in SUBSET Days, NEW d \in Days \cup {Missing},
           NEW files \in SUBSET File, NEW rows \in SUBSET AnyRow
    PROVE  /\ [mnt EXCEPT !.at = at] \in Maintaining
           /\ [mnt EXCEPT !.at = at, !.todo = todo] \in Maintaining
           /\ [mnt EXCEPT !.at = at, !.todo = todo, !.d = d] \in Maintaining
           /\ [mnt EXCEPT !.at = at, !.d = d] \in Maintaining
           /\ [mnt EXCEPT !.at = at, !.files = files, !.rows = rows] \in Maintaining
           /\ [mnt EXCEPT !.at = at, !.d = d, !.files = files, !.rows = rows] \in Maintaining
           /\ [mnt EXCEPT !.todo = todo] \in Maintaining
BY DEF Maintaining

LEMMA NoneFact ==
    /\ NoMaintain \in Maintaining /\ NoMaintain.at = "idle" /\ NoMaintain.today = 0
    /\ NoMaintain.todo = {} /\ NoMaintain.rows = {} /\ NoMaintain.files = {} /\ NoMaintain.d = Missing
    /\ NoIngest \in Ingesting /\ NoIngest.at = "idle" /\ NoIngest.batch = {} /\ NoIngest.rows = {}
BY DEF NoMaintain, Maintaining, NoIngest, Ingesting, Working

LEMMA RowFact ==
    ASSUME NEW e \in Events, NEW ino \in Nat, NEW pos \in Nat
    PROVE  /\ Row(e, ino, pos) \in AnyRow /\ Row(e, ino, pos).e = e
           /\ Row(e, ino, pos).eid = <<ino, pos>>
           /\ Row(e, ino, pos).eid[1] = ino /\ Row(e, ino, pos).eid[2] = pos
BY DEF Row, AnyRow

LEMMA RowsTyped ==
    ASSUME Types, NEW d \in Days
    PROVE  RowsOf(part[d]) \subseteq AnyRow /\ Dedupe(part[d]) \subseteq RowsOf(part[d])
BY DEF Types, File, RowsOf, Dedupe

LEMMA EventsTyped ==
    ASSUME NEW rows \in SUBSET AnyRow
    PROVE  EventsOf(rows) \in SUBSET Events
BY DEF EventsOf, AnyRow

LEMMA StartFact == Types => Start \in Nat
<1> SUFFICES ASSUME Types PROVE Start \in Nat
  OBVIOUS
<1>1. CASE tail = Missing
  BY <1>1 DEF Start
<1>2. CASE tail # Missing
  <2>1. tail.off \in Nat
    BY <1>2 DEF Types
  <2> QED
    BY <1>2, <2>1 DEF Start
<1> QED
  BY <1>1, <1>2

(* The rows a pass reads.                                                      *)
LEMMA ReadFact ==
    ASSUME Types, Read
    PROVE  \E next \in Nat : \E rows \in SUBSET AnyRow :
             /\ \A r \in rows : \E i \in 1 .. Len(log.lines) : r = Row(log.lines[i], log.ino, i)
             /\ ing' = [at |-> "append", batch |-> rows, rows |-> rows, ino |-> log.ino, next |-> next]
<1> DEFINE next == IF Start + Batch < Len(log.lines) THEN Start + Batch ELSE Len(log.lines)
           rows == {Row(log.lines[i], log.ino, i) : i \in Start + 1 .. next}
<1>1. log.ino \in Nat /\ log.lines \in Seq(Events) /\ Len(log.lines) \in Nat
  BY DEF Types
<1>2. Start \in Nat /\ Batch \in Nat
  BY StartFact, ConstFact
<1>3. next \in Nat /\ next <= Len(log.lines)
  BY <1>1, <1>2
<1>4. ing' = [at |-> "append", batch |-> rows, rows |-> rows, ino |-> log.ino, next |-> next]
  BY DEF Read
<1> HIDE DEF next
<1>5. \A i \in Start + 1 .. next : i \in 1 .. Len(log.lines) /\ i \in Nat /\ log.lines[i] \in Events
  BY <1>1, <1>2, <1>3
<1>6. rows \in SUBSET AnyRow
  BY <1>1, <1>5, RowFact
<1> QED
  BY <1>3, <1>4, <1>5, <1>6

-----------------------------------------------------------------------------
(* Compaction: the steps that leave its disk alone.                            *)

LEMMA EvInitComp == EvInit => CompInv
<1> SUFFICES ASSUME EvInit PROVE CompInv
  OBVIOUS
<1>1. Types
  <2>1. log \in [ino : Nat, lines : Seq(Events)]
    BY DEF EvInit
  <2>2. \A d \in Days : IsFiniteSet(part[d])
    BY FS_EmptySet DEF EvInit
  <2>3. ts \in [Events -> 0 .. LastDay]
    BY ConstFact DEF EvInit
  <2>4. ing \in Ingesting /\ mnt \in Maintaining /\ mnt.at \notin Working
    BY NoneFact DEF EvInit, Working
  <2>5. /\ part \in [Days -> SUBSET File]
        /\ writing \in [Days -> File \cup {Missing}]
        /\ journal \in [Days -> Journal \cup {Missing}]
        /\ daily \in [Days -> (SUBSET Events) \cup {Missing}]
        /\ rest \in [Days -> (SUBSET Events) \cup {Missing}]
    BY DEF EvInit
  <2>6. today \in Nat /\ clock \in Nat /\ faults \in Nat /\ stored = {} /\ tail = Missing
    BY DEF EvInit
  <2> QED
    BY <2>1, <2>2, <2>3, <2>4, <2>5, <2>6 DEF Types
<1>2. mnt.at = "idle" /\ mnt.today = 0 /\ today = 1
  BY NoneFact DEF EvInit
<1>3. Named /\ Journaled /\ Doubled /\ Indexed
  BY DEF EvInit, Named, Journaled, Doubled, Indexed
<1> QED
  BY <1>1, <1>2, <1>3 DEF CompInv, Merging, Pruning

LEMMA QuietComp ==
    ASSUME CompInv, Types', UNCHANGED <<part, writing, journal, daily, rest, clock, mnt>>,
           today <= today', faults' = faults \/ faults' = faults + 1
    PROVE  CompInv'
<1>1. today \in Nat /\ today' \in Nat /\ faults \in Nat /\ Retention \in Nat /\ mnt.today \in Nat /\ Days \subseteq Nat
  BY ConstFact DEF CompInv, Types, Maintaining
<1>2. Named' /\ Merging' /\ Journaled'
  BY DEF CompInv, Named, Merging, Journaled, NewFile, IdsOf
<1>3. Pruning'
  <2>1. \A d \in mnt.todo : d \in Nat
    BY <1>1 DEF CompInv, Types, Maintaining
  <2> QED
    BY <1>1, <2>1 DEF CompInv, Pruning
<1>4. Doubled'
  <2>1. SUFFICES ASSUME NEW d \in Days, NEW f \in part[d], NEW g \in part[d], IsMergedFrom(f, g)
                 PROVE  \/ d + Retention < today'
                        \/ journal[d] # Missing /\ journal[d].target = f.id /\ g.id \in journal[d].sources
    BY DEF Doubled, IsMergedFrom
  <2>2. d \in Nat /\ (d + Retention < today => d + Retention < today')
    BY <1>1
  <2> QED
    BY <2>1, <2>2 DEF CompInv, Doubled
<1>5. Indexed'
  <2>1. faults' = 0 => faults = 0
    BY <1>1
  <2> QED
    BY <2>1 DEF CompInv, Indexed, EventsOf, Landed
<1> QED
  BY <1>2, <1>3, <1>4, <1>5 DEF CompInv

LEMMA AppComp ==
    ASSUME CompInv,
           \/ \E e \in Events, d \in Days : RecordEvent(e, d)
           \/ \E how \in Rewrites : Rewrite(how)
           \/ Tomorrow \/ UNCHANGED evVars
    PROVE  CompInv'
<1>1. UNCHANGED <<tail, part, writing, journal, daily, rest, clock, ing, mnt, stored, faults>>
  BY DEF RecordEvent, Rewrite, Tomorrow, evVars, disk
<1>2. today' \in Nat /\ today <= today'
  BY DEF RecordEvent, Rewrite, Tomorrow, evVars, CompInv, Types
<1>3. ts' \in [Events -> 0 .. LastDay]
  BY ConstFact DEF RecordEvent, Rewrite, Tomorrow, evVars, CompInv, Types, Days
<1>4. log' \in [ino : Nat, lines : Seq(Events)]
  <2>1. log \in [ino : Nat, lines : Seq(Events)] /\ log.ino \in Nat /\ log.lines \in Seq(Events)
    BY DEF CompInv, Types
  <2>2. ASSUME NEW e \in Events, NEW d \in Days, RecordEvent(e, d)
        PROVE  log' \in [ino : Nat, lines : Seq(Events)]
    <3>1. Append(log.lines, e) \in Seq(Events) /\ log' = [log EXCEPT !.lines = Append(log.lines, e)]
      BY <2>1, <2>2 DEF RecordEvent
    <3> QED
      BY <2>1, <3>1
  <2>3. ASSUME NEW how \in Rewrites, Rewrite(how)
        PROVE  log' \in [ino : Nat, lines : Seq(Events)]
    <3>1. <<>> \in Seq(Events) /\ (IF how = "replace" THEN log.ino + 1 ELSE log.ino) \in Nat
      BY <2>1
    <3> QED
      BY <2>3, <3>1 DEF Rewrite
  <2>4. CASE UNCHANGED log
    BY <2>1, <2>4
  <2> QED
    BY <2>2, <2>3, <2>4 DEF Tomorrow, evVars
<1>5. Types'
  BY <1>1, <1>2, <1>3, <1>4 DEF CompInv, Types
<1> QED
  BY <1>1, <1>2, <1>5, QuietComp

LEMMA IngestComp ==
    ASSUME CompInv, Read \/ ReadNothing \/ SaveOffset \/ IngestFails
    PROVE  CompInv'
<1>1. UNCHANGED <<today, ts, log, part, writing, journal, daily, rest, clock, mnt>>
  BY DEF Read, ReadNothing, SaveOffset, IngestFails, disk
<1>2. faults' \in Nat /\ (faults' = faults \/ faults' = faults + 1) /\ today <= today'
  BY <1>1 DEF Read, ReadNothing, SaveOffset, IngestFails, CompInv, Types
<1>3. ing' \in Ingesting
  <2>1. CASE Read
    <3>1. PICK next \in Nat, rows \in SUBSET AnyRow :
            ing' = [at |-> "append", batch |-> rows, rows |-> rows, ino |-> log.ino, next |-> next]
      BY <2>1, ReadFact DEF CompInv
    <3>2. log.ino \in Nat
      BY DEF CompInv, Types
    <3> QED
      BY <3>1, <3>2 DEF Ingesting
  <2>2. CASE ~Read
    BY <2>2, NoneFact DEF ReadNothing, SaveOffset, IngestFails, CompInv, Types
  <2> QED
    BY <2>1, <2>2
<1>4. tail' \in [ino : Nat, off : Nat] \cup {Missing}
  <2>1. log.ino \in Nat /\ Start \in Nat /\ ing.ino \in Nat /\ ing.next \in Nat
    BY StartFact DEF CompInv, Types, Ingesting
  <2> QED
    BY <2>1 DEF Read, ReadNothing, SaveOffset, IngestFails, disk, CompInv, Types
<1>5. stored' \subseteq Events
  <2>1. Owed(ing.batch) \subseteq Events
    BY DEF Owed, EventsOf, CompInv, Types, Ingesting, AnyRow
  <2> QED
    BY <2>1 DEF Read, ReadNothing, SaveOffset, IngestFails, CompInv, Types
<1>6. Types'
  BY <1>1, <1>2, <1>3, <1>4, <1>5 DEF CompInv, Types
<1> QED
  BY <1>1, <1>2, <1>6, QuietComp

LEMMA TypesKept ==
    ASSUME Types, UNCHANGED <<today, ts, log, tail, ing>>, stored' \subseteq stored,
           clock' \in Nat, faults' \in Nat,
           part' \in [Days -> SUBSET File], \A d \in Days : IsFiniteSet(part'[d]),
           writing' \in [Days -> File \cup {Missing}], journal' \in [Days -> Journal \cup {Missing}],
           daily' \in [Days -> (SUBSET Events) \cup {Missing}],
           rest' \in [Days -> (SUBSET Events) \cup {Missing}],
           mnt' \in Maintaining, mnt'.at \in Working => mnt'.d \in Days
    PROVE  Types'
BY DEF Types

-----------------------------------------------------------------------------
(* Compaction: the steps of maintenance that write nothing.                    *)

(* A step that only moves MaintainDays on.                                     *)
LEMMA MoveComp ==
    ASSUME CompInv, UNCHANGED <<part, writing, journal, daily, rest, clock>>, Quietly,
           mnt' \in Maintaining, mnt'.at \in Working => mnt'.d \in Days,
           Merging', Pruning', Indexed'
    PROVE  CompInv'
<1>1. UNCHANGED <<today, ts, log, tail, ing, stored, faults>>
  BY DEF Quietly
<1>2. Types'
  BY <1>1, TypesKept DEF CompInv, Types
<1>3. Named' /\ Journaled' /\ Doubled'
  BY <1>1 DEF CompInv, Named, Journaled, Doubled, IsMergedFrom
<1> QED
  BY <1>2, <1>3 DEF CompInv

(* A move from and to a place where no index is being written.                 *)
LEMMA RestingComp ==
    ASSUME CompInv, UNCHANGED <<part, writing, journal, daily, rest, clock>>, Quietly,
           mnt.at \notin {"clean", "daily", "rest"}, mnt'.at \notin {"clean", "daily", "rest"}
    PROVE  Indexed'
<1>1. UNCHANGED <<today, ts, log, tail, ing, stored, faults>>
  BY DEF Quietly
<1> QED
  BY <1>1 DEF CompInv, Indexed, EventsOf

LEMMA BeginComp == ASSUME CompInv, Begin PROVE CompInv'
<1> DEFINE todo == {d \in Days : Exists(d)}
<1>1. mnt' = [NoMaintain EXCEPT !.at = "next", !.todo = todo, !.today = today]
  BY DEF Begin
<1>2. todo \in SUBSET Days /\ today \in Nat
  BY DEF CompInv, Types
<1> HIDE DEF todo
<1>3. mnt' \in Maintaining /\ mnt'.at = "next" /\ mnt'.today = today
  BY <1>1, <1>2 DEF NoMaintain, Maintaining
<1>4. mnt.at = "idle" /\ UNCHANGED <<part, writing, journal, daily, rest, clock>> /\ Quietly
  BY DEF Begin
<1>5. Merging'
  BY <1>3 DEF Merging
<1>6. Pruning'
  BY <1>2, <1>3, <1>4 DEF Pruning, Quietly
<1>7. Indexed'
  BY <1>3, <1>4, RestingComp
<1> QED
  BY <1>3, <1>4, <1>5, <1>6, <1>7, MoveComp DEF Working

LEMMA NextDayComp == ASSUME CompInv, NextDay PROVE CompInv'
<1>1. PICK d \in mnt.todo : mnt' = [mnt EXCEPT !.at = "recover", !.todo = @ \ {d}, !.d = d]
  BY DEF NextDay
<1>2. mnt \in Maintaining /\ d \in Days /\ mnt.todo \ {d} \in SUBSET Days
  BY DEF CompInv, Types, Maintaining
<1>3. mnt' \in Maintaining /\ mnt'.at = "recover" /\ mnt'.d = d /\ mnt'.today = mnt.today
  BY <1>1, <1>2 DEF Maintaining, Working
<1>4. mnt.at = "next" /\ UNCHANGED <<part, writing, journal, daily, rest, clock>> /\ Quietly
  BY DEF NextDay
<1>5. Merging'
  BY <1>3 DEF Merging
<1>6. Pruning'
  BY <1>3, <1>4 DEF CompInv, Pruning, Quietly
<1>7. Indexed'
  BY <1>3, <1>4, RestingComp
<1> QED
  BY <1>2, <1>3, <1>4, <1>5, <1>6, <1>7, MoveComp

LEMMA PruneComp == ASSUME CompInv, Prune PROVE CompInv'
<1>1. mnt \in Maintaining /\ Expired \in SUBSET Days
  BY DEF CompInv, Types, Expired
<1>2. mnt' \in Maintaining /\ mnt'.at = "prune" /\ mnt'.todo = Expired /\ mnt'.today = mnt.today
  BY <1>1 DEF Prune, Maintaining
<1>3. mnt.at = "next" /\ UNCHANGED <<part, writing, journal, daily, rest, clock>> /\ Quietly
  BY DEF Prune
<1>4. Merging'
  BY <1>2 DEF Merging
<1>5. Pruning'
  <2>1. mnt.today <= today /\ mnt.today \in Nat /\ today \in Nat /\ Retention \in Nat /\ Days \subseteq Nat /\ today' = today
    BY <1>3, ConstFact DEF CompInv, Types, Maintaining, Pruning, Quietly
  <2>2. \A d \in Expired : d + Retention < today
    BY <2>1 DEF Expired
  <2> QED
    BY <1>2, <2>1, <2>2 DEF Pruning
<1>6. Indexed'
  BY <1>2, <1>3, RestingComp
<1> QED
  BY <1>2, <1>3, <1>4, <1>5, <1>6, MoveComp DEF Working

LEMMA PrunedComp == ASSUME CompInv, NEW d \in Days, Pruned(d) PROVE CompInv'
<1>1. mnt \in Maintaining /\ mnt.todo \ {d} \in SUBSET Days
  BY DEF CompInv, Types, Maintaining
<1>2. mnt' \in Maintaining /\ mnt'.at = "prune" /\ mnt'.todo = mnt.todo \ {d} /\ mnt'.today = mnt.today
  BY <1>1 DEF Pruned, Maintaining
<1>3. mnt.at = "prune" /\ UNCHANGED <<part, writing, journal, daily, rest, clock>> /\ Quietly
  BY DEF Pruned
<1>4. Merging'
  BY <1>2 DEF Merging
<1>5. Pruning'
  BY <1>2, <1>3 DEF CompInv, Pruning, Quietly
<1>6. Indexed'
  BY <1>2, <1>3, RestingComp
<1> QED
  BY <1>2, <1>3, <1>4, <1>5, <1>6, MoveComp DEF Working

LEMMA EndComp == ASSUME CompInv, End PROVE CompInv'
<1>1. mnt' \in Maintaining /\ mnt'.at = "idle" /\ mnt'.today = 0
  BY NoneFact DEF End
<1>2. mnt.at = "prune" /\ UNCHANGED <<part, writing, journal, daily, rest, clock>> /\ Quietly
  BY DEF End
<1>3. Merging'
  BY <1>1 DEF Merging
<1>4. Pruning'
  BY <1>1, <1>2 DEF CompInv, Types, Pruning, Quietly
<1>5. Indexed'
  BY <1>1, <1>2, RestingComp
<1> QED
  BY <1>1, <1>2, <1>3, <1>4, <1>5, MoveComp DEF Working

LEMMA RecoveredComp ==
    ASSUME CompInv, Recover, Recovered(mnt.d)
    PROVE  CompInv'
<1>1. mnt \in Maintaining /\ mnt.at \in {"recover", "clean"} /\ mnt.d \in Days /\ journal[mnt.d] = Missing
  BY DEF CompInv, Types, Recover, Recovered, Working
<1>2. UNCHANGED <<part, writing, journal, daily, rest, clock>> /\ Quietly
  BY DEF Recover, Recovered
<1>3. /\ mnt' \in Maintaining /\ mnt'.d = mnt.d /\ mnt'.today = mnt.today /\ mnt'.rows = mnt.rows
      /\ mnt'.at = IF mnt.at = "recover" THEN "list" ELSE "daily"
  BY <1>1 DEF Recovered, Maintaining, Working
<1>4. Merging'
  BY <1>1, <1>2, <1>3 DEF Merging
<1>5. Pruning'
  BY <1>1, <1>2, <1>3 DEF CompInv, Pruning, Quietly
<1>6. Indexed'
  <2>1. CASE mnt.at = "recover"
    BY <1>2, <1>3, <2>1, RestingComp
  <2>2. CASE mnt.at = "clean"
    BY <1>1, <1>2, <1>3, <2>2 DEF CompInv, Indexed, Quietly, EventsOf
  <2> QED
    BY <1>1, <2>1, <2>2
<1> QED
  BY <1>1, <1>2, <1>3, <1>4, <1>5, <1>6, MoveComp DEF Working

(* A day that is compact is one merged file, and Dedupe leaves its rows alone. *)
LEMMA CompactDay ==
    ASSUME Types, NEW d \in Days, Compact(d)
    PROVE  \E m \in part[d] : part[d] = {m} /\ m.merged /\ Dedupe(part[d]) = m.rows
<1>1. IsFiniteSet(part[d]) /\ Cardinality(part[d]) = 1
  BY DEF Types, Compact
<1>2. PICK m : part[d] = {m}
  BY <1>1, FS_Singleton
<1>3. Dedupe({m}) = m.rows
  BY DEF Dedupe, RowsOf
<1> QED
  BY <1>2, <1>3 DEF Compact

LEMMA ListComp == ASSUME CompInv, List PROVE CompInv'
<1>1. mnt \in Maintaining /\ mnt.at = "list" /\ mnt.d \in Days /\ journal[mnt.d] = Missing
  BY DEF CompInv, Types, List, Working, Merging
<1>2. UNCHANGED <<part, writing, journal, daily, rest, clock>> /\ Quietly
  BY DEF List
<1>3. part[mnt.d] \in SUBSET File /\ Dedupe(part[mnt.d]) \in SUBSET AnyRow
  BY <1>1, RowsTyped DEF CompInv, Types
<1>4. CASE Skipped(mnt.d)
  <2>1. mnt' \in Maintaining /\ mnt'.at = "next" /\ mnt'.today = mnt.today
    BY <1>1, <1>4 DEF List, Maintaining
  <2>2. Merging' /\ Pruning'
    BY <1>2, <2>1 DEF CompInv, Merging, Pruning, Quietly
  <2>3. Indexed'
    BY <1>1, <1>2, <2>1, RestingComp
  <2> QED
    BY <1>2, <2>1, <2>2, <2>3, MoveComp DEF Working
<1>5. CASE ~Skipped(mnt.d) /\ Compact(mnt.d)
  <2>1. /\ mnt' \in Maintaining /\ mnt'.at = "daily" /\ mnt'.today = mnt.today /\ mnt'.d = mnt.d
        /\ mnt'.rows = Dedupe(part[mnt.d])
    BY <1>1, <1>3, <1>5 DEF List, Maintaining, Working
  <2>2. Merging' /\ Pruning'
    BY <1>2, <2>1 DEF CompInv, Merging, Pruning, Quietly
  <2>3. PICK m \in part[mnt.d] : part[mnt.d] = {m} /\ m.merged /\ Dedupe(part[mnt.d]) = m.rows
    BY <1>1, <1>5, CompactDay DEF CompInv
  <2>4. Indexed'
    BY <1>1, <1>2, <2>1, <2>3 DEF CompInv, Indexed, Quietly, EventsOf
  <2> QED
    BY <1>1, <1>2, <2>1, <2>2, <2>4, MoveComp DEF Working
<1>6. CASE ~Skipped(mnt.d) /\ ~Compact(mnt.d)
  <2>1. /\ mnt' \in Maintaining /\ mnt'.at = "merge" /\ mnt'.today = mnt.today /\ mnt'.d = mnt.d
        /\ mnt'.files = part[mnt.d]
    BY <1>1, <1>3, <1>6 DEF List, Maintaining, Working
  <2>2. \A x \in IdsOf(part[mnt.d]) : x < clock
    BY <1>1 DEF CompInv, Named, IdsOf
  <2>3. \A f \in part[mnt.d] : f.id \in IdsOf(part[mnt.d])
    BY DEF IdsOf
  <2>4. Merging' /\ Pruning'
    BY <1>1, <1>2, <2>1, <2>2, <2>3 DEF CompInv, Merging, Pruning, Quietly, IdsOf
  <2>5. Indexed'
    BY <1>1, <1>2, <2>1, RestingComp
  <2> QED
    BY <1>1, <1>2, <2>1, <2>4, <2>5, MoveComp DEF Working
<1> QED
  BY <1>4, <1>5, <1>6

-----------------------------------------------------------------------------
(* Compaction: the files of a day.                                             *)

(* Files only go: what held of all of them holds of the rest.                  *)
LEMMA FewerFiles ==
    ASSUME CompInv, part' \in [Days -> SUBSET File], \A d \in Days : part'[d] \subseteq part[d],
           UNCHANGED <<clock, today>>
    PROVE  Named' /\ \A d \in Days : IsFiniteSet(part'[d])
<1>1. \A d \in Days : IsFiniteSet(part'[d])
  BY FS_Subset DEF CompInv, Types
<1>2. Named'
  BY DEF CompInv, Named
<1> QED
  BY <1>1, <1>2

LEMMA RemoveSourceComp ==
    ASSUME CompInv, Recover, RemoveSource(mnt.d)
    PROVE  CompInv'
<1> DEFINE c == mnt.d
<1>1. c \in Days /\ mnt.at \in {"recover", "clean"} /\ journal[c] # Missing /\ Landed(c)
  BY DEF CompInv, Types, Recover, RemoveSource, Working
<1>2. PICK x \in part[c] : x.id \in journal[c].sources /\ part' = [part EXCEPT ![c] = @ \ {x}]
  BY DEF RemoveSource
<1>3. UNCHANGED <<writing, journal, daily, rest, clock, mnt>> /\ Quietly
  BY DEF Recover, RemoveSource
<1>4. UNCHANGED <<today, ts, log, tail, ing, stored, faults>>
  BY <1>3 DEF Quietly
<1>5. part' \in [Days -> SUBSET File] /\ (\A d \in Days : part'[d] \subseteq part[d])
  BY <1>1, <1>2 DEF CompInv, Types
<1>6. part'[c] = part[c] \ {x} /\ \A d \in Days : d # c => part'[d] = part[d]
  BY <1>1, <1>2 DEF CompInv, Types
<1>7. Named' /\ \A d \in Days : IsFiniteSet(part'[d])
  BY <1>3, <1>4, <1>5, FewerFiles
<1>8. Types'
  BY <1>3, <1>4, <1>5, <1>7, TypesKept DEF CompInv, Types
<1>9. Merging' /\ Journaled' /\ Pruning'
  BY <1>1, <1>3, <1>4 DEF CompInv, Merging, Journaled, Pruning
<1>10. Doubled'
  BY <1>3, <1>4, <1>5 DEF CompInv, Doubled, IsMergedFrom
<1>11. Indexed'
  <2>1. PICK t \in part[c] : t.id = journal[c].target
    BY <1>1 DEF Landed
  <2>2. t # x
    BY <1>1, <1>2, <2>1 DEF CompInv, Journaled
  <2>3. Landed(c)'
    BY <1>3, <1>6, <2>1, <2>2 DEF Landed
  <2> QED
    BY <1>1, <1>3, <1>4, <1>5, <1>6, <2>3, ZenonT(40) DEF CompInv, Indexed, EventsOf
<1> QED
  BY <1>7, <1>8, <1>9, <1>10, <1>11 DEF CompInv

LEMMA RemoveJournalComp ==
    ASSUME CompInv, Recover, RemoveJournal(mnt.d)
    PROVE  CompInv'
<1> DEFINE c == mnt.d
<1>1. /\ c \in Days /\ mnt.at \in {"recover", "clean"} /\ journal[c] # Missing
      /\ Landed(c) => \A f \in part[c] : f.id \notin journal[c].sources
  BY DEF CompInv, Types, Recover, RemoveJournal, Working
<1>2. writing' = [writing EXCEPT ![c] = Missing] /\ journal' = [journal EXCEPT ![c] = Missing]
  BY DEF RemoveJournal
<1>3. UNCHANGED <<part, daily, rest, clock, mnt>> /\ Quietly
  BY DEF Recover, RemoveJournal
<1>4. UNCHANGED <<today, ts, log, tail, ing, stored, faults>>
  BY <1>3 DEF Quietly
<1>5. /\ writing' \in [Days -> File \cup {Missing}] /\ journal' \in [Days -> Journal \cup {Missing}]
      /\ journal'[c] = Missing /\ \A d \in Days : d # c => journal'[d] = journal[d]
  BY <1>1, <1>2 DEF CompInv, Types
<1>6. Types'
  BY <1>3, <1>4, <1>5, TypesKept DEF CompInv, Types
<1>7. Named' /\ Merging' /\ Journaled' /\ Pruning'
  BY <1>1, <1>3, <1>4, <1>5 DEF CompInv, Named, Merging, Journaled, Pruning
<1>8. Doubled'
  <2> SUFFICES ASSUME NEW d \in Days, NEW f \in part[d], NEW g \in part[d], IsMergedFrom(f, g)
               PROVE  \/ d + Retention < today
                      \/ journal'[d] # Missing /\ journal'[d].target = f.id /\ g.id \in journal'[d].sources
    BY <1>3, <1>4 DEF Doubled, IsMergedFrom
  <2>1. \/ d + Retention < today
        \/ journal[d] # Missing /\ journal[d].target = f.id /\ g.id \in journal[d].sources
    BY DEF CompInv, Doubled
  <2>2. CASE d = c
    BY <1>1, <2>1, <2>2 DEF Landed
  <2>3. CASE d # c
    BY <1>5, <2>1, <2>3
  <2> QED
    BY <2>2, <2>3
<1>9. Indexed'
  BY <1>1, <1>3, <1>4, <1>5, SMTT(30) DEF CompInv, Indexed, EventsOf, Landed
<1> QED
  BY <1>6, <1>7, <1>8, <1>9 DEF CompInv

LEMMA PruneFileComp == ASSUME CompInv, NEW c \in Days, PruneFile(c) PROVE CompInv'
<1>1. /\ mnt.at = "prune" /\ c \in mnt.todo
      /\ UNCHANGED <<today, ts, log, tail, daily, rest, clock, ing, mnt, faults>> /\ stored' \subseteq stored
  BY DEF PruneFile
<1>2. c + Retention < today
  BY <1>1 DEF CompInv, Pruning
<1>3. /\ part' \in [Days -> SUBSET File] /\ (\A d \in Days : part'[d] \subseteq part[d])
      /\ writing' \in [Days -> File \cup {Missing}] /\ journal' \in [Days -> Journal \cup {Missing}]
      /\ \A d \in Days : d # c => journal'[d] = journal[d]
      /\ journal'[c] = Missing \/ journal'[c] = journal[c]
  <2>1. CASE \E f \in part[c] : part' = [part EXCEPT ![c] = @ \ {f}] /\ UNCHANGED <<writing, journal>>
    BY <2>1 DEF CompInv, Types
  <2>2. CASE writing' = [writing EXCEPT ![c] = Missing] /\ UNCHANGED <<part, journal>>
    BY <2>2 DEF CompInv, Types
  <2>3. CASE journal' = [journal EXCEPT ![c] = Missing] /\ UNCHANGED <<part, writing>>
    BY <2>3 DEF CompInv, Types
  <2> QED
    BY <2>1, <2>2, <2>3 DEF PruneFile
<1>4. Named' /\ \A d \in Days : IsFiniteSet(part'[d])
  BY <1>1, <1>3, FewerFiles
<1>5. Types'
  BY <1>1, <1>3, <1>4, TypesKept DEF CompInv, Types
<1>6. Merging' /\ Journaled' /\ Pruning'
  BY <1>1, <1>3 DEF CompInv, Merging, Journaled, Pruning
<1>7. Doubled'
  <2> SUFFICES ASSUME NEW d \in Days, NEW f \in part'[d], NEW g \in part'[d], IsMergedFrom(f, g)
               PROVE  \/ d + Retention < today
                      \/ journal'[d] # Missing /\ journal'[d].target = f.id /\ g.id \in journal'[d].sources
    BY <1>1 DEF Doubled, IsMergedFrom
  <2>1. CASE d = c
    BY <1>2, <2>1
  <2>2. CASE d # c
    BY <1>3, <2>2 DEF CompInv, Doubled
  <2> QED
    BY <2>1, <2>2
<1>8. Indexed'
  BY <1>1, <1>3 DEF CompInv, Indexed, EventsOf
<1> QED
  BY <1>4, <1>5, <1>6, <1>7, <1>8 DEF CompInv

LEMMA AppendDayComp == ASSUME CompInv, NEW c \in Days, AppendDay(c) PROVE CompInv'
<1> DEFINE rows == {r \in ing.rows : ts[r.e] = c}
           n == [id |-> clock, merged |-> FALSE, rows |-> rows, from |-> {}]
<1>1. /\ part' = [part EXCEPT ![c] = @ \cup {n}] /\ clock' = clock + 1
      /\ ing' = [ing EXCEPT !.rows = @ \ rows]
      /\ UNCHANGED <<today, ts, log, tail, writing, journal, daily, rest, mnt, stored, faults>>
  BY DEF AppendDay
<1>2. clock \in Nat /\ ing \in Ingesting /\ rows \in SUBSET AnyRow /\ ing.rows \in SUBSET AnyRow
  BY DEF CompInv, Types, Ingesting
<1>3. n \in File /\ n.id = clock /\ ~n.merged /\ n.from = {}
  BY <1>2 DEF File
<1> HIDE DEF n, rows
<1>4. ing' \in Ingesting
  BY <1>1, <1>2 DEF Ingesting
<1>5. /\ part' \in [Days -> SUBSET File] /\ part'[c] = part[c] \cup {n}
      /\ \A d \in Days : part[d] \subseteq part'[d] /\ (d # c => part'[d] = part[d])
  BY <1>1, <1>3 DEF CompInv, Types
<1>6. \A d \in Days : IsFiniteSet(part'[d])
  <2>1. IsFiniteSet(part[c] \cup {n})
    BY FS_AddElement DEF CompInv, Types
  <2> QED
    BY <1>5, <2>1 DEF CompInv, Types
<1>7. Types'
  <2>1. /\ writing' \in [Days -> File \cup {Missing}] /\ journal' \in [Days -> Journal \cup {Missing}]
        /\ daily' \in [Days -> (SUBSET Events) \cup {Missing}]
        /\ rest' \in [Days -> (SUBSET Events) \cup {Missing}]
        /\ mnt' \in Maintaining /\ (mnt'.at \in Working => mnt'.d \in Days)
    BY <1>1 DEF CompInv, Types
  <2>2. /\ today' \in Nat /\ clock' \in Nat /\ faults' \in Nat /\ ts' \in [Events -> 0 .. LastDay]
        /\ log' \in [ino : Nat, lines : Seq(Events)]
        /\ tail' \in [ino : Nat, off : Nat] \cup {Missing} /\ stored' \subseteq Events
    BY <1>1, <1>2 DEF CompInv, Types
  <2> QED
    BY <1>4, <1>5, <1>6, <2>1, <2>2 DEF Types
<1>8. \A d \in Days : \A f \in part'[d] : f \in part[d] \/ (d = c /\ f = n)
  <2> SUFFICES ASSUME NEW d \in Days, NEW f \in part'[d], f \notin part[d] PROVE d = c /\ f = n
    OBVIOUS
  <2>1. d = c
    BY <1>5
  <2> QED
    BY <1>5, <2>1
<1>9. \A d \in Days : \A f \in part[d] : f.id < clock /\ (\A x \in f.from : x < clock) /\ f.id \in Nat /\ f.from \subseteq Nat
  BY DEF CompInv, Types, Named, File
<1>10. Named'
  <2>1. \A d \in Days : \A f \in part'[d] : f.id < clock' /\ \A x \in f.from : x < clock'
    BY <1>1, <1>2, <1>3, <1>8, <1>9
  <2>2. \A d \in Days : \A f, g \in part'[d] : f.id = g.id => f = g
    BY <1>2, <1>3, <1>8, <1>9 DEF CompInv, Named
  <2> QED
    BY <2>1, <2>2 DEF Named
<1>11. Merging'
  <2>1. mnt.at \in {"list", "merge", "journal"} => journal[mnt.d] = Missing
    BY DEF CompInv, Merging
  <2>2. ASSUME mnt.at \in {"merge", "journal", "rename"}
        PROVE  /\ \A x \in IdsOf(mnt.files) : x < clock'
               /\ \A f \in part'[mnt.d] : f.merged => f.id \in IdsOf(mnt.files)
    <3>1. mnt.d \in Days /\ \A x \in IdsOf(mnt.files) : x < clock /\ x \in Nat
      BY <2>2 DEF CompInv, Types, Merging, Maintaining, IdsOf, File, Working
    <3> QED
      BY <1>1, <1>2, <1>3, <1>8, <2>2, <3>1 DEF CompInv, Merging
  <2>3. ASSUME mnt.at \in {"journal", "rename"}
        PROVE  NewFile(writing[mnt.d])'
    <3> DEFINE w == writing[mnt.d]
    <3>1. NewFile(w) /\ mnt.d \in Days
      BY <2>3 DEF CompInv, Types, Merging, Working
    <3>2. w.id \in Nat /\ w.id < clock
      BY <3>1 DEF NewFile, File
    <3> HIDE DEF w
    <3>3. \A f \in part'[mnt.d] : f.id # w.id /\ w.id \notin f.from
      BY <1>2, <1>3, <1>8, <3>1, <3>2 DEF NewFile
    <3>4. w.id < clock'
      BY <1>1, <1>2, <3>2
    <3>5. w \in File /\ w.merged /\ w.rows = mnt.rows /\ w.from = IdsOf(mnt.files) /\ w.id \notin w.from
      BY <3>1 DEF NewFile
    <3>6. mnt' = mnt /\ w = writing'[mnt'.d] /\ w' = w
      BY <1>1 DEF w
    <3> QED
      BY <3>3, <3>4, <3>5, <3>6 DEF NewFile, w
  <2>4. mnt.at = "rename" =>
          journal[mnt.d] = [target |-> writing[mnt.d].id, sources |-> writing[mnt.d].from]
    BY DEF CompInv, Merging
  <2> QED
    BY <1>1, <2>1, <2>2, <2>3, <2>4 DEF Merging
<1>12. Journaled'
  <2>1. \A d \in Days : journal[d] # Missing => journal[d].target \in Nat /\ journal[d].sources \subseteq Nat
    BY DEF CompInv, Types, Journal
  <2> QED
    BY <1>1, <1>2, <2>1 DEF CompInv, Journaled
<1>13. Pruning'
  BY <1>1 DEF CompInv, Pruning
<1>14. Doubled'
  <2> SUFFICES ASSUME NEW d \in Days, NEW f \in part'[d], NEW g \in part'[d], f.merged, g.id \in f.from
               PROVE  \/ d + Retention < today
                      \/ journal[d] # Missing /\ journal[d].target = f.id /\ g.id \in journal[d].sources
    BY <1>1 DEF Doubled, IsMergedFrom
  <2>1. f \in part[d]
    BY <1>3, <1>8
  <2>2. g \in part[d]
    BY <1>2, <1>3, <1>8, <1>9, <2>1
  <2> QED
    BY <2>1, <2>2 DEF CompInv, Doubled, IsMergedFrom
<1>15. Indexed'
  <2>1. \A d \in Days : \A m \in part'[d] : m.merged => m \in part[d]
    BY <1>3, <1>8
  <2>2. \A d \in Days : journal[d] # Missing /\ Landed(d) => Landed(d)'
    BY <1>1, <1>5 DEF Landed
  <2> QED
    BY <1>1, <2>1, <2>2 DEF CompInv, Indexed, EventsOf
<1> QED
  BY <1>7, <1>10, <1>11, <1>12, <1>13, <1>14, <1>15 DEF CompInv

(* The merged file is written under a name of its own, where nothing lists it. *)
LEMMA MergeDayComp == ASSUME CompInv, MergeDay PROVE CompInv'
<1> DEFINE c == mnt.d
           w == [id |-> clock, merged |-> TRUE, rows |-> mnt.rows, from |-> IdsOf(mnt.files)]
<1>1. /\ mnt.at = "merge" /\ c \in Days /\ mnt \in Maintaining /\ clock \in Nat
      /\ mnt.rows \in SUBSET AnyRow /\ IdsOf(mnt.files) \in SUBSET Nat
  BY DEF CompInv, Types, MergeDay, Working, Maintaining, IdsOf, File
<1>2. /\ writing' = [writing EXCEPT ![c] = w] /\ clock' = clock + 1 /\ mnt' = [mnt EXCEPT !.at = "journal"]
      /\ UNCHANGED <<part, journal, daily, rest>> /\ Quietly
  BY DEF MergeDay, IdsOf
<1>3. UNCHANGED <<today, ts, log, tail, ing, stored, faults>>
  BY <1>2 DEF Quietly
<1>4. w \in File /\ w.id = clock /\ w.merged /\ w.rows = mnt.rows /\ w.from = IdsOf(mnt.files)
  BY <1>1 DEF File
<1> HIDE DEF w
<1>5. writing' \in [Days -> File \cup {Missing}] /\ writing'[c] = w
  BY <1>1, <1>2, <1>4 DEF CompInv, Types
<1>6. /\ mnt' \in Maintaining /\ mnt'.at = "journal" /\ mnt'.d = c /\ mnt'.today = mnt.today
      /\ mnt'.rows = mnt.rows /\ mnt'.files = mnt.files
  BY <1>1, <1>2 DEF Maintaining, Working
<1>7. Types'
  <2>1. mnt'.at \in Working => mnt'.d \in Days
    BY <1>1, <1>6
  <2>2. clock' \in Nat /\ faults' \in Nat /\ stored' \subseteq stored
    BY <1>1, <1>2, <1>3 DEF CompInv, Types
  <2>3. /\ part' \in [Days -> SUBSET File] /\ (\A d \in Days : IsFiniteSet(part'[d]))
        /\ journal' \in [Days -> Journal \cup {Missing}]
        /\ daily' \in [Days -> (SUBSET Events) \cup {Missing}]
        /\ rest' \in [Days -> (SUBSET Events) \cup {Missing}]
    BY <1>2 DEF CompInv, Types
  <2> QED
    BY <1>3, <1>5, <1>6, <2>1, <2>2, <2>3, TypesKept DEF CompInv
<1>8. \A d \in Days : \A f \in part[d] : f.id < clock /\ (\A x \in f.from : x < clock) /\ f.id \in Nat /\ f.from \subseteq Nat
  BY DEF CompInv, Types, Named, File
<1>9. Named'
  <2>1. \A d \in Days : \A f \in part[d] : f.id < clock' /\ \A x \in f.from : x < clock'
    BY <1>1, <1>2, <1>8
  <2> QED
    BY <1>2, <2>1 DEF CompInv, Named
<1>10. Merging'
  <2>1. journal[c] = Missing
    BY <1>1 DEF CompInv, Merging
  <2>2. \A x \in IdsOf(mnt.files) : x < clock /\ x < clock'
    BY <1>1, <1>2 DEF CompInv, Merging
  <2>3. \A f \in part[c] : f.merged => f.id \in IdsOf(mnt.files)
    BY <1>1 DEF CompInv, Merging
  <2>4. w.id < clock' /\ w.id \notin w.from /\ \A f \in part[c] : f.id # w.id /\ w.id \notin f.from
    BY <1>1, <1>2, <1>4, <1>8, <2>2
  <2>5. NewFile(writing[mnt.d])'
    BY <1>2, <1>4, <1>5, <1>6, <2>4 DEF NewFile, IdsOf
  <2> QED
    BY <1>2, <1>6, <2>1, <2>2, <2>3, <2>5 DEF Merging, IdsOf
<1>11. Journaled'
  <2>1. \A d \in Days : journal[d] # Missing => journal[d].target \in Nat /\ journal[d].sources \subseteq Nat
    BY DEF CompInv, Types, Journal
  <2> QED
    BY <1>1, <1>2, <2>1 DEF CompInv, Journaled
<1>12. Pruning'
  BY <1>3, <1>6 DEF CompInv, Pruning
<1>13. Doubled'
  BY <1>2, <1>3 DEF CompInv, Doubled, IsMergedFrom
<1>14. Indexed'
  BY <1>1, <1>2, <1>3, <1>6 DEF CompInv, Indexed, EventsOf
<1> QED
  BY <1>7, <1>9, <1>10, <1>11, <1>12, <1>13, <1>14 DEF CompInv

LEMMA WriteJournalComp == ASSUME CompInv, WriteJournal PROVE CompInv'
<1> DEFINE c == mnt.d
           w == writing[mnt.d]
           j == [target |-> w.id, sources |-> w.from]
<1>1. /\ mnt.at = "journal" /\ c \in Days /\ mnt \in Maintaining /\ clock \in Nat
      /\ NewFile(w) /\ journal[c] = Missing
  BY DEF CompInv, Types, WriteJournal, Working, Merging
<1>2. /\ w \in File /\ w.id < clock /\ w.id \notin w.from /\ w.from = IdsOf(mnt.files)
      /\ \A x \in w.from : x < clock
  BY <1>1 DEF NewFile, CompInv, Merging
<1>3. journal' = [journal EXCEPT ![c] = j] /\ mnt' = [mnt EXCEPT !.at = "rename"]
  BY <1>2 DEF WriteJournal, IdsOf
<1>4. UNCHANGED <<part, writing, daily, rest, clock>> /\ UNCHANGED <<today, ts, log, tail, ing, stored, faults>>
  BY DEF WriteJournal, Quietly
<1>5. j \in Journal /\ j.target = w.id /\ j.sources = w.from
  BY <1>2 DEF Journal, File
<1> HIDE DEF j
<1>6. /\ journal' \in [Days -> Journal \cup {Missing}] /\ journal'[c] = j
      /\ \A d \in Days : d # c => journal'[d] = journal[d]
  BY <1>1, <1>3, <1>5 DEF CompInv, Types
<1>7. /\ mnt' \in Maintaining /\ mnt'.at = "rename" /\ mnt'.d = c /\ mnt'.today = mnt.today
      /\ mnt'.rows = mnt.rows /\ mnt'.files = mnt.files
  BY <1>1, <1>3 DEF Maintaining, Working
<1>8. Types'
  BY <1>1, <1>4, <1>6, <1>7, TypesKept DEF CompInv, Types
<1>9. Named'
  BY <1>4 DEF CompInv, Named
<1>10. Merging'
  <2>1. NewFile(w)'
    BY <1>1, <1>4, <1>7 DEF NewFile, IdsOf
  <2>2. /\ \A x \in IdsOf(mnt.files) : x < clock
        /\ \A f \in part[c] : f.merged => f.id \in IdsOf(mnt.files)
    BY <1>1 DEF CompInv, Merging
  <2>3. journal'[c] = [target |-> w.id, sources |-> w.from]
    BY <1>6 DEF j
  <2> QED
    BY <1>4, <1>7, <2>1, <2>2, <2>3 DEF Merging, IdsOf
<1>11. Journaled'
  BY <1>2, <1>4, <1>5, <1>6 DEF CompInv, Journaled
<1>12. Pruning'
  BY <1>4, <1>7 DEF CompInv, Pruning
<1>13. Doubled'
  <2> SUFFICES ASSUME NEW d \in Days, NEW f \in part[d], NEW g \in part[d], IsMergedFrom(f, g)
               PROVE  \/ d + Retention < today
                      \/ journal'[d] # Missing /\ journal'[d].target = f.id /\ g.id \in journal'[d].sources
    BY <1>4 DEF Doubled, IsMergedFrom
  <2>1. CASE d = c
    BY <1>1, <2>1 DEF CompInv, Doubled
  <2>2. CASE d # c
    BY <1>6, <2>2 DEF CompInv, Doubled
  <2> QED
    BY <2>1, <2>2
<1>14. Indexed'
  BY <1>1, <1>4, <1>7 DEF CompInv, Indexed, EventsOf
<1> QED
  BY <1>8, <1>9, <1>10, <1>11, <1>12, <1>13, <1>14 DEF CompInv

LEMMA RenameComp == ASSUME CompInv, Rename PROVE CompInv'
<1> DEFINE c == mnt.d
           w == writing[mnt.d]
<1>1. /\ mnt.at = "rename" /\ c \in Days /\ mnt \in Maintaining /\ clock \in Nat /\ NewFile(w)
      /\ journal[c] = [target |-> w.id, sources |-> w.from] /\ journal[c] # Missing
  <2>1. /\ mnt.at = "rename" /\ c \in Days /\ mnt \in Maintaining /\ clock \in Nat /\ NewFile(w)
        /\ journal[c] = [target |-> w.id, sources |-> w.from]
    BY DEF CompInv, Types, Rename, Working, Merging
  <2>2. [target |-> w.id, sources |-> w.from] \in Journal
    BY <2>1 DEF NewFile, File, Journal
  <2> QED
    BY <2>1, <2>2, ConstFact
<1>2. /\ w \in File /\ w.merged /\ w.rows = mnt.rows /\ w.id < clock /\ w.id \notin w.from /\ w.from = IdsOf(mnt.files)
      /\ \A f \in part[c] : f.id # w.id /\ w.id \notin f.from
      /\ \A x \in w.from : x < clock
      /\ \A f \in part[c] : f.merged => f.id \in w.from
  BY <1>1 DEF NewFile, CompInv, Merging
<1>3. /\ journal[c].target = w.id /\ journal[c].sources = w.from
  BY <1>1
<1>4. /\ part' = [part EXCEPT ![c] = @ \cup {w}] /\ writing' = [writing EXCEPT ![c] = Missing]
      /\ mnt' = [mnt EXCEPT !.at = "clean"]
  BY DEF Rename
<1>5. UNCHANGED <<journal, daily, rest, clock>> /\ UNCHANGED <<today, ts, log, tail, ing, stored, faults>>
  BY DEF Rename, Quietly
<1> HIDE DEF w
<1>6. /\ part' \in [Days -> SUBSET File] /\ part'[c] = part[c] \cup {w}
      /\ \A d \in Days : d # c => part'[d] = part[d]
      /\ writing' \in [Days -> File \cup {Missing}]
  BY <1>1, <1>2, <1>4 DEF CompInv, Types
<1>7. \A d \in Days : IsFiniteSet(part'[d])
  <2>1. IsFiniteSet(part[c] \cup {w})
    BY <1>1, FS_AddElement DEF CompInv, Types
  <2> QED
    BY <1>6, <2>1 DEF CompInv, Types
<1>8. /\ mnt' \in Maintaining /\ mnt'.at = "clean" /\ mnt'.d = c /\ mnt'.today = mnt.today
      /\ mnt'.rows = mnt.rows
  BY <1>1, <1>4 DEF Maintaining, Working
<1>9. Types'
  BY <1>1, <1>5, <1>6, <1>7, <1>8, TypesKept DEF CompInv, Types
<1>10. \A d \in Days : \A f \in part'[d] : f \in part[d] \/ (d = c /\ f = w)
  <2> SUFFICES ASSUME NEW d \in Days, NEW f \in part'[d], f \notin part[d] PROVE d = c /\ f = w
    OBVIOUS
  <2>1. d = c
    BY <1>6
  <2> QED
    BY <1>6, <2>1
<1>11. Named'
  BY <1>2, <1>5, <1>10 DEF CompInv, Named
<1>12. Merging' /\ Pruning'
  BY <1>5, <1>8 DEF CompInv, Merging, Pruning
<1>13. Journaled'
  BY <1>5 DEF CompInv, Journaled
<1>14. Doubled'
  <2> SUFFICES ASSUME NEW d \in Days, NEW f \in part'[d], NEW g \in part'[d], f.merged, g.id \in f.from
               PROVE  \/ d + Retention < today
                      \/ journal[d] # Missing /\ journal[d].target = f.id /\ g.id \in journal[d].sources
    BY <1>5 DEF Doubled, IsMergedFrom
  <2>1. CASE f \in part[d] /\ g \in part[d]
    BY <2>1 DEF CompInv, Doubled, IsMergedFrom
  <2>2. CASE d = c /\ f = w
    BY <1>1, <1>3, <2>2
  <2>3. CASE d = c /\ g = w /\ f \in part[d]
    BY <1>2, <2>3
  <2> QED
    BY <1>10, <2>1, <2>2, <2>3
<1>15. Indexed'
  <2> SUFFICES ASSUME faults = 0, NEW d \in Days, NEW m \in part'[d], m.merged
               PROVE  IF d = c
                      THEN \/ EventsOf(m.rows) = EventsOf(mnt.rows)
                           \/ /\ journal[d] # Missing /\ m.id \in journal[d].sources
                              /\ \E f \in part'[d] : f.id = journal[d].target
                      ELSE daily[d] = EventsOf(m.rows) /\ rest[d] = EventsOf(m.rows)
    BY <1>5, <1>8 DEF Indexed, EventsOf, Landed
  <2>1. \E f \in part'[c] : f.id = journal[c].target
    BY <1>3, <1>6
  <2>2. CASE d = c /\ m = w
    BY <1>2, <2>2
  <2>3. CASE d = c /\ m \in part[c]
    BY <1>1, <1>2, <1>3, <2>1, <2>3
  <2>4. CASE d # c
    BY <1>6, <2>4 DEF CompInv, Indexed
  <2> QED
    BY <1>10, <2>2, <2>3, <2>4
<1> QED
  BY <1>9, <1>11, <1>12, <1>13, <1>14, <1>15 DEF CompInv

LEMMA WriteDailyComp == ASSUME CompInv, WriteDaily PROVE CompInv'
<1> DEFINE c == mnt.d
<1>1. mnt.at = "daily" /\ c \in Days /\ mnt \in Maintaining /\ EventsOf(mnt.rows) \in SUBSET Events
  BY EventsTyped DEF CompInv, Types, WriteDaily, Working, Maintaining
<1>2. /\ daily' = [daily EXCEPT ![c] = EventsOf(mnt.rows)] /\ mnt' = [mnt EXCEPT !.at = "rest"]
      /\ UNCHANGED <<part, writing, journal, rest, clock>>
      /\ UNCHANGED <<today, ts, log, tail, ing, stored, faults>>
  BY DEF WriteDaily, Quietly
<1>3. /\ daily' \in [Days -> (SUBSET Events) \cup {Missing}] /\ daily'[c] = EventsOf(mnt.rows)
      /\ \A d \in Days : d # c => daily'[d] = daily[d]
  BY <1>1, <1>2 DEF CompInv, Types
<1>4. /\ mnt' \in Maintaining /\ mnt'.at = "rest" /\ mnt'.d = c /\ mnt'.today = mnt.today
      /\ mnt'.rows = mnt.rows
  BY <1>1, <1>2 DEF Maintaining, Working
<1>5. Types'
  BY <1>1, <1>2, <1>3, <1>4, TypesKept DEF CompInv, Types
<1>6. Named' /\ Journaled' /\ Doubled'
  BY <1>2 DEF CompInv, Named, Journaled, Doubled, IsMergedFrom
<1>7. Merging' /\ Pruning'
  BY <1>2, <1>4 DEF CompInv, Merging, Pruning
<1>8. Indexed'
  BY <1>1, <1>2, <1>3, <1>4 DEF CompInv, Indexed, EventsOf
<1> QED
  BY <1>5, <1>6, <1>7, <1>8 DEF CompInv

LEMMA WriteRestComp == ASSUME CompInv, WriteRest PROVE CompInv'
<1> DEFINE c == mnt.d
<1>1. mnt.at = "rest" /\ c \in Days /\ mnt \in Maintaining /\ EventsOf(mnt.rows) \in SUBSET Events
  BY EventsTyped DEF CompInv, Types, WriteRest, Working, Maintaining
<1>2. /\ rest' = [rest EXCEPT ![c] = EventsOf(mnt.rows)]
      /\ mnt' = [mnt EXCEPT !.at = "next", !.d = Missing, !.files = {}, !.rows = {}]
      /\ UNCHANGED <<part, writing, journal, daily, clock>>
      /\ UNCHANGED <<today, ts, log, tail, ing, stored, faults>>
  BY DEF WriteRest, Quietly
<1>3. /\ rest' \in [Days -> (SUBSET Events) \cup {Missing}] /\ rest'[c] = EventsOf(mnt.rows)
      /\ \A d \in Days : d # c => rest'[d] = rest[d]
  BY <1>1, <1>2 DEF CompInv, Types
<1>4. mnt' \in Maintaining /\ mnt'.at = "next" /\ mnt'.today = mnt.today
  BY <1>1, <1>2 DEF Maintaining, Working
<1>5. Types'
  BY <1>2, <1>3, <1>4, TypesKept DEF CompInv, Types, Working
<1>6. Named' /\ Journaled' /\ Doubled'
  BY <1>2 DEF CompInv, Named, Journaled, Doubled, IsMergedFrom
<1>7. Merging' /\ Pruning'
  BY <1>2, <1>4 DEF CompInv, Merging, Pruning
<1>8. Indexed'
  BY <1>1, <1>2, <1>3, <1>4 DEF CompInv, Indexed, EventsOf
<1> QED
  BY <1>5, <1>6, <1>7, <1>8 DEF CompInv

-----------------------------------------------------------------------------
(* Compaction: failures, and the theorem.                                      *)

LEMMA DayFailsComp == ASSUME CompInv, DayFails PROVE CompInv'
<1>1. /\ mnt \in Maintaining /\ faults \in Nat /\ mnt.d \in Days
      /\ faults' = faults + 1
      /\ mnt' = [mnt EXCEPT !.at = "next", !.d = Missing, !.files = {}, !.rows = {}]
      /\ UNCHANGED <<today, ts, log, tail, part, journal, daily, rest, clock, ing, stored>>
  BY DEF DayFails, CompInv, Types, Maintaining
<1>2. writing' \in [Days -> File \cup {Missing}]
  BY <1>1 DEF DayFails, CompInv, Types
<1>3. mnt' \in Maintaining /\ mnt'.at = "next" /\ mnt'.today = mnt.today
  BY <1>1 DEF Maintaining, Working
<1>4. Types'
  BY <1>1, <1>2, <1>3, TypesKept DEF CompInv, Types, Working
<1>5. Named' /\ Journaled' /\ Doubled'
  BY <1>1 DEF CompInv, Named, Journaled, Doubled, IsMergedFrom
<1>6. Merging' /\ Pruning' /\ Indexed'
  BY <1>1, <1>3 DEF CompInv, Merging, Pruning, Indexed
<1> QED
  BY <1>4, <1>5, <1>6 DEF CompInv

LEMMA CrashComp == ASSUME CompInv, Crash PROVE CompInv'
<1>1. /\ faults \in Nat /\ faults' = faults + 1 /\ mnt' = NoMaintain /\ ing' = NoIngest
      /\ UNCHANGED <<today, ts, log, tail, part, writing, journal, daily, rest, clock, stored>>
  BY DEF Crash, disk, CompInv, Types
<1>2. Types'
  BY <1>1, NoneFact DEF CompInv, Types, Working
<1>3. Named' /\ Journaled' /\ Doubled'
  BY <1>1 DEF CompInv, Named, Journaled, Doubled, IsMergedFrom
<1>4. Merging' /\ Pruning' /\ Indexed'
  BY <1>1, NoneFact DEF CompInv, Types, Merging, Pruning, Indexed
<1> QED
  BY <1>2, <1>3, <1>4 DEF CompInv

(* Every step keeps the invariant.                                             *)
LEMMA CompNext == CompInv /\ [EvNext]_evVars => CompInv'
<1> SUFFICES ASSUME CompInv, [EvNext]_evVars PROVE CompInv'
  OBVIOUS
<1>1. CASE \/ \E e \in Events, d \in Days : RecordEvent(e, d)
           \/ \E how \in Rewrites : Rewrite(how)
           \/ Tomorrow \/ UNCHANGED evVars
  BY <1>1, AppComp
<1>2. CASE Ingest
  BY <1>2, IngestComp, AppendDayComp DEF Ingest
<1>3. CASE MaintainDays
  <2>1. CASE Recover
    BY <2>1, RemoveSourceComp, RemoveJournalComp, RecoveredComp DEF Recover
  <2>2. CASE \E d \in Days : PruneFile(d) \/ Pruned(d)
    BY <2>2, PruneFileComp, PrunedComp
  <2> QED
    BY <1>3, <2>1, <2>2, BeginComp, NextDayComp, ListComp, MergeDayComp, WriteJournalComp, RenameComp,
       WriteDailyComp, WriteRestComp, PruneComp, EndComp DEF MaintainDays
<1>4. CASE IngestFails \/ DayFails \/ Crash
  BY <1>4, IngestComp, DayFailsComp, CrashComp
<1> QED
  BY <1>1, <1>2, <1>3, <1>4 DEF EvNext

LEMMA CompImplies == CompInv => CompactionSound
<1> SUFFICES ASSUME CompInv PROVE CompactionSound
  OBVIOUS
<1>1. JournalCoversDoubles
  BY DEF CompInv, Doubled, JournalCoversDoubles
<1>2. IndexExact
  <2> SUFFICES ASSUME NEW d \in Days, faults = 0, Compact(d), mnt.d # d
               PROVE  daily[d] = EventsOf(RowsOf(part[d])) /\ rest[d] = daily[d]
    BY DEF IndexExact
  <2>1. PICK m \in part[d] : part[d] = {m} /\ m.merged
    BY CompactDay DEF CompInv
  <2>2. RowsOf(part[d]) = m.rows
    BY <2>1 DEF RowsOf
  <2>3. daily[d] = EventsOf(m.rows) /\ rest[d] = EventsOf(m.rows)
    BY <2>1 DEF CompInv, Indexed
  <2> QED
    BY <2>2, <2>3
<1> QED
  BY <1>1, <1>2 DEF CompactionSound

(* Whatever the app does to its file and whatever fails, a merged file is next *)
(* to one it was merged from only while a journal is there to finish the job   *)
(* or the whole day is past retention; and without a failure a compacted day's *)
(* indexes count the events of its file (Partition.compact, recover).          *)
THEOREM CompactionIsSound == EvSpec => []CompactionSound
<1>1. EvInit => CompInv
  BY EvInitComp
<1>2. CompInv /\ [EvNext]_evVars => CompInv'
  BY CompNext
<1>3. CompInv => CompactionSound
  BY CompImplies
<1> QED
  BY <1>1, <1>2, <1>3, PTL DEF EvSpec

-----------------------------------------------------------------------------
(* What a reader sees of a day: every event that is in one of its files.       *)

Less == {ss \in Nat \X Nat : ss[1] < ss[2]}

LEMMA LessFact == IsWellFoundedOn(Less, Nat)
BY NatLessThanWellFounded DEF OpToRel, Less

LEMMA SmallestOf ==
    ASSUME NEW S, S \subseteq Nat, S # {}
    PROVE  \E x \in S : \A y \in S : x <= y
<1>1. \E x \in S : \A y \in S : ~(<<y, x>> \in Less)
  BY LessFact, WFMin, Zenon
<1>2. ASSUME NEW x \in Nat, NEW y \in Nat, ~(<<y, x>> \in Less)
      PROVE  x <= y
  <2>1. <<y, x>> \in Nat \X Nat /\ <<y, x>>[1] = y /\ <<y, x>>[2] = x
    OBVIOUS
  <2>2. ~(y < x)
    BY <1>2, <2>1 DEF Less
  <2> QED
    BY <2>2
<1> QED
  BY <1>1, <1>2

LEMMA OldestOf ==
    ASSUME NEW H \in SUBSET File, H # {}
    PROVE  \E f \in H : \A g \in H : f.id <= g.id
<1>1. IdsOf(H) \subseteq Nat /\ IdsOf(H) # {}
  BY DEF IdsOf, File
<1>2. PICK x \in IdsOf(H) : \A y \in IdsOf(H) : x <= y
  BY <1>1, SmallestOf
<1> QED
  BY <1>2 DEF IdsOf

(* Of files with names of their own, one is read first.                        *)
LEMMA FirstOf ==
    ASSUME NEW H \in SUBSET File, H # {}, \A f, g \in H : f.id = g.id => f = g
    PROVE  \E f \in H : \A g \in H : g = f \/ Before(f, g)
<1> DEFINE U == {f \in H : ~f.merged}
<1>1. \A f \in H : f.id \in Nat /\ f.merged \in BOOLEAN
  BY DEF File
<1>2. CASE U # {}
  <2>1. PICK f \in U : \A g \in U : f.id <= g.id
    BY <1>2, OldestOf
  <2>2. ASSUME NEW g \in H, g # f PROVE Before(f, g)
    <3>1. CASE g.merged
      BY <2>1, <3>1 DEF Before
    <3>2. CASE ~g.merged
      <4>1. f.id <= g.id /\ f.id # g.id
        BY <2>1, <2>2, <3>2
      <4> QED
        BY <1>1, <2>1, <3>2, <4>1 DEF Before
    <3> QED
      BY <3>1, <3>2
  <2> QED
    BY <2>1, <2>2
<1>3. CASE U = {}
  <2>1. PICK f \in H : \A g \in H : f.id <= g.id
    BY OldestOf
  <2>2. ASSUME NEW g \in H, g # f PROVE Before(f, g)
    <3>1. f.merged /\ g.merged /\ f.id <= g.id /\ f.id # g.id
      BY <1>3, <2>1, <2>2
    <3> QED
      BY <1>1, <3>1 DEF Before
  <2> QED
    BY <2>1, <2>2
<1> QED
  BY <1>2, <1>3

(* Rows that agree on a line agree on its event, so Dedupe drops no event.     *)
LEMMA DedupeFact ==
    ASSUME Types, Named, Placed, NEW d \in Days
    PROVE  EventsOf(Dedupe(part[d])) = EventsOf(RowsOf(part[d]))
<1>1. \A f \in part[d] : f.rows \subseteq AllRows
  BY DEF AllRows, RowsOf
<1>2. ASSUME NEW r \in RowsOf(part[d]) PROVE r \in Dedupe(part[d])
  <2> DEFINE H == {f \in part[d] : r \in f.rows}
  <2>1. H \in SUBSET File /\ H # {} /\ \A f, g \in H : f.id = g.id => f = g
    BY <1>2 DEF RowsOf, Types, Named
  <2>2. PICK f \in H : \A g \in H : g = f \/ Before(f, g)
    BY <2>1, FirstOf
  <2>3. \A g \in part[d] : \A q \in g.rows : q.eid = r.eid => g \in H
    BY <1>1, <2>2 DEF Placed
  <2> QED
    BY <1>2, <2>2, <2>3 DEF Dedupe
<1>3. Dedupe(part[d]) = RowsOf(part[d])
  BY <1>2, RowsTyped
<1> QED
  BY <1>3

-----------------------------------------------------------------------------
(* Nothing is lost: what the steps have in common.                             *)

Holds(d) == EventsOf(RowsOf(part[d]))
Merges == {"merge", "journal", "rename"}

LEMMA HoldsFact ==
    \A d, e : e \in Holds(d) <=> \E f \in part[d] : \E r \in f.rows : r.e = e
BY DEF Holds, EventsOf, RowsOf

LEMMA RowsIn ==
    /\ ing.batch \subseteq AllRows /\ mnt.rows \subseteq AllRows
    /\ \A d \in Days : \A f \in part[d] : f.rows \subseteq AllRows
BY DEF AllRows, RowsOf

(* A day is one of the days there are once its event is recorded.              *)
LEMMA DayFact ==
    ASSUME Types, Dated
    PROVE  /\ \A r \in ing.batch : ts[r.e] \in Days
           /\ \A e \in stored : ts[e] \in Days
<1>1. ts \in [Events -> 0 .. LastDay] /\ stored \subseteq Events /\ \A r \in ing.batch : r.e \in Events
  BY DEF Types, Ingesting, AnyRow
<1>2. \A e \in Events : ts[e] # 0 => ts[e] \in Days
  BY <1>1, ConstFact DEF Days
<1> QED
  BY <1>1, <1>2 DEF Dated

(* A step that adds no row and takes none a reader is owed.                    *)
LEMMA DiskStep ==
    ASSUME KeepInv, UNCHANGED <<today, ts, log>>,
           ing'.batch \subseteq ing.batch, ing'.rows \subseteq ing'.batch,
           ing'.batch \ ing'.rows \subseteq ing.batch \ ing.rows,
           mnt'.rows \subseteq AllRows, \A d \in Days : \A f \in part'[d] : f.rows \subseteq AllRows,
           stored' \subseteq stored,
           \A d \in Days : d + Retention >= today => Holds(d) \subseteq Holds(d)',
           \A e \in stored' : Holds(ts[e]) \subseteq Holds(ts[e])'
    PROVE  Placed' /\ Dated' /\ Written' /\ Kept'
<1>1. Types /\ Placed /\ Dated /\ Written /\ Kept
  BY DEF KeepInv, CompInv
<1>2. AllRows' \subseteq AllRows
  BY RowsIn DEF AllRows, RowsOf
<1>3. Placed'
  BY <1>1, <1>2 DEF Placed
<1>4. Dated'
  BY <1>1 DEF Dated
<1>5. Written'
  <2> SUFFICES ASSUME NEW r \in ing.batch \ ing.rows, ts[r.e] + Retention >= today
               PROVE  r.e \in Holds(ts[r.e])'
    BY DEF Written, Holds, EventsOf, RowsOf
  <2>1. ts[r.e] \in Days
    BY <1>1, DayFact
  <2>2. r.e \in Holds(ts[r.e])
    BY <1>1 DEF Written, Holds
  <2> QED
    BY <2>1, <2>2
<1>6. Kept'
  <2> SUFFICES ASSUME NEW e \in stored' PROVE e \in Holds(ts[e])'
    BY DEF Kept, Holds, EventsOf, RowsOf
  <2>1. e \in Holds(ts[e])
    BY <1>1 DEF Kept, Holds
  <2> QED
    BY <2>1
<1> QED
  BY <1>3, <1>4, <1>5, <1>6

(* A compaction that goes on goes on with what it listed.                      *)
Carried == mnt'.at \in Merges =>
    mnt.at \in Merges /\ mnt'.d = mnt.d /\ mnt'.files = mnt.files /\ mnt'.rows = mnt.rows

LEMMA CoveredStep ==
    ASSUME KeepInv, \A d \in Days : part'[d] \subseteq part[d],
           \A d \in Days : journal'[d] = Missing \/ journal'[d] = journal[d], Carried,
           mnt'.at \in Merges => mnt'.d \in Days
    PROVE  Covered'
<1>1. mnt'.at \in Merges =>
        \A f \in part'[mnt'.d] : f.id \in IdsOf(mnt'.files) => EventsOf(f.rows) \subseteq EventsOf(mnt'.rows)
  BY DEF Merges, Carried, KeepInv, Covered
<1>2. \A d \in Days : journal'[d] # Missing =>
        \A t, f \in part'[d] : t.id = journal'[d].target /\ f.id \in journal'[d].sources =>
          EventsOf(f.rows) \subseteq EventsOf(t.rows)
  BY DEF KeepInv, Covered
<1> QED
  BY <1>1, <1>2 DEF Covered, Merges, IdsOf, EventsOf

(* A step that leaves the files of every day alone.                            *)
LEMMA QuietKeep ==
    ASSUME KeepInv, CompInv', UNCHANGED <<today, ts, log, part>>, stored' \subseteq stored,
           ing' = ing \/ ing' = NoIngest, mnt'.rows = mnt.rows \/ mnt'.rows = {},
           \A d \in Days : journal'[d] = Missing \/ journal'[d] = journal[d], Carried
    PROVE  KeepInv'
<1>1. /\ ing'.batch \subseteq ing.batch /\ ing'.rows \subseteq ing'.batch
      /\ ing'.batch \ ing'.rows \subseteq ing.batch \ ing.rows
  BY NoneFact DEF KeepInv, Written
<1>2. mnt'.rows \subseteq AllRows /\ \A d \in Days : \A f \in part'[d] : f.rows \subseteq AllRows
  BY RowsIn
<1>3. \A d : Holds(d)' = Holds(d)
  BY DEF Holds, RowsOf, EventsOf
<1>4. Placed' /\ Dated' /\ Written' /\ Kept'
  BY <1>1, <1>2, <1>3, DiskStep
<1>5. mnt'.at \in Merges => mnt'.d \in Days
  BY DEF CompInv, Types, Merges, Working
<1>6. Covered'
  BY <1>5, CoveredStep
<1> QED
  BY <1>4, <1>6 DEF KeepInv

-----------------------------------------------------------------------------
(* Nothing is lost: the app and the steps that leave the files alone.          *)

LEMMA QuietSteps ==
    ASSUME KeepInv, CompInv',
           \/ ReadNothing \/ IngestFails \/ DayFails \/ Crash
           \/ Begin \/ NextDay \/ MergeDay \/ WriteDaily \/ WriteRest \/ Prune \/ End
           \/ \E d \in Days : Pruned(d)
           \/ Recover /\ (RemoveJournal(mnt.d) \/ Recovered(mnt.d))
    PROVE  KeepInv'
<1>1. mnt \in Maintaining
  BY DEF KeepInv, CompInv, Types
<1>2. CASE ReadNothing \/ IngestFails
  BY <1>2, QuietKeep DEF ReadNothing, IngestFails, disk, Carried
<1>3. CASE DayFails
  <2>1. mnt'.at = "next" /\ mnt'.rows = {}
    BY <1>1, <1>3 DEF DayFails, Maintaining
  <2> QED
    BY <1>3, <2>1, QuietKeep DEF DayFails, Carried, Merges
<1>4. CASE Crash
  BY <1>4, NoneFact, QuietKeep DEF Crash, disk, Carried, Merges
<1>5. CASE Begin
  <2>1. mnt'.at = "next" /\ mnt'.rows = {}
    BY <1>5 DEF Begin, NoMaintain
  <2> QED
    BY <1>5, <2>1, QuietKeep DEF Begin, Quietly, Carried, Merges
<1>6. CASE NextDay
  <2>1. mnt'.at = "recover" /\ mnt'.rows = mnt.rows
    BY <1>1, <1>6 DEF NextDay, Maintaining
  <2> QED
    BY <1>6, <2>1, QuietKeep DEF NextDay, Quietly, Carried, Merges
<1>7. CASE MergeDay
  <2>1. mnt.at = "merge" /\ mnt'.d = mnt.d /\ mnt'.files = mnt.files /\ mnt'.rows = mnt.rows
    BY <1>1, <1>7 DEF MergeDay, Maintaining
  <2> QED
    BY <1>7, <2>1, QuietKeep DEF MergeDay, Quietly, Carried, Merges
<1>8. CASE WriteDaily
  <2>1. mnt'.at = "rest" /\ mnt'.rows = mnt.rows
    BY <1>1, <1>8 DEF WriteDaily, Maintaining
  <2> QED
    BY <1>8, <2>1, QuietKeep DEF WriteDaily, Quietly, Carried, Merges
<1>9. CASE WriteRest
  <2>1. mnt'.at = "next" /\ mnt'.rows = {}
    BY <1>1, <1>9 DEF WriteRest, Maintaining
  <2> QED
    BY <1>9, <2>1, QuietKeep DEF WriteRest, Quietly, Carried, Merges
<1>10. CASE Prune
  <2>1. mnt'.at = "prune" /\ mnt'.rows = mnt.rows
    BY <1>1, <1>10 DEF Prune, Maintaining
  <2> QED
    BY <1>10, <2>1, QuietKeep DEF Prune, Quietly, Carried, Merges
<1>11. CASE End
  BY <1>11, NoneFact, QuietKeep DEF End, Quietly, Carried, Merges
<1>12. CASE \E d \in Days : Pruned(d)
  <2>1. mnt.at = "prune" /\ mnt'.at = "prune" /\ mnt'.rows = mnt.rows
    BY <1>1, <1>12 DEF Pruned, Maintaining
  <2> QED
    BY <1>12, <2>1, QuietKeep DEF Pruned, Quietly, Carried, Merges
<1>13. CASE Recover /\ RemoveJournal(mnt.d)
  <2>1. /\ journal' = [journal EXCEPT ![mnt.d] = Missing]
        /\ UNCHANGED <<today, ts, log, part, stored, ing, mnt>>
    BY <1>13 DEF Recover, RemoveJournal, Quietly
  <2>2. \A d \in Days : journal'[d] = Missing \/ journal'[d] = journal[d]
    BY <2>1 DEF KeepInv, CompInv, Types
  <2> QED
    BY <2>1, <2>2, QuietKeep DEF Carried
<1>14. CASE Recover /\ Recovered(mnt.d)
  <2>1. mnt'.at \in {"list", "daily"} /\ mnt'.rows = mnt.rows
    BY <1>1, <1>14 DEF Recover, Recovered, Maintaining
  <2> QED
    BY <1>14, <2>1, QuietKeep DEF Recover, Recovered, Quietly, Carried, Merges
<1> QED
  BY <1>2, <1>3, <1>4, <1>5, <1>6, <1>7, <1>8, <1>9, <1>10, <1>11, <1>12, <1>13, <1>14

(* The app's steps leave what is on disk and in memory alone.                  *)
LEMMA AppKeep ==
    ASSUME KeepInv, UNCHANGED <<part, journal, ing, mnt, stored>>
    PROVE  Covered' /\ AllRows' = AllRows /\ \A d : Holds(d)' = Holds(d)
<1>1. Covered'
  BY DEF KeepInv, Covered, IdsOf, EventsOf
<1> QED
  BY <1>1 DEF AllRows, RowsOf, Holds, EventsOf

LEMMA RecordEventKeep ==
    ASSUME KeepInv, CompInv', NEW e \in Events, NEW c \in Days, RecordEvent(e, c)
    PROVE  KeepInv'
<1>1. /\ Types /\ Placed /\ Dated /\ Written /\ Kept
      /\ log.lines \in Seq(Events) /\ Len(log.lines) \in Nat /\ log \in [ino : Nat, lines : Seq(Events)]
      /\ ts \in [Events -> 0 .. LastDay] /\ stored \subseteq Events
      /\ \A r \in ing.batch : r.e \in Events
  <2>1. Types /\ Placed /\ Dated /\ Written /\ Kept
    BY DEF KeepInv, CompInv
  <2>2. log \in [ino : Nat, lines : Seq(Events)] /\ ts \in [Events -> 0 .. LastDay] /\ stored \subseteq Events
    BY <2>1 DEF Types
  <2>3. log.lines \in Seq(Events) /\ Len(log.lines) \in Nat
    BY <2>2
  <2>4. \A r \in ing.batch : r.e \in Events
    BY <2>1 DEF Types, Ingesting, AnyRow
  <2> QED
    BY <2>1, <2>2, <2>3, <2>4
<1>2. /\ ts[e] = 0 /\ ts' = [ts EXCEPT ![e] = c] /\ c # 0
      /\ log' = [log EXCEPT !.lines = Append(log.lines, e)]
      /\ UNCHANGED <<today, part, journal, ing, mnt, stored>>
  BY ConstFact DEF RecordEvent, disk, Days
<1>3. Covered' /\ AllRows' = AllRows /\ \A d : Holds(d)' = Holds(d)
  BY <1>2, AppKeep
<1>4. /\ log'.ino = log.ino /\ log'.lines = Append(log.lines, e)
      /\ Len(log'.lines) = Len(log.lines) + 1 /\ log'.lines[Len(log.lines) + 1] = e
      /\ \A i \in 1 .. Len(log.lines) : log'.lines[i] = log.lines[i] /\ log.lines[i] \in Events
      /\ \A i \in 1 .. Len(log'.lines) : i \in 1 .. Len(log.lines) \/ i = Len(log.lines) + 1
  <2>1. log'.ino = log.ino /\ log'.lines = Append(log.lines, e)
    BY <1>1, <1>2
  <2>2. /\ Len(Append(log.lines, e)) = Len(log.lines) + 1
        /\ Append(log.lines, e)[Len(log.lines) + 1] = e
    BY <1>1
  <2>3. \A i \in 1 .. Len(log.lines) : Append(log.lines, e)[i] = log.lines[i] /\ log.lines[i] \in Events
    BY <1>1
  <2>4. \A i \in 1 .. Len(log.lines) + 1 : i \in 1 .. Len(log.lines) \/ i = Len(log.lines) + 1
    BY <1>1
  <2> QED
    BY <2>1, <2>2, <2>3, <2>4
<1>5. \A x \in Events : ts[x] # 0 => ts'[x] = ts[x] /\ ts'[x] # 0
  BY <1>1, <1>2
<1>6. ts'[e] # 0
  BY <1>1, <1>2
<1>7. Placed'
  <2>1. \A i \in 1 .. Len(log.lines) : i \in 1 .. Len(log'.lines)
    BY <1>1, <1>4
  <2> QED
    BY <1>1, <1>3, <1>4, <2>1 DEF Placed
<1>8. Dated'
  BY <1>1, <1>2, <1>4, <1>5, <1>6 DEF Dated
<1>9. Written'
  <2> SUFFICES ASSUME NEW r \in ing.batch \ ing.rows, ts'[r.e] + Retention >= today
               PROVE  r.e \in Holds(ts[r.e])'
    BY <1>1, <1>2 DEF Written, Holds, EventsOf, RowsOf
  <2>1. ts'[r.e] = ts[r.e]
    BY <1>1, <1>5 DEF Dated
  <2>2. r.e \in Holds(ts[r.e])
    BY <1>1, <2>1 DEF Written, Holds
  <2> QED
    BY <1>3, <2>1, <2>2
<1>10. Kept'
  <2> SUFFICES ASSUME NEW x \in stored PROVE x \in Holds(ts[x])'
    BY <1>2 DEF Kept, Holds, EventsOf, RowsOf
  <2>1. ts'[x] = ts[x]
    BY <1>1, <1>5 DEF Dated
  <2>2. x \in Holds(ts[x])
    BY <1>1 DEF Kept, Holds
  <2> QED
    BY <1>3, <2>1, <2>2
<1> QED
  BY <1>3, <1>7, <1>8, <1>9, <1>10 DEF KeepInv

LEMMA RewriteKeep ==
    ASSUME KeepInv, CompInv', Replaced, NEW how \in Rewrites, Rewrite(how)
    PROVE  KeepInv'
<1>1. Types /\ Placed /\ Dated /\ Written /\ Kept /\ log.ino \in Nat
  BY DEF KeepInv, CompInv, Types
<1>2. /\ log' = [ino |-> log.ino + 1, lines |-> <<>>]
      /\ UNCHANGED <<today, ts, part, journal, ing, mnt, stored>>
  BY DEF Rewrite, Replaced, disk
<1>3. Covered' /\ AllRows' = AllRows /\ \A d : Holds(d)' = Holds(d)
  BY <1>2, AppKeep
<1>4. log'.ino = log.ino + 1 /\ Len(log'.lines) = 0
  BY <1>2
<1>5. \A r \in AllRows : r.eid[1] \in Nat
  BY <1>1 DEF Types, AllRows, RowsOf, File, Ingesting, Maintaining, AnyRow
<1>6. Placed'
  BY <1>1, <1>3, <1>4, <1>5 DEF Placed
<1>7. Dated'
  BY <1>1, <1>2, <1>4 DEF Dated
<1>8. Written' /\ Kept'
  BY <1>1, <1>2 DEF Written, Kept, EventsOf, RowsOf
<1> QED
  BY <1>3, <1>6, <1>7, <1>8 DEF KeepInv

LEMMA TomorrowKeep ==
    ASSUME KeepInv, CompInv', Tomorrow \/ UNCHANGED evVars
    PROVE  KeepInv'
<1>1. Types /\ Placed /\ Dated /\ Written /\ Kept
  BY DEF KeepInv, CompInv
<1>2. /\ UNCHANGED <<ts, log, part, journal, ing, mnt, stored>>
      /\ today \in Nat /\ today' \in Nat /\ today <= today'
  BY DEF Tomorrow, evVars, disk, KeepInv, CompInv, Types
<1>3. Covered' /\ AllRows' = AllRows /\ \A d : Holds(d)' = Holds(d)
  BY <1>2, AppKeep
<1>4. Placed' /\ Dated' /\ Kept'
  BY <1>1, <1>2, <1>3 DEF Placed, Dated, Kept, EventsOf, RowsOf
<1>5. Written'
  <2>1. \A r \in ing.batch : ts[r.e] \in Nat
    BY <1>1, DayFact, ConstFact
  <2>2. \A r \in ing.batch \ ing.rows : ts[r.e] + Retention >= today' => ts[r.e] + Retention >= today
    BY <1>2, <2>1, ConstFact
  <2> QED
    BY <1>1, <1>2, <2>2 DEF Written, EventsOf, RowsOf
<1> QED
  BY <1>3, <1>4, <1>5 DEF KeepInv

-----------------------------------------------------------------------------
(* Nothing is lost: ingest.                                                    *)

LEMMA ReadKeep == ASSUME KeepInv, CompInv', Read PROVE KeepInv'
<1>1. /\ Types /\ Placed /\ Dated /\ Written /\ Kept /\ Types'
      /\ log.ino \in Nat /\ log.lines \in Seq(Events) /\ Len(log.lines) \in Nat
  BY DEF KeepInv, CompInv, Types
<1>2. PICK next \in Nat, rows \in SUBSET AnyRow :
        /\ \A r \in rows : \E k \in 1 .. Len(log.lines) : r = Row(log.lines[k], log.ino, k)
        /\ ing' = [at |-> "append", batch |-> rows, rows |-> rows, ino |-> log.ino, next |-> next]
  BY <1>1, ReadFact
<1>3. UNCHANGED <<today, ts, log, part, journal, mnt, stored>>
  BY DEF Read, disk
<1>4. ing'.batch = rows /\ ing'.rows = rows
  BY <1>2
<1>5. \A r \in rows : /\ r.eid[1] = log.ino /\ r.eid[2] \in 1 .. Len(log.lines)
                      /\ log.lines[r.eid[2]] = r.e
  <2> SUFFICES ASSUME NEW r \in rows
               PROVE  /\ r.eid[1] = log.ino /\ r.eid[2] \in 1 .. Len(log.lines)
                      /\ log.lines[r.eid[2]] = r.e
    OBVIOUS
  <2>1. PICK k \in 1 .. Len(log.lines) : r = Row(log.lines[k], log.ino, k)
    BY <1>2
  <2>2. log.lines[k] \in Events /\ k \in Nat
    BY <1>1
  <2> QED
    BY <1>1, <2>1, <2>2, RowFact
<1>6. \A r \in AllRows' : r \in rows \/ r \in AllRows
  BY <1>3, <1>4 DEF AllRows, RowsOf
<1>7. \A r \in rows \cup AllRows : r \in AnyRow
  BY <1>1, SMTT(30) DEF Types, AllRows, RowsOf, File, Ingesting, Maintaining
<1>8. \A r, q \in AnyRow : r.eid = q.eid /\ r.e = q.e => r = q
  BY DEF AnyRow
<1>9. Placed'
  <2>1. \A r \in AllRows' :
          /\ r.eid[1] <= log.ino
          /\ r.eid[1] = log.ino => r.eid[2] \in 1 .. Len(log.lines) /\ log.lines[r.eid[2]] = r.e
    BY <1>1, <1>5, <1>6 DEF Placed
  <2>2. ASSUME NEW r \in AllRows', NEW q \in AllRows', r.eid = q.eid PROVE r = q
    <3>1. CASE r \in AllRows /\ q \in AllRows
      BY <1>1, <2>2, <3>1 DEF Placed
    <3>2. CASE r \in rows \/ q \in rows
      <4>1. r.eid[1] = log.ino /\ q.eid[1] = log.ino
        BY <1>5, <2>2, <3>2
      <4>2. r.e = q.e
        BY <2>1, <2>2, <4>1
      <4> QED
        BY <1>6, <1>7, <1>8, <2>2, <4>2
    <3> QED
      BY <1>6, <3>1, <3>2
  <2> QED
    BY <1>3, <2>1, <2>2 DEF Placed
<1>10. Dated'
  BY <1>1, <1>3, <1>4, <1>5 DEF Dated
<1>11. Written'
  BY <1>4 DEF Written
<1>12. Covered' /\ Kept'
  BY <1>1, <1>3 DEF KeepInv, Covered, Kept, IdsOf, EventsOf, RowsOf
<1> QED
  BY <1>9, <1>10, <1>11, <1>12 DEF KeepInv

LEMMA AppendDayKeep == ASSUME KeepInv, CompInv', NEW c \in Days, AppendDay(c) PROVE KeepInv'
<1> DEFINE rows == {r \in ing.rows : ts[r.e] = c}
           n == [id |-> clock, merged |-> FALSE, rows |-> rows, from |-> {}]
<1>1. /\ part' = [part EXCEPT ![c] = @ \cup {n}]
      /\ ing' = [ing EXCEPT !.rows = @ \ rows]
      /\ UNCHANGED <<today, ts, log, journal, mnt, stored>>
  BY DEF AppendDay
<1>2. /\ Types /\ Placed /\ Dated /\ Written /\ Kept /\ Covered /\ CompInv /\ clock \in Nat /\ ing \in Ingesting
  BY DEF KeepInv, CompInv, Types
<1>3. n.id = clock /\ n.rows = rows /\ rows \subseteq ing.rows /\ \A r \in ing.rows : ts[r.e] = c => r \in rows
  OBVIOUS
<1> HIDE DEF n, rows
<1>4. ing'.batch = ing.batch /\ ing'.rows = ing.rows \ rows
  BY <1>1, <1>2 DEF Ingesting
<1>5. /\ part'[c] = part[c] \cup {n}
      /\ \A d \in Days : part[d] \subseteq part'[d] /\ (d # c => part'[d] = part[d])
  BY <1>1, <1>2 DEF Types
<1>6. \A d \in Days : \A f \in part'[d] : f \in part[d] \/ (d = c /\ f = n)
  <2> SUFFICES ASSUME NEW d \in Days, NEW f \in part'[d], f \notin part[d] PROVE d = c /\ f = n
    OBVIOUS
  <2>1. d = c
    BY <1>5
  <2> QED
    BY <1>5, <2>1
<1>7. AllRows' \subseteq AllRows
  <2>1. ing.rows \subseteq ing.batch
    BY <1>2 DEF Written
  <2>2. \A d \in Days : \A f \in part'[d] : f.rows \subseteq AllRows
    BY <1>3, <1>6, <2>1, RowsIn
  <2> QED
    BY <1>1, <1>4, <2>2, RowsIn DEF AllRows, RowsOf
<1>8. Placed' /\ Dated'
  BY <1>1, <1>2, <1>4, <1>7 DEF Placed, Dated
<1>9. \A d \in Days : Holds(d) \subseteq Holds(d)'
  BY <1>5, HoldsFact DEF Holds, EventsOf, RowsOf
<1>10. \A r \in rows : r.e \in Holds(c)'
  BY <1>3, <1>5 DEF Holds, EventsOf, RowsOf
<1>11. Written'
  <2> SUFFICES ASSUME NEW r \in ing.batch, r \notin ing.rows \ rows, ts[r.e] + Retention >= today
               PROVE  r.e \in Holds(ts[r.e])'
    BY <1>1, <1>2, <1>4 DEF Written, Holds, EventsOf, RowsOf
  <2>1. CASE r \in rows
    BY <1>1, <1>10, <2>1 DEF rows, Holds
  <2>2. CASE r \notin ing.rows
    <3>1. ts[r.e] \in Days /\ r.e \in Holds(ts[r.e])
      BY <1>2, <2>2, DayFact DEF Written, Holds
    <3> QED
      BY <1>1, <1>9, <3>1 DEF Holds
  <2> QED
    BY <2>1, <2>2
<1>12. Kept'
  <2> SUFFICES ASSUME NEW e \in stored PROVE e \in Holds(ts[e])'
    BY <1>1 DEF Kept, Holds, EventsOf, RowsOf
  <2>1. ts[e] \in Days /\ e \in Holds(ts[e])
    BY <1>2, DayFact DEF Kept, Holds
  <2> QED
    BY <1>1, <1>9, <2>1 DEF Holds
<1>13. Covered'
  <2>1. mnt.at \in Merges =>
          \A f \in part'[mnt.d] : f.id \in IdsOf(mnt.files) => EventsOf(f.rows) \subseteq EventsOf(mnt.rows)
    <3> SUFFICES ASSUME mnt.at \in Merges, NEW f \in part'[mnt.d], f.id \in IdsOf(mnt.files)
                 PROVE  EventsOf(f.rows) \subseteq EventsOf(mnt.rows)
      OBVIOUS
    <3>1. mnt.d \in Days /\ f.id < clock
      BY <1>2 DEF Types, CompInv, Merging, Merges, Working
    <3>2. f \in part[mnt.d]
      BY <1>2, <1>3, <1>6, <3>1
    <3> QED
      BY <1>2, <3>2 DEF Covered, Merges
  <2>2. ASSUME NEW d \in Days, journal[d] # Missing, NEW t \in part'[d], NEW f \in part'[d],
               t.id = journal[d].target, f.id \in journal[d].sources
        PROVE  EventsOf(f.rows) \subseteq EventsOf(t.rows)
    <3>1. t.id < clock /\ f.id < clock
      BY <1>2, <2>2 DEF CompInv, Journaled
    <3>2. t \in part[d] /\ f \in part[d]
      BY <1>2, <1>3, <1>6, <3>1
    <3> QED
      BY <1>2, <2>2, <3>2 DEF Covered
  <2> QED
    BY <1>1, <2>1, <2>2 DEF Covered, Merges, IdsOf, EventsOf
<1> QED
  BY <1>8, <1>11, <1>12, <1>13 DEF KeepInv

(* The offset is saved once every row of the pass is in a file of its day.     *)
LEMMA SaveOffsetKeep == ASSUME KeepInv, CompInv', SaveOffset PROVE KeepInv'
<1>1. /\ Types /\ Placed /\ Dated /\ Written /\ Kept /\ Covered
  BY DEF KeepInv, CompInv, Types
<1>2. /\ ing.rows = {} /\ ing' = NoIngest /\ stored' = stored \cup Owed(ing.batch)
      /\ UNCHANGED <<today, ts, log, part, journal, mnt>>
  BY DEF SaveOffset
<1>3. \A e \in Owed(ing.batch) : \E r \in ing.batch : r.e = e /\ ts[r.e] + Retention >= today
  BY DEF Owed, EventsOf
<1>4. ing'.batch = {} /\ ing'.rows = {}
  BY <1>2, NoneFact
<1>5. AllRows' \subseteq AllRows
  BY <1>2, <1>4 DEF AllRows, RowsOf
<1>6. Placed' /\ Written' /\ Covered'
  BY <1>1, <1>2, <1>4, <1>5 DEF Placed, Written, Covered, IdsOf, EventsOf
<1>7. Dated'
  BY <1>1, <1>2, <1>3, <1>4 DEF Dated
<1>8. Kept'
  BY <1>1, <1>2, <1>3 DEF Kept, Written, EventsOf, RowsOf
<1> QED
  BY <1>6, <1>7, <1>8 DEF KeepInv

-----------------------------------------------------------------------------
(* Nothing is lost: compaction and retention.                                  *)

(* A source goes after the merged file that has its events landed.             *)
LEMMA RemoveSourceKeep ==
    ASSUME KeepInv, CompInv', Recover, RemoveSource(mnt.d)
    PROVE  KeepInv'
<1> DEFINE c == mnt.d
<1>1. /\ Types /\ Dated /\ Written /\ Covered /\ CompInv
      /\ c \in Days /\ mnt.at \in {"recover", "clean"} /\ journal[c] # Missing /\ Landed(c)
  BY DEF KeepInv, CompInv, Types, Recover, RemoveSource, Working
<1>2. PICK x \in part[c] : x.id \in journal[c].sources /\ part' = [part EXCEPT ![c] = @ \ {x}]
  BY DEF RemoveSource
<1>3. UNCHANGED <<today, ts, log, ing, stored, journal, mnt>>
  BY DEF Recover, RemoveSource, Quietly
<1>4. part'[c] = part[c] \ {x} /\ \A d \in Days : d # c => part'[d] = part[d]
  BY <1>1, <1>2 DEF Types
<1>5. PICK t \in part[c] : t.id = journal[c].target
  BY <1>1 DEF Landed
<1>6. t # x /\ EventsOf(x.rows) \subseteq EventsOf(t.rows)
  BY <1>1, <1>2, <1>5 DEF CompInv, Journaled, Covered
<1>7. \A e \in EventsOf(RowsOf(part[c])) : e \in EventsOf(RowsOf(part'[c]))
  <2> SUFFICES ASSUME NEW f \in part[c], NEW r \in f.rows
               PROVE  \E g \in part'[c] : \E q \in g.rows : q.e = r.e
    BY DEF EventsOf, RowsOf
  <2>1. CASE f # x
    BY <1>4, <2>1
  <2>2. CASE f = x
    BY <1>4, <1>6, <2>2 DEF EventsOf
  <2> QED
    BY <2>1, <2>2
<1>8. \A d \in Days : Holds(d) \subseteq Holds(d)'
  <2> SUFFICES ASSUME NEW d \in Days
               PROVE  EventsOf(RowsOf(part[d])) \subseteq EventsOf(RowsOf(part'[d]))
    BY DEF Holds, EventsOf, RowsOf
  <2> QED
    BY <1>4, <1>7
<1>9. \A e \in stored' : Holds(ts[e]) \subseteq Holds(ts[e])'
  BY <1>1, <1>3, <1>8, DayFact DEF Holds
<1>10. /\ \A d \in Days : part'[d] \subseteq part[d]
       /\ ing'.batch = ing.batch /\ ing'.rows = ing.rows /\ mnt'.rows = mnt.rows
  BY <1>3, <1>4
<1>11. \A d \in Days : \A f \in part'[d] : f.rows \subseteq AllRows
  BY <1>10, RowsIn
<1>12. Placed' /\ Dated' /\ Written' /\ Kept'
  <2>1. ing'.rows \subseteq ing'.batch /\ stored' \subseteq stored /\ mnt'.rows \subseteq AllRows
    BY <1>1, <1>3, <1>10, RowsIn DEF Written
  <2> QED
    BY <1>3, <1>8, <1>9, <1>10, <1>11, <2>1, DiskStep
<1>13. Covered'
  BY <1>1, <1>3, <1>10, CoveredStep DEF Carried
<1> QED
  BY <1>12, <1>13 DEF KeepInv

LEMMA PruneFileKeep == ASSUME KeepInv, CompInv', NEW c \in Days, PruneFile(c) PROVE KeepInv'
<1>1. /\ Types /\ Dated /\ Written /\ mnt.at = "prune" /\ c \in mnt.todo
      /\ UNCHANGED <<today, ts, log, ing, mnt>> /\ stored' = {e \in stored : ts[e] # c}
  BY DEF PruneFile, KeepInv, CompInv
<1>2. /\ c + Retention < today /\ c \in Nat /\ Retention \in Nat /\ today \in Nat
  BY <1>1, ConstFact DEF KeepInv, CompInv, Pruning, Types
<1>3. /\ \A d \in Days : part'[d] \subseteq part[d] /\ (d # c => part'[d] = part[d])
      /\ \A d \in Days : journal'[d] = Missing \/ journal'[d] = journal[d]
  <2>1. CASE \E f \in part[c] : part' = [part EXCEPT ![c] = @ \ {f}] /\ UNCHANGED <<writing, journal>>
    BY <1>1, <2>1 DEF Types
  <2>2. CASE writing' = [writing EXCEPT ![c] = Missing] /\ UNCHANGED <<part, journal>>
    BY <2>2
  <2>3. CASE journal' = [journal EXCEPT ![c] = Missing] /\ UNCHANGED <<part, writing>>
    BY <1>1, <2>3 DEF Types
  <2> QED
    BY <2>1, <2>2, <2>3 DEF PruneFile
<1>4. \A d \in Days : d # c => Holds(d)' = Holds(d)
  BY <1>3 DEF Holds, EventsOf, RowsOf
<1>5. \A d \in Days : d + Retention >= today => Holds(d) \subseteq Holds(d)'
  BY <1>2, <1>4
<1>6. \A e \in stored' : Holds(ts[e]) \subseteq Holds(ts[e])'
  BY <1>1, <1>4, DayFact DEF Holds
<1>7. \A d \in Days : \A f \in part'[d] : f.rows \subseteq AllRows
  BY <1>3, RowsIn
<1>8. Placed' /\ Dated' /\ Written' /\ Kept'
  <2>1. /\ ing'.rows \subseteq ing'.batch /\ ing'.batch = ing.batch /\ ing'.rows = ing.rows
        /\ stored' \subseteq stored /\ mnt'.rows \subseteq AllRows
    BY <1>1, RowsIn DEF Written
  <2> QED
    BY <1>1, <1>5, <1>6, <1>7, <2>1, DiskStep
<1>9. Covered'
  BY <1>1, <1>3, CoveredStep DEF Carried, Merges
<1> QED
  BY <1>8, <1>9 DEF KeepInv

(* A compaction reads what a reader reads: every event of the day.             *)
LEMMA ListKeep == ASSUME KeepInv, CompInv', List PROVE KeepInv'
<1>1. /\ Types /\ Named /\ Placed /\ Dated /\ Written /\ Kept /\ Covered
      /\ mnt \in Maintaining /\ mnt.at = "list" /\ mnt.d \in Days
  BY DEF KeepInv, CompInv, Types, List, Working
<1>2. UNCHANGED <<today, ts, log, part, journal, ing, stored>>
  BY DEF List, Quietly
<1>3. /\ ing'.batch \subseteq ing.batch /\ ing'.rows \subseteq ing'.batch
      /\ ing'.batch \ ing'.rows \subseteq ing.batch \ ing.rows
  BY <1>1, <1>2 DEF Written
<1>4. \A d : Holds(d)' = Holds(d)
  BY <1>2 DEF Holds, RowsOf, EventsOf
<1>5. \A d \in Days : \A f \in part'[d] : f.rows \subseteq AllRows
  BY <1>2, RowsIn
<1>6. CASE mnt'.rows = mnt.rows /\ mnt'.at \notin Merges
  <2>1. Placed' /\ Dated' /\ Written' /\ Kept'
    BY <1>2, <1>3, <1>4, <1>5, <1>6, RowsIn, DiskStep
  <2>2. Covered'
    BY <1>2, <1>6, CoveredStep DEF Carried
  <2> QED
    BY <2>1, <2>2 DEF KeepInv
<1>7. CASE mnt'.rows = Dedupe(part[mnt.d]) /\ mnt'.d = mnt.d
  <2>1. mnt'.rows \subseteq AllRows
    BY <1>1, <1>7, RowsTyped, RowsIn DEF RowsOf
  <2>2. Placed' /\ Dated' /\ Written' /\ Kept'
    BY <1>2, <1>3, <1>4, <1>5, <2>1, DiskStep
  <2>3. EventsOf(mnt'.rows) = EventsOf(RowsOf(part[mnt.d]))
    BY <1>1, <1>7, DedupeFact
  <2>4. \A f \in part[mnt.d] : EventsOf(f.rows) \subseteq EventsOf(mnt'.rows)
    BY <2>3 DEF EventsOf, RowsOf
  <2>5. Covered'
    BY <1>1, <1>2, <1>7, <2>4 DEF Covered, IdsOf, EventsOf
  <2> QED
    BY <2>2, <2>5 DEF KeepInv
<1> QED
  BY <1>1, <1>6, <1>7 DEF List, Maintaining, Merges

LEMMA WriteJournalKeep == ASSUME KeepInv, CompInv', WriteJournal PROVE KeepInv'
<1> DEFINE c == mnt.d
           w == writing[mnt.d]
<1>1. /\ Types /\ Written /\ Covered /\ mnt \in Maintaining /\ mnt.at = "journal" /\ c \in Days /\ NewFile(w)
  BY DEF KeepInv, CompInv, Types, WriteJournal, Working, Merging
<1>2. /\ UNCHANGED <<today, ts, log, part, ing, stored>>
      /\ mnt'.at = "rename" /\ mnt'.d = c /\ mnt'.files = mnt.files /\ mnt'.rows = mnt.rows
  BY <1>1 DEF WriteJournal, Quietly, Maintaining
<1>3. /\ journal'[c].target = w.id
      /\ \A d \in Days : d # c => journal'[d] = journal[d]
  BY <1>1 DEF WriteJournal, Types
<1>4. /\ ing'.batch \subseteq ing.batch /\ ing'.rows \subseteq ing'.batch
      /\ ing'.batch \ ing'.rows \subseteq ing.batch \ ing.rows
  BY <1>1, <1>2 DEF Written
<1>5. \A d : Holds(d)' = Holds(d)
  BY <1>2 DEF Holds, RowsOf, EventsOf
<1>6. \A d \in Days : \A f \in part'[d] : f.rows \subseteq AllRows
  BY <1>2, RowsIn
<1>7. Placed' /\ Dated' /\ Written' /\ Kept'
  BY <1>2, <1>4, <1>5, <1>6, RowsIn, DiskStep
<1>8. \A t \in part[c] : t.id # w.id
  BY <1>1 DEF NewFile
<1>9. ASSUME NEW d \in Days, journal'[d] # Missing, NEW t \in part[d], NEW f \in part[d],
             t.id = journal'[d].target, f.id \in journal'[d].sources
      PROVE  EventsOf(f.rows) \subseteq EventsOf(t.rows)
  <2>1. d # c
    BY <1>3, <1>8, <1>9
  <2> QED
    BY <1>1, <1>3, <1>9, <2>1 DEF Covered
<1>10. Covered'
  BY <1>1, <1>2, <1>9 DEF Covered, IdsOf, EventsOf
<1> QED
  BY <1>7, <1>10 DEF KeepInv

(* The merged file lands with every event of the files its journal names.      *)
LEMMA RenameKeep == ASSUME KeepInv, CompInv', Rename PROVE KeepInv'
<1> DEFINE c == mnt.d
           w == writing[mnt.d]
<1>1. /\ Types /\ Dated /\ Written /\ Covered /\ mnt \in Maintaining /\ mnt.at = "rename" /\ c \in Days /\ NewFile(w)
      /\ journal[c] = [target |-> w.id, sources |-> w.from]
  BY DEF KeepInv, CompInv, Types, Rename, Working, Merging
<1>2. /\ w.rows = mnt.rows /\ w.id \notin w.from /\ w.from = IdsOf(mnt.files)
      /\ \A f \in part[c] : f.id # w.id
      /\ journal[c].target = w.id /\ journal[c].sources = w.from
  BY <1>1 DEF NewFile
<1>3. /\ part' = [part EXCEPT ![c] = @ \cup {w}]
      /\ UNCHANGED <<today, ts, log, ing, stored, journal>>
      /\ mnt'.at = "clean" /\ mnt'.rows = mnt.rows
  BY <1>1 DEF Rename, Quietly, Maintaining
<1> HIDE DEF w
<1>4. /\ part'[c] = part[c] \cup {w}
      /\ \A d \in Days : part[d] \subseteq part'[d] /\ (d # c => part'[d] = part[d])
  BY <1>1, <1>3 DEF Types
<1>5. \A d \in Days : Holds(d) \subseteq Holds(d)'
  BY <1>4 DEF Holds, EventsOf, RowsOf
<1>6. \A e \in stored' : Holds(ts[e]) \subseteq Holds(ts[e])'
  BY <1>1, <1>3, <1>5, DayFact DEF Holds
<1>7. \A d \in Days : \A f \in part'[d] : f.rows \subseteq AllRows
  <2> SUFFICES ASSUME NEW d \in Days, NEW f \in part'[d], f \notin part[d] PROVE f.rows \subseteq AllRows
    BY RowsIn
  <2>1. d = c
    BY <1>4
  <2>2. f = w
    BY <1>4, <2>1
  <2> QED
    BY <1>2, <2>2, RowsIn
<1>8. /\ ing'.batch \subseteq ing.batch /\ ing'.rows \subseteq ing'.batch
      /\ ing'.batch \ ing'.rows \subseteq ing.batch \ ing.rows
      /\ mnt'.rows \subseteq AllRows /\ stored' \subseteq stored
  BY <1>1, <1>3, RowsIn DEF Written
<1>9. Placed' /\ Dated' /\ Written' /\ Kept'
  BY <1>3, <1>5, <1>6, <1>7, <1>8, DiskStep
<1>10. ASSUME NEW d \in Days, journal[d] # Missing, NEW t \in part'[d], NEW f \in part'[d],
              t.id = journal[d].target, f.id \in journal[d].sources
       PROVE  EventsOf(f.rows) \subseteq EventsOf(t.rows)
  <2>1. CASE d # c
    BY <1>1, <1>4, <1>10, <2>1 DEF Covered
  <2>2. CASE d = c
    <3>1. t = w /\ f \in part[c]
      BY <1>2, <1>4, <1>10, <2>2
    <3>2. EventsOf(f.rows) \subseteq EventsOf(mnt.rows)
      BY <1>1, <1>2, <1>10, <2>2, <3>1 DEF Covered
    <3> QED
      BY <1>2, <3>1, <3>2
  <2> QED
    BY <2>1, <2>2
<1>11. Covered'
  BY <1>3, <1>10 DEF Covered, EventsOf
<1> QED
  BY <1>9, <1>11 DEF KeepInv

-----------------------------------------------------------------------------
(* Nothing is lost.                                                            *)

LEMMA EvInitKeep == EvInit => KeepInv
<1> SUFFICES ASSUME EvInit PROVE KeepInv
  OBVIOUS
<1>1. /\ ing.batch = {} /\ ing.rows = {} /\ mnt.rows = {} /\ mnt.at = "idle" /\ stored = {}
      /\ Len(log.lines) = 0
  BY NoneFact DEF EvInit
<1>2. \A d \in Days : part[d] = {} /\ journal[d] = Missing
  BY DEF EvInit
<1>3. AllRows = {}
  BY <1>1, <1>2 DEF AllRows, RowsOf
<1>4. Placed /\ Dated /\ Written /\ Covered /\ Kept
  BY <1>1, <1>2, <1>3 DEF Placed, Dated, Written, Covered, Kept
<1> QED
  BY <1>4, EvInitComp DEF KeepInv

LEMMA KeepNext == ASSUME Replaced PROVE KeepInv /\ [EvNext]_evVars => KeepInv'
<1> SUFFICES ASSUME KeepInv, [EvNext]_evVars PROVE KeepInv'
  OBVIOUS
<1>1. CompInv'
  BY CompNext DEF KeepInv
<1>2. CASE \/ \E e \in Events, d \in Days : RecordEvent(e, d)
           \/ \E how \in Rewrites : Rewrite(how)
           \/ Tomorrow \/ UNCHANGED evVars
  BY <1>1, <1>2, RecordEventKeep, RewriteKeep, TomorrowKeep
<1>3. CASE Ingest
  BY <1>1, <1>3, ReadKeep, QuietSteps, AppendDayKeep, SaveOffsetKeep DEF Ingest
<1>4. CASE MaintainDays
  <2>1. CASE Recover
    BY <1>1, <2>1, RemoveSourceKeep, QuietSteps DEF Recover
  <2>2. CASE \E d \in Days : PruneFile(d) \/ Pruned(d)
    BY <1>1, <2>2, PruneFileKeep, QuietSteps
  <2> QED
    BY <1>1, <1>4, <2>1, <2>2, QuietSteps, ListKeep, WriteJournalKeep, RenameKeep DEF MaintainDays
<1>5. CASE IngestFails \/ DayFails \/ Crash
  BY <1>1, <1>5, QuietSteps
<1> QED
  BY <1>2, <1>3, <1>4, <1>5 DEF EvNext

LEMMA KeepImplies == KeepInv => EventsKept
<1> SUFFICES ASSUME KeepInv, NEW e \in stored PROVE e \in EventsOf(Dedupe(part[ts[e]]))
  BY DEF EventsKept
<1>1. Types /\ Named /\ Placed /\ Dated /\ Kept
  BY DEF KeepInv, CompInv
<1>2. ts[e] \in Days
  BY <1>1, DayFact
<1>3. EventsOf(Dedupe(part[ts[e]])) = EventsOf(RowsOf(part[ts[e]]))
  BY <1>1, <1>2, DedupeFact
<1> QED
  BY <1>1, <1>3 DEF Kept

(* An app that replaces its file when it starts it over loses no event: one    *)
(* whose line a saved offset is past is in a file of its day, and a reader     *)
(* finds it there, until retention takes the day, whatever crash or failed     *)
(* write comes between the steps of a pass or of a compaction (tailEvents,     *)
(* Append, Partition.compact, recover, Prune).                                 *)
THEOREM NothingIsLost == ASSUME Replaced PROVE EvSpec => []EventsKept
<1>1. EvInit => KeepInv
  BY EvInitKeep
<1>2. KeepInv /\ [EvNext]_evVars => KeepInv'
  BY KeepNext
<1>3. KeepInv => EventsKept
  BY KeepImplies
<1> QED
  BY <1>1, <1>2, <1>3, PTL DEF EvSpec
=============================================================================
