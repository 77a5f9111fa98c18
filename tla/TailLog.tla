------------------------------ MODULE TailLog -------------------------------
(***************************************************************************)
(* A log file the app itself writes under ./log, and the pass that reads   *)
(* what is new in it (internal/ingest: tailFiles, tailFile, parseRange,    *)
(* tailExceptions; the tail_offsets row of internal/logstore).             *)
(*                                                                         *)
(* The app appends, replaces, truncates and removes its file while the     *)
(* pass reads it.  Offsets count lines.  A plain log commits its rows and  *)
(* then its offset; an exception file commits both in one transaction.     *)
(***************************************************************************)
EXTENDS LogRows, FiniteSets

CONSTANTS
    TailModes,   \* how a behaviour goes: the file, a log or one of exceptions; the kinds of
                 \* lines the app writes; two bounds, lines written, and failed steps and crashes
    TailInodes,  \* bound: inodes the file goes through
    TailBatch,   \* exceptionBatch
    Rotations    \* what the app does to its file: "replace", "truncate", "remove"

ASSUME TailAssumption ==
    /\ TailModes \subseteq [file : {"log", "exceptions"}, kinds : SUBSET LineKinds, lines : Nat, faults : Nat]
    /\ TailInodes \in Nat \ {0} /\ TailBatch \in Nat \ {0}
    /\ Rotations \subseteq {"replace", "truncate", "remove"}

VARIABLES
    tailMode,    \* one of TailModes; the name of the file tells what it is
    tailCount,   \* lines written so far
    tailFiles,   \* the lines of each inode
    tailIno,     \* the inode at the path, 0 when there is none
    tailHalf,    \* the file ends in an unfinished line
    tailCalm,    \* the lines older than tailQuiet
    tailRow,     \* the tail_offsets row: inode and offset, inode 0 when there is none
    tailIngest,  \* the pass
    tailStored,  \* the rows of the log store
    tailFaults,  \* failures so far
    tailGen,     \* ghost: how often each inode was emptied
    tailUnread   \* ghost: the lines a pass read past, of a file emptied and grown again unseen

tailVars == <<tailMode, tailCount, tailFiles, tailIno, tailHalf, tailCalm, tailRow, tailIngest,
              tailStored, tailFaults, tailGen, tailUnread>>
tailApp == <<tailMode, tailCount, tailFiles, tailIno, tailHalf, tailCalm, tailGen>>

(* The row and the pass carry the generation of the file they know, which  *)
(* the code does not.                                                      *)
NoOffset == [ino |-> 0, off |-> 0, gen |-> 0]
TailIdle == [at |-> "idle", ino |-> 0, next |-> 0, rowStart |-> 0, left |-> 0, quiet |-> FALSE,
             group |-> grouper, gen |-> 0]

TailInit ==
    /\ tailMode \in TailModes
    /\ tailCount = 0
    /\ tailFiles = [i \in 1 .. TailInodes |-> <<>>]
    /\ tailIno = 1 /\ tailHalf = FALSE /\ tailCalm = 0
    /\ tailRow = NoOffset /\ tailIngest = TailIdle /\ tailStored = <<>> /\ tailFaults = 0
    /\ tailGen = [i \in 1 .. TailInodes |-> 0] /\ tailUnread = {}

-----------------------------------------------------------------------------
(* the app *)

(* A line is calm when the log was silent for tailQuiet before it, and     *)
(* raced when it comes while a pass that found the log silent is reading.  *)
TailWrite(kind) ==
    LET line == [n |-> tailCount + 1, ino |-> tailIno, kind |-> kind, id |-> "",
                 calm |-> tailCalm = tailCount,
                 raced |-> tailIngest.at = "scan" /\ tailIngest.quiet]
    IN
    /\ tailIno # 0 /\ tailCount < tailMode.lines
    /\ tailCount' = tailCount + 1
    /\ tailFiles' = [tailFiles EXCEPT ![tailIno] = Append(@, line)]
    /\ tailHalf' = FALSE
    /\ UNCHANGED <<tailMode, tailIno, tailCalm, tailRow, tailIngest, tailStored, tailFaults, tailGen, tailUnread>>

TailWriteHalf ==
    /\ tailIno # 0 /\ tailCount < tailMode.lines /\ ~tailHalf
    /\ tailHalf' = TRUE
    /\ UNCHANGED <<tailMode, tailCount, tailFiles, tailIno, tailCalm, tailRow, tailIngest, tailStored, tailFaults, tailGen, tailUnread>>

(* The file is renamed away or removed, and made again later, or emptied.  *)
TailRotate(how) ==
    /\ how \in Rotations /\ tailIno # 0 /\ tailFiles[tailIno] # <<>>
    /\ IF how = "truncate"
       THEN /\ tailFiles' = [tailFiles EXCEPT ![tailIno] = <<>>]
            /\ tailGen' = [tailGen EXCEPT ![tailIno] = @ + 1]
            /\ tailIno' = tailIno
       ELSE /\ tailIno < TailInodes
            /\ tailIno' = IF how = "replace" THEN tailIno + 1 ELSE 0
            /\ UNCHANGED <<tailFiles, tailGen>>
    /\ tailHalf' = FALSE
    /\ UNCHANGED <<tailMode, tailCount, tailCalm, tailRow, tailIngest, tailStored, tailFaults, tailUnread>>

TailCreate ==
    /\ tailIno = 0
    /\ \E i \in 1 .. TailInodes :
         /\ tailFiles[i] = <<>>
         /\ \A j \in 1 .. i - 1 : tailFiles[j] # <<>>
         /\ tailIno' = i
    /\ UNCHANGED <<tailMode, tailCount, tailFiles, tailHalf, tailCalm, tailRow, tailIngest, tailStored, tailFaults, tailGen, tailUnread>>

TailQuiet ==
    /\ tailCalm # tailCount
    /\ tailCalm' = tailCount
    /\ UNCHANGED <<tailMode, tailCount, tailFiles, tailIno, tailHalf, tailRow, tailIngest, tailStored, tailFaults, tailGen, tailUnread>>

-----------------------------------------------------------------------------
(* the pass *)

TailSize == Len(tailFiles[tailIno]) + (IF tailHalf THEN 1 ELSE 0)

(* A replaced or truncated file starts over, if it is smaller than before. *)
TailStart == IF tailRow.ino # tailIno \/ TailSize < tailRow.off THEN 0 ELSE tailRow.off

(* The lines in front of position n of inode i, when what was read there   *)
(* was of another generation.                                              *)
ReadPast(i, n, gen) ==
    IF gen = tailGen[i] THEN {}
    ELSE {tailFiles[i][k].n : k \in {j \in DOMAIN tailFiles[i] : j <= n}}

(* The offset of a file that is gone is dropped.                           *)
TailDrop ==
    /\ tailIngest.at = "idle" /\ tailIno = 0 /\ tailRow # NoOffset
    /\ tailRow' = NoOffset
    /\ UNCHANGED <<tailApp, tailIngest, tailStored, tailFaults, tailUnread>>

(* A new file without a line is only remembered.                           *)
TailRemember ==
    /\ tailIngest.at = "idle" /\ tailIno # 0
    /\ TailStart >= TailSize /\ tailRow.ino # tailIno
    /\ tailRow' = [ino |-> tailIno, off |-> TailStart, gen |-> tailGen[tailIno]]
    /\ UNCHANGED <<tailApp, tailIngest, tailStored, tailFaults, tailUnread>>

(* Open and Stat: from here on the pass reads this inode, whatever happens *)
(* at the path, and believes what it saw of the modification time.         *)
TailOpen ==
    /\ tailIngest.at = "idle" /\ tailIno # 0
    /\ TailStart < TailSize
    /\ tailIngest' = [TailIdle EXCEPT !.at = "scan", !.ino = tailIno, !.next = TailStart,
                                      !.rowStart = TailStart, !.quiet = tailCalm = tailCount,
                                      !.gen = tailGen[tailIno],
                                      !.left = IF tailMode.file = "exceptions" THEN TailBatch ELSE tailMode.lines]
    /\ tailUnread' = tailUnread \union ReadPast(tailIno, TailStart, tailRow.gen)
    /\ UNCHANGED <<tailApp, tailRow, tailStored, tailFaults>>

(* An exception line is an occurrence, or a warning, of its own.           *)
OneByOne(group, line) == IF line.kind = "blank" THEN group ELSE [group EXCEPT !.entries = Append(@, <<line>>)]

(* Whole lines are read up to the end of the file, which may have moved    *)
(* since Stat; rowStart is where the open row began.                       *)
TailScan ==
    /\ tailIngest.at = "scan" /\ tailIngest.next < Len(tailFiles[tailIngest.ino]) /\ tailIngest.left > 0
    /\ LET line == tailFiles[tailIngest.ino][tailIngest.next + 1]
           group == tailIngest.group
           after == IF tailMode.file = "exceptions" THEN OneByOne(group, line) ELSE add(group, line)
       IN  tailIngest' = [tailIngest EXCEPT
               !.next = @ + 1, !.left = @ - 1, !.group = after, !.gen = tailGen[tailIngest.ino],
               !.rowStart = IF open(after) /\ Len(after.raw) = 1 THEN
                                IF line.kind = "blank" THEN @ ELSE tailIngest.next
                            ELSE @]
    /\ tailUnread' = tailUnread \union ReadPast(tailIngest.ino, tailIngest.next, tailIngest.gen)
    /\ UNCHANGED <<tailApp, tailRow, tailStored, tailFaults>>

(* Mutant: a pass never holds a row back.                                  *)
TailHeldNever(group) == FALSE

(* A row that is still open waits, unless the log was silent at Stat.      *)
TailHeld(group) == ~tailIngest.quiet /\ open(group)

TailScanned ==
    /\ tailIngest.at = "scan"
    /\ tailIngest.next >= Len(tailFiles[tailIngest.ino]) \/ tailIngest.left = 0
    /\ tailIngest' = IF TailHeld(tailIngest.group)
                     THEN [tailIngest EXCEPT !.at = "append", !.next = tailIngest.rowStart]
                     ELSE [tailIngest EXCEPT !.at = "append", !.group = flush(@)]
    /\ UNCHANGED <<tailApp, tailRow, tailStored, tailFaults, tailUnread>>

(* Mutant: the rows of an exception file and its offset are two commits.   *)
TailAppendAlone ==
    /\ tailIngest.at = "append"
    /\ tailStored' = tailStored \o tailIngest.group.entries
    /\ tailIngest' = [tailIngest EXCEPT !.at = "save"]
    /\ UNCHANGED <<tailApp, tailRow, tailFaults, tailUnread>>

(* AppendLogs, or AppendExceptions with the offset in its transaction.     *)
TailAppend ==
    /\ tailIngest.at = "append"
    /\ tailStored' = tailStored \o tailIngest.group.entries
    /\ IF tailMode.file = "exceptions"
       THEN /\ tailRow' = [ino |-> tailIngest.ino, off |-> tailIngest.next, gen |-> tailIngest.gen]
            /\ tailIngest' = TailIdle
       ELSE /\ tailIngest' = [tailIngest EXCEPT !.at = "save"]
            /\ tailRow' = tailRow
    /\ UNCHANGED <<tailApp, tailFaults, tailUnread>>

(* Mutant: the offset is saved where reading stopped.                      *)
TailSaveRead ==
    /\ tailIngest.at = "save"
    /\ tailRow' = [ino |-> tailIngest.ino, off |-> Len(tailFiles[tailIngest.ino]), gen |-> tailIngest.gen]
    /\ tailIngest' = TailIdle
    /\ UNCHANGED <<tailApp, tailStored, tailFaults, tailUnread>>

TailSave ==
    /\ tailIngest.at = "save"
    /\ tailRow' = [ino |-> tailIngest.ino, off |-> tailIngest.next, gen |-> tailIngest.gen]
    /\ tailIngest' = TailIdle
    /\ UNCHANGED <<tailApp, tailStored, tailFaults, tailUnread>>

(* A step fails, or the daemon dies.                                       *)
TailGivesUp ==
    /\ tailIngest.at # "idle" /\ tailFaults < tailMode.faults
    /\ tailFaults' = tailFaults + 1
    /\ tailIngest' = TailIdle
    /\ UNCHANGED <<tailApp, tailRow, tailStored, tailUnread>>

TailPass == TailDrop \/ TailRemember \/ TailOpen \/ TailScan \/ TailScanned \/ TailAppend \/ TailSave

TailNext ==
    \/ \E kind \in tailMode.kinds : TailWrite(kind)
    \/ TailWriteHalf \/ TailQuiet \/ TailCreate
    \/ \E how \in Rotations : TailRotate(how)
    \/ TailPass \/ TailGivesUp

-----------------------------------------------------------------------------
(* properties *)

TailStoredLines == {line.n : line \in UNION {ToSet(row) : row \in ToSet(tailStored)}}

(* An offset never runs ahead of the rows: every line in front of a saved  *)
(* offset is in a stored row, whichever step of a pass failed and whether  *)
(* the app replaced, removed or emptied its file in the middle of it.      *)
(* Only of a file that was emptied, and had grown again past where the     *)
(* last pass stopped when the next one looked, are lines read past.        *)
OffsetCovers ==
    tailRow.ino # 0 /\ tailRow.gen = tailGen[tailRow.ino] =>
        \A i \in 1 .. tailRow.off :
            LET line == tailFiles[tailRow.ino][i]
            IN  line.kind # "blank" => line.n \in TailStoredLines \union tailUnread

(* An exception is counted once across failures and crashes; a line of a   *)
(* plain log is stored twice only after one.                               *)
StoredOnce ==
    tailMode.file = "exceptions" \/ tailFaults = 0 =>
        \A i, j \in DOMAIN tailStored : i # j => ToSet(tailStored[i]) \cap ToSet(tailStored[j]) = {}

RowsOfInode(i) == SelectSeq(tailStored, LAMBDA row : row[1].ino = i)
MayCut(lines) == {lines[k].n : k \in {j \in DOMAIN lines : lines[j].calm \/ (j > 1 /\ lines[j - 1].raced)}}

(* "A pass never cuts a record that is being written": without a failure   *)
(* the rows of a file that was not emptied are those of its lines read in  *)
(* one go, cut at most where the app was silent - or behind a line that    *)
(* came while a pass that had found the log silent was reading it.         *)
TailRecordsWhole ==
    tailMode.file = "log" /\ tailFaults = 0 =>
        \A i \in {j \in 1 .. TailInodes : tailGen[j] = 0} : \E cuts \in SUBSET MayCut(tailFiles[i]) :
            IsPrefix(AllInked(RowsOfInode(i)), AllInked(Cut(tailFiles[i], cuts)))

(* What ingest promises of a file it tails: its lines are stored in front  *)
(* of the saved offset, once, and in whole records (tailFile,              *)
(* tailExceptions), but for the lines of an emptied file read past.        *)
TailSafe == OffsetCovers /\ StoredOnce /\ TailRecordsWhole
=============================================================================
