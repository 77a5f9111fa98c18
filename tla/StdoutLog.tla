----------------------------- MODULE StdoutLog ------------------------------
(***************************************************************************)
(* The standard output of one process, from the segment its log writer has *)
(* open to the rows of the log store (internal/supervisor: logwriter.go,   *)
(* sealLogs; internal/ingest: ingestStdout, ingestSealed).                 *)
(*                                                                         *)
(* The process writes while the ingest pass seals, parses, stores, carries *)
(* and removes; a step of the pass may fail and the daemon may die between *)
(* any two of them.                                                        *)
(***************************************************************************)
EXTENDS LogRows, FiniteSets

CONSTANTS
    OutKinds,   \* the kinds of lines the process writes
    OutIds,     \* the request ids they carry
    OutMax,     \* bound: lines written
    OutFull,    \* log_max_size, in lines
    OutFaults,  \* bound: failed steps, crashes and exits
    SlowPass    \* a pass may spend tailQuiet between the seal and the stat

ASSUME StdoutAssumption ==
    /\ OutKinds \subseteq LineKinds
    /\ OutMax \in Nat /\ OutFull \in Nat \ {0} /\ OutFaults \in Nat
    /\ SlowPass \in BOOLEAN

VARIABLES
    outLines,    \* every line the process wrote
    outLive,     \* the open segment, <process>.log
    outSealed,   \* the *.sealed segments, oldest first
    outRotated,  \* lines a rotation took to the archives
    outTracked,  \* the process is in a.processes
    outCalm,     \* the lines older than tailQuiet
    outIngest,   \* ingestSealed
    outStored,   \* the rows of the log store
    outFaults    \* failures so far

outVars == <<outLines, outLive, outSealed, outRotated, outTracked, outCalm, outIngest, outStored, outFaults>>

OutIdle == [at |-> "idle", pos |-> 0, group |-> grouper, hold |-> FALSE, todo |-> 0]

OutInit ==
    /\ outLines = <<>> /\ outLive = <<>> /\ outSealed = <<>> /\ outRotated = {}
    /\ outTracked = TRUE /\ outCalm = 0
    /\ outIngest = OutIdle /\ outStored = <<>> /\ outFaults = 0

-----------------------------------------------------------------------------
(* the process *)

(* Write: a full segment is rotated to the archives first.  A line is calm *)
(* when the log was silent for tailQuiet before it.                        *)
OutWrite(kind, id) ==
    LET n == Len(outLines) + 1
        line == [n |-> n, kind |-> kind, id |-> id, calm |-> outCalm = Len(outLines)]
        full == Len(outLive) >= OutFull
    IN
    /\ outTracked /\ n <= OutMax
    /\ outLines' = Append(outLines, line)
    /\ outRotated' = IF full THEN outRotated \cup {l.n : l \in ToSet(outLive)} ELSE outRotated
    /\ outLive' = IF full THEN <<line>> ELSE Append(outLive, line)
    /\ UNCHANGED <<outSealed, outTracked, outCalm, outIngest, outStored, outFaults>>

(* tailQuiet passes without a line.                                        *)
OutQuiet ==
    /\ outCalm # Len(outLines)
    /\ SlowPass \/ outIngest.at # "scan"
    /\ outCalm' = Len(outLines)
    /\ UNCHANGED <<outLines, outLive, outSealed, outRotated, outTracked, outIngest, outStored, outFaults>>

(* release closes the log of a process that is not replaced at once.       *)
OutExit ==
    /\ outTracked /\ outFaults < OutFaults
    /\ outTracked' = FALSE
    /\ outFaults' = outFaults + 1
    /\ UNCHANGED <<outLines, outLive, outSealed, outRotated, outCalm, outIngest, outStored>>

(* newLogWriter opens what is there and appends to it.                     *)
OutSpawn ==
    /\ ~outTracked
    /\ outTracked' = TRUE
    /\ UNCHANGED <<outLines, outLive, outSealed, outRotated, outCalm, outIngest, outStored, outFaults>>

-----------------------------------------------------------------------------
(* the ingest pass *)

(* sealLogs: only the logs of tracked processes are sealed, then every     *)
(* segment on disk is handed out.                                          *)
OutSeal ==
    LET sealed == IF outTracked /\ outLive # <<>> THEN Append(outSealed, outLive) ELSE outSealed IN
    /\ outIngest.at = "idle" /\ sealed # <<>>
    /\ outSealed' = sealed
    /\ outLive' = IF outTracked THEN <<>> ELSE outLive
    /\ outIngest' = [OutIdle EXCEPT !.at = "scan"]
    /\ UNCHANGED <<outLines, outRotated, outTracked, outCalm, outStored, outFaults>>

OutScanned == FlattenSeq(outSealed)

(* addFile: the segments are read line by line as a single stream.  On a   *)
(* line longer than its buffer the scanner gives up and the segments stay. *)
OutScan ==
    /\ outIngest.at = "scan" /\ outIngest.pos < Len(OutScanned)
    /\ LET line == OutScanned[outIngest.pos + 1] IN
       outIngest' = IF line.kind = "huge" THEN OutIdle
                    ELSE [outIngest EXCEPT !.pos = @ + 1, !.group = add(@, line)]
    /\ UNCHANGED <<outLines, outLive, outSealed, outRotated, outTracked, outCalm, outStored, outFaults>>

(* Mutant: the open row is always flushed.                                 *)
HeldNever(newest, group) == FALSE

(* A row still open in a segment written to moments ago is held back.      *)
Held(newest, group) == open(group) /\ newest[Len(newest)].n > outCalm

OutParsed ==
    /\ outIngest.at = "scan" /\ outIngest.pos = Len(OutScanned)
    /\ LET hold == Held(outSealed[Len(outSealed)], outIngest.group) IN
       outIngest' = [outIngest EXCEPT
           !.at = "append", !.hold = hold,
           !.group = IF hold THEN @ ELSE flush(@),
           !.todo = Len(outSealed) - (IF hold THEN 1 ELSE 0)]
    /\ UNCHANGED <<outLines, outLive, outSealed, outRotated, outTracked, outCalm, outStored, outFaults>>

(* AppendLogs waits for the commit.                                        *)
OutAppend ==
    /\ outIngest.at = "append"
    /\ outStored' = outStored \o outIngest.group.entries
    /\ outIngest' = [outIngest EXCEPT !.at = IF outIngest.hold THEN "carry" ELSE "remove"]
    /\ UNCHANGED <<outLines, outLive, outSealed, outRotated, outTracked, outCalm, outFaults>>

(* Mutant: the open row is not carried.                                    *)
OutCarryNothing ==
    /\ outIngest.at = "carry"
    /\ outIngest' = [outIngest EXCEPT !.at = "remove", !.todo = Len(outSealed)]
    /\ UNCHANGED <<outLines, outLive, outSealed, outRotated, outTracked, outCalm, outStored, outFaults>>

(* carryTail: the newest segment becomes the lines of its open row, by a   *)
(* rename.                                                                 *)
OutCarry ==
    /\ outIngest.at = "carry"
    /\ outSealed' = [outSealed EXCEPT ![Len(outSealed)] = outIngest.group.raw]
    /\ outIngest' = [outIngest EXCEPT !.at = "remove"]
    /\ UNCHANGED <<outLines, outLive, outRotated, outTracked, outCalm, outStored, outFaults>>

(* The other segments are removed one by one.                              *)
OutRemove ==
    /\ outIngest.at = "remove"
    /\ IF outIngest.todo = 0
       THEN outIngest' = OutIdle /\ outSealed' = outSealed
       ELSE /\ outIngest' = [outIngest EXCEPT !.todo = @ - 1]
            /\ outSealed' = Tail(outSealed)
    /\ UNCHANGED <<outLines, outLive, outRotated, outTracked, outCalm, outStored, outFaults>>

(* A step fails, or the daemon dies: the files and the rows stay.          *)
OutGivesUp ==
    /\ outIngest.at # "idle" /\ outFaults < OutFaults
    /\ outFaults' = outFaults + 1
    /\ outIngest' = OutIdle
    /\ UNCHANGED <<outLines, outLive, outSealed, outRotated, outTracked, outCalm, outStored>>

OutPass == OutSeal \/ OutScan \/ OutParsed \/ OutAppend \/ OutCarry \/ OutRemove

OutNext ==
    \/ \E kind \in OutKinds, id \in OutIds : OutWrite(kind, id)
    \/ OutQuiet \/ OutExit \/ OutSpawn
    \/ OutPass \/ OutGivesUp

-----------------------------------------------------------------------------
(* properties *)

OutInked == {line \in ToSet(outLines) : line.kind # "blank"}
OutStoredLines == {line.n : line \in UNION {ToSet(row) : row \in ToSet(outStored)}}

(* No line is lost between the process and the log store: what is not in a *)
(* row is still on disk, wherever a pass broke off, unless a rotation took *)
(* it to the archives first.                                               *)
OutLinesKept ==
    \A line \in OutInked :
        \/ line.n \in OutStoredLines \cup outRotated
        \/ line \in ToSet(FlattenSeq(outSealed) \o outLive)

(* "A seal never cuts a record in two": without a failure the stored rows  *)
(* are the rows of the whole stream, once each and in order, as if no      *)
(* segment had been sealed, cut at most where the process was silent.      *)
OutRecordsWhole ==
    outFaults = 0 /\ outRotated = {} =>
        \E cuts \in SUBSET {line.n : line \in {x \in ToSet(outLines) : x.calm}} :
            IsPrefix(AllInked(outStored), AllInked(Cut(outLines, cuts)))

(* The stream as its reader sees it.                                       *)
OutStatus == [n \in 1 .. OutMax |->
    IF n > Len(outLines) THEN "new"
    ELSE IF outLines[n].kind = "blank" THEN "new"
    ELSE IF n \in OutStoredLines THEN "stored"
    ELSE IF n \in outRotated THEN "rotated"
    ELSE "written"]

OutAbstract == INSTANCE LineLog WITH Lines <- 1 .. OutMax, status <- OutStatus

(* What ingest promises of standard output: no line lost, no record cut,   *)
(* and every line of a live stream in the log store in the end.            *)
StreamKept == OutAbstract!LineSpec /\ [](OutLinesKept /\ OutRecordsWhole)
=============================================================================
