---------------------------- MODULE StoreProofs -----------------------------
(* Theorems about what is kept on disk - ConfigStore, LogStore, Backups,      *)
(* EventQueries and EventFilter - for every set of editors, rows, databases,  *)
(* days and filters, and every setting of their limits.                       *)
EXTENDS ConfigStore, LogStore, Backups, EventQueries, EventFilter,
        SequenceTheorems, NaturalsInduction, WellFoundedInduction, TLAPS

-------------------------------------------------------------------------------
(* Induction over the natural numbers, in the form of a set closed under      *)
(* the successor.                                                             *)
Below == {ss \in Nat \X Nat : ss[1] < ss[2]}
LEMMA BelowWF == IsWellFoundedOn(Below, Nat)
BY NatLessThanWellFounded, Zenon DEF OpToRel, Below

LEMMA LeastNat ==
    ASSUME NEW T, T \subseteq Nat, T # {}
    PROVE  \E n \in T : \A m \in T : n <= m
<1>1. PICK n \in T : \A m \in T : ~ (<<m, n>> \in Below)
  BY BelowWF, WFMin, Zenon
<1>2. ASSUME NEW m \in T PROVE n <= m
  <2>1. <<m, n>> \in Nat \X Nat /\ <<m, n>>[1] = m /\ <<m, n>>[2] = n
    OBVIOUS
  <2>2. ~ (m < n)
    BY <2>1, <1>1 DEF Below
  <2>. QED  BY <2>1, <2>2
<1>. QED  BY <1>2

LEMMA RankInduction ==
    ASSUME NEW S, S \subseteq Nat, 0 \in S, \A n \in S : n + 1 \in S
    PROVE  S = Nat
<1>1. SUFFICES ASSUME Nat \ S # {} PROVE FALSE
  OBVIOUS
<1>2. PICK n \in Nat \ S : \A m \in Nat \ S : n <= m
  BY <1>1, LeastNat
<1>3. n # 0 /\ n - 1 \in Nat /\ n - 1 \in S
  BY <1>2
<1>. QED  BY <1>3, <1>2

-------------------------------------------------------------------------------
(* ConfigStore.  The inductive invariant says what each save in flight has    *)
(* still to find on disk, and what the manager has loaded.                    *)

CfgTexts == Nat \ {EmptyFile}
CfgContents == Nat \cup {Absent}
Temping == {"truncated", "filled"}
Handling == {"copying", "opened"}

Editings == [pc : {"editing"}, rev : Nat, text : CfgTexts]
CfgWrites == [pc : Writing, rev : Nat, text : CfgTexts, path : Paths, found : Nat,
           into : {"temp", "file", "gone"}, raced : BOOLEAN]
CfgCopies == [pc : Handling, text : Nat]
EditStates == [pc : {"idle", "saved"}] \cup Editings \cup CfgWrites \cup CfgCopies

CfgTypes ==
    /\ cfgFiles \in [Paths -> CfgContents] /\ cfgFiles["base"] \in Nat
    /\ cfgTemps \in [Paths -> CfgContents]
    /\ cfgHistory \in Seq(CfgTexts)
    /\ cfgEdits \in [Editors -> EditStates]
    /\ cfgOpened \in Editors \cup {NoEditor}
    /\ cfgTexts \in Nat
    /\ cfgSilent \in BOOLEAN /\ cfgTangled \in BOOLEAN /\ cfgCurrent \in BOOLEAN
    /\ cfgCrashes \in Nat

(* A save that nobody overtook still has before it the text it checked, which   *)
(* is the one its editor saw, and keeps it in the history.                      *)
CfgSeen(x, files, history) ==
    x.pc \in Writing =>
        /\ x.into # "temp" => x.raced /\ x.pc \in Temping
        /\ ~x.raced => /\ x.found = x.rev /\ files[x.path] = x.found
                       /\ x.pc # "checked" => x.found \in ToSet(history) \cup {EmptyFile}

AllSeen == \A e \in Editors : CfgSeen(cfgEdits[e], cfgFiles, cfgHistory)

HandleHeld == cfgOpened # NoEditor => cfgEdits[cfgOpened].pc = "opened"

CfgCalm == ~cfgTangled /\ cfgCrashes = 0

(* One save at a time uses a temp file, and it finds there what it wrote.       *)
OwnTemp ==
    /\ \A e, f \in Editors :
         cfgEdits[e].pc \in Temping /\ cfgEdits[f].pc \in Temping /\ cfgEdits[e].path = cfgEdits[f].path
           => e = f
    /\ \A e \in Editors :
         /\ cfgEdits[e].pc = "truncated" => cfgEdits[e].into = "temp"
         /\ cfgEdits[e].pc = "filled" => cfgTemps[cfgEdits[e].path] = cfgEdits[e].text

(* No file is empty but an override that is being created, from a full file.    *)
CfgWhole ==
    /\ cfgFiles["base"] # EmptyFile
    /\ cfgFiles["local"] = EmptyFile => cfgOpened # NoEditor
    /\ \A e \in Editors : cfgEdits[e].pc \in Handling => cfgEdits[e].text # EmptyFile

(* What the manager runs is what is in force, an override that is not yet       *)
(* filled apart, unless a save is about to rescan.                              *)
CfgSettled(files, opened) ==
    IF opened # NoEditor THEN files["base"] ELSE files[IF files["local"] = Absent THEN "base" ELSE "local"]

RunsShown ==
    cfgCurrent => cfgLoaded = CfgSettled(cfgFiles, cfgOpened) \/ \E e \in Editors : cfgEdits[e].pc = "saved"

CfgInv ==
    /\ CfgTypes /\ ~cfgSilent /\ AllSeen /\ HandleHeld
    /\ CfgCalm => OwnTemp /\ CfgWhole /\ RunsShown

-----------------------------------------------------------------------------
(* The states of a request.                                                     *)

LEMMA StatesOf ==
    ASSUME NEW x \in EditStates
    PROVE  /\ x.pc \in {"idle", "saved", "editing"} \cup Writing \cup Handling
           /\ x.pc = "editing" => x \in Editings /\ x.rev \in Nat /\ x.text \in CfgTexts
           /\ x.pc \in Writing => /\ x \in CfgWrites /\ x.rev \in Nat /\ x.text \in CfgTexts /\ x.path \in Paths
                                  /\ x.found \in Nat /\ x.into \in {"temp", "file", "gone"}
                                  /\ x.raced \in BOOLEAN
           /\ x.pc \in Handling => x \in CfgCopies /\ x.text \in Nat
BY DEF EditStates, Editings, CfgWrites, CfgCopies, Writing, Handling

LEMMA IdleState == IdleEdit.pc = "idle" /\ IdleEdit \in EditStates
BY DEF IdleEdit, EditStates

(* y is x, overtaken or not.                                                    *)
CfgSame(x, y) ==
    /\ y \in EditStates /\ y.pc = x.pc
    /\ x.pc \in Writing => /\ y.rev = x.rev /\ y.text = x.text /\ y.path = x.path /\ y.found = x.found
                           /\ y.into = x.into /\ (x.raced => y.raced)
    /\ x.pc \in Handling => y.text = x.text

LEMMA SameItself == ASSUME NEW x \in EditStates PROVE CfgSame(x, x)
BY DEF CfgSame

LEMMA RacedSame ==
    ASSUME NEW x \in EditStates, x.pc \in Writing, NEW y, y = [x EXCEPT !.raced = TRUE]
    PROVE  CfgSame(x, y) /\ y.raced
<1>1. x \in CfgWrites
  BY StatesOf
<1>2. y \in CfgWrites /\ y.raced /\ y.pc = x.pc /\ y.rev = x.rev /\ y.text = x.text /\ y.path = x.path
      /\ y.found = x.found /\ y.into = x.into
  BY <1>1 DEF CfgWrites
<1>3. x.pc \notin Handling
  BY DEF Writing, Handling
<1>. QED  BY <1>2, <1>3 DEF CfgSame, EditStates

LEMMA OvertakeSame ==
    ASSUME NEW e, NEW p, NEW edits \in [Editors -> EditStates]
    PROVE  /\ Overtake(e, p, edits) \in [Editors -> EditStates]
           /\ \A f \in Editors : /\ CfgSame(edits[f], Overtake(e, p, edits)[f])
                                 /\ f # e /\ edits[f].pc \in Writing /\ edits[f].path = p
                                      => Overtake(e, p, edits)[f].raced
                                 /\ f = e => Overtake(e, p, edits)[f] = edits[f]
<1>. DEFINE new(f) == IF f # e /\ edits[f].pc \in Writing /\ edits[f].path = p
                      THEN [edits[f] EXCEPT !.raced = TRUE] ELSE edits[f]
            all == [f \in Editors |-> new(f)]
<1>1. ASSUME NEW f \in Editors
      PROVE  /\ new(f) \in EditStates /\ CfgSame(edits[f], new(f))
             /\ f # e /\ edits[f].pc \in Writing /\ edits[f].path = p => new(f).raced
             /\ f = e => new(f) = edits[f]
  <2>1. edits[f] \in EditStates
    OBVIOUS
  <2>2. CASE f # e /\ edits[f].pc \in Writing /\ edits[f].path = p
    <3>1. new(f) = [edits[f] EXCEPT !.raced = TRUE]
      BY <2>2
    <3>. HIDE DEF new
    <3>2. CfgSame(edits[f], new(f)) /\ new(f).raced
      BY <2>1, <2>2, <3>1, RacedSame
    <3>. QED  BY <2>2, <3>2 DEF CfgSame
  <2>3. CASE ~(f # e /\ edits[f].pc \in Writing /\ edits[f].path = p)
    BY <2>1, <2>3, SameItself
  <2>. QED  BY <2>2, <2>3
<1>. HIDE DEF new
<1>2. all \in [Editors -> EditStates] /\ \A f \in Editors : all[f] = new(f)
  BY <1>1
<1>3. Overtake(e, p, edits) = all
  BY DEF Overtake, new
<1>. HIDE DEF all
<1>. QED  BY <1>1, <1>2, <1>3

(* What keeps the promise of a save that is not the one acting.                 *)
LEMMA StillSeen ==
    ASSUME NEW x \in EditStates, NEW y, NEW files, NEW files2, NEW history, NEW history2,
           CfgSeen(x, files, history), y.pc = x.pc,
           x.pc \in Writing =>
             /\ y.rev = x.rev /\ y.path = x.path /\ y.found = x.found /\ (x.raced => y.raced)
             /\ y.into = x.into \/ (y.raced /\ x.pc \in Temping)
             /\ ~y.raced => /\ files2[x.path] = files[x.path]
                            /\ x.pc # "checked" /\ x.found \in ToSet(history) => x.found \in ToSet(history2)
    PROVE  CfgSeen(y, files2, history2)
BY DEF CfgSeen

LEMMA SameSeen ==
    ASSUME NEW x \in EditStates, NEW y, CfgSame(x, y), NEW files, NEW files2, NEW history, NEW history2,
           CfgSeen(x, files, history),
           x.pc \in Writing /\ ~y.raced =>
               /\ files2[x.path] = files[x.path]
               /\ x.pc # "checked" /\ x.found \in ToSet(history) => x.found \in ToSet(history2)
    PROVE  CfgSeen(y, files2, history2)
BY DEF CfgSame, CfgSeen

LEMMA ActiveFileIn ==
    CfgTypes => /\ ActiveFile \in Paths /\ cfgFiles[ActiveFile] \in Nat
                /\ ActiveFile = "local" \/ cfgFiles["local"] = Absent
BY ConfigStoreAssumption DEF CfgTypes, ActiveFile, Paths, CfgContents

LEMMA CfgInitInv == CfgInit => CfgInv
<1>. SUFFICES ASSUME CfgInit PROVE CfgInv
  OBVIOUS
<1>1. \A e \in Editors : cfgEdits[e] = IdleEdit /\ IdleEdit.pc = "idle" /\ IdleEdit \in EditStates
  <2>1. cfgEdits = [e \in Editors |-> IdleEdit]
    BY DEF CfgInit
  <2>. QED  BY <2>1, IdleState
<1>2. CfgTypes
  <2>1. cfgEdits \in [Editors -> EditStates] /\ cfgHistory \in Seq(CfgTexts)
    BY <1>1 DEF CfgInit
  <2>2. /\ cfgFiles \in [Paths -> CfgContents] /\ cfgFiles["base"] \in Nat
        /\ cfgTemps \in [Paths -> CfgContents]
    BY DEF CfgInit, CfgContents, Paths
  <2>3. /\ cfgOpened \in Editors \cup {NoEditor} /\ cfgTexts \in Nat /\ cfgCrashes \in Nat
        /\ cfgSilent \in BOOLEAN /\ cfgTangled \in BOOLEAN /\ cfgCurrent \in BOOLEAN
    BY DEF CfgInit
  <2>. QED  BY <2>1, <2>2, <2>3 DEF CfgTypes
<1>3. AllSeen /\ HandleHeld
  BY <1>1 DEF AllSeen, CfgSeen, Writing, HandleHeld, CfgInit
<1>4. OwnTemp /\ RunsShown
  BY <1>1 DEF OwnTemp, Temping, RunsShown, CfgSettled, CfgInit, Paths
<1>5. CfgWhole
  BY <1>1, ConfigStoreAssumption DEF CfgWhole, Handling, CfgInit, Paths, EmptyFile
<1>. QED  BY <1>2, <1>3, <1>4, <1>5 DEF CfgInv, CfgInit

-----------------------------------------------------------------------------
LEMMA NotHeld ==
    ASSUME CfgInv, NEW e \in Editors, cfgEdits[e].pc # "opened"
    PROVE  cfgOpened # e /\ e # NoEditor
BY ConfigStoreAssumption DEF CfgInv, HandleHeld

(* A request moves alone, and touches no file.                                  *)

LEMMA AloneStep ==
    ASSUME CfgInv, NEW e \in Editors, NEW y \in EditStates,
           cfgEdits' = [cfgEdits EXCEPT ![e] = y],
           CfgSeen(y, cfgFiles, cfgHistory), y.pc \notin Temping \cup {"opened"},
           CfgCalm /\ y.pc = "copying" => y.text # EmptyFile,
           cfgOpened # e, CfgCalm => RunsShown',
           UNCHANGED <<cfgFiles, cfgTemps, cfgHistory, cfgOpened, cfgSilent, cfgTangled, cfgCrashes>>,
           cfgTexts' \in Nat, cfgCurrent' \in BOOLEAN
    PROVE  CfgInv'
<1>1. /\ cfgEdits' \in [Editors -> EditStates] /\ cfgEdits'[e] = y
      /\ \A f \in Editors : f # e => cfgEdits'[f] = cfgEdits[f]
  BY DEF CfgInv, CfgTypes
<1>2. CfgTypes'
  BY <1>1 DEF CfgInv, CfgTypes
<1>3. AllSeen'
  BY <1>1 DEF CfgInv, AllSeen
<1>4. HandleHeld'
  BY <1>1 DEF CfgInv, CfgTypes, HandleHeld
<1>5. ASSUME CfgCalm'
      PROVE  OwnTemp' /\ CfgWhole' /\ RunsShown'
  <2>1. CfgCalm /\ OwnTemp /\ CfgWhole
    BY <1>5 DEF CfgCalm, CfgInv
  <2>2. \A f \in Editors : cfgEdits'[f].pc \in Temping => f # e /\ cfgEdits'[f] = cfgEdits[f]
    BY <1>1
  <2>3. OwnTemp'
    BY <2>1, <2>2 DEF OwnTemp, Temping
  <2>4. \A f \in Editors : cfgEdits'[f].pc \in Handling => cfgEdits'[f].text # EmptyFile
    BY <1>1, <2>1 DEF CfgWhole, Handling
  <2>5. CfgWhole'
    BY <2>1, <2>4 DEF CfgWhole
  <2>. QED  BY <2>1, <2>3, <2>5
<1>. QED  BY <1>2, <1>3, <1>4, <1>5 DEF CfgInv

LEMMA AloneShown ==
    ASSUME CfgInv, NEW e \in Editors, NEW y, cfgEdits' = [cfgEdits EXCEPT ![e] = y],
           cfgEdits[e].pc # "saved" \/ y.pc = "saved",
           UNCHANGED <<cfgFiles, cfgOpened, cfgLoaded, cfgCurrent>>, CfgCalm
    PROVE  RunsShown'
<1>1. \A f \in Editors : cfgEdits[f].pc = "saved" => cfgEdits'[f].pc = "saved"
  BY DEF CfgInv, CfgTypes
<1>2. CfgSettled(cfgFiles, cfgOpened)' = CfgSettled(cfgFiles, cfgOpened)
  BY DEF CfgSettled
<1>. QED  BY <1>1, <1>2 DEF CfgInv, RunsShown

LEMMA CfgOpenInv ==
    ASSUME CfgInv, NEW e \in Editors, CfgOpen(e)
    PROVE  CfgInv'
<1>1. PICK text \in ToSet(cfgHistory) \union (IF cfgTexts < MaxTexts THEN {cfgTexts + 1} ELSE {}) :
        /\ cfgEdits' = [cfgEdits EXCEPT ![e] =
               [pc |-> "editing", rev |-> cfgFiles[ActiveFile], text |-> text]]
        /\ cfgTexts' = IF text > cfgTexts THEN text ELSE cfgTexts
  BY DEF CfgOpen
<1>. DEFINE y == [pc |-> "editing", rev |-> cfgFiles[ActiveFile], text |-> text]
<1>2. text \in CfgTexts
  <2>1. cfgHistory \in Seq(CfgTexts) /\ cfgTexts \in Nat
    BY DEF CfgInv, CfgTypes
  <2>2. cfgTexts + 1 \in CfgTexts
    BY <2>1 DEF CfgTexts, EmptyFile
  <2>3. ToSet(cfgHistory) \subseteq CfgTexts
    BY <2>1 DEF ToSet
  <2>. QED  BY <2>2, <2>3
<1>3. y \in EditStates /\ y.pc = "editing"
  BY <1>2, ActiveFileIn DEF EditStates, Editings, CfgInv
<1>4. CfgSeen(y, cfgFiles, cfgHistory) /\ y.pc \notin Temping \cup {"opened"} /\ y.pc # "copying"
  BY <1>3 DEF CfgSeen, Writing, Temping
<1>5. cfgOpened # e /\ cfgEdits[e].pc # "saved"
  BY NotHeld DEF CfgOpen
<1>6. cfgTexts' \in Nat
  BY <1>1, <1>2 DEF CfgInv, CfgTypes, CfgTexts
<1>7. /\ UNCHANGED <<cfgFiles, cfgTemps, cfgHistory, cfgOpened, cfgSilent, cfgTangled, cfgCrashes>>
      /\ UNCHANGED <<cfgLoaded, cfgCurrent>> /\ cfgCurrent \in BOOLEAN
  BY DEF CfgOpen, CfgInv, CfgTypes
<1>. HIDE DEF y
<1>8. cfgEdits' = [cfgEdits EXCEPT ![e] = y]
  BY <1>1 DEF y
<1>. QED  BY <1>3, <1>4, <1>5, <1>6, <1>7, <1>8, AloneStep, AloneShown

(* A request that ends.                                                         *)
LEMMA EndsInv ==
    ASSUME CfgInv, NEW e \in Editors, cfgEdits' = [cfgEdits EXCEPT ![e] = IdleEdit],
           cfgEdits[e].pc # "saved", cfgOpened # e,
           UNCHANGED <<cfgFiles, cfgTemps, cfgHistory, cfgOpened, cfgSilent, cfgTangled, cfgCrashes,
                       cfgLoaded, cfgCurrent, cfgTexts>>
    PROVE  CfgInv'
<1>1. IdleEdit \in EditStates /\ IdleEdit.pc = "idle"
  BY IdleState
<1>2. /\ CfgSeen(IdleEdit, cfgFiles, cfgHistory) /\ IdleEdit.pc \notin Temping \cup {"opened"}
      /\ IdleEdit.pc # "copying"
  BY <1>1 DEF CfgSeen, Writing, Temping
<1>3. cfgTexts' \in Nat /\ cfgCurrent' \in BOOLEAN
  BY DEF CfgInv, CfgTypes
<1>. QED  BY <1>1, <1>2, <1>3, AloneStep, AloneShown

LEMMA SaveFailsInv ==
    ASSUME CfgInv, NEW e \in Editors, SaveFails(e)
    PROVE  CfgInv'
<1>1. cfgEdits[e].pc # "saved" /\ cfgOpened # e
  BY NotHeld DEF SaveFails
<1>. QED  BY <1>1, EndsInv DEF SaveFails

LEMMA WriteChecksInv ==
    ASSUME CfgInv, NEW e \in Editors, WriteChecks(e)
    PROVE  CfgInv'
<1>1. /\ cfgEdits[e].pc = "editing" /\ cfgEdits[e] \in EditStates
      /\ cfgEdits[e].pc # "saved" /\ cfgOpened # e
  BY NotHeld DEF WriteChecks, CfgInv, CfgTypes
<1>2. UNCHANGED <<cfgFiles, cfgTemps, cfgHistory, cfgOpened, cfgSilent, cfgTangled, cfgCrashes,
                  cfgLoaded, cfgCurrent, cfgTexts>>
  BY DEF WriteChecks
<1>3. CASE cfgFiles[ActiveFile] # cfgEdits[e].rev
  BY <1>1, <1>2, <1>3, EndsInv DEF WriteChecks
<1>4. CASE cfgFiles[ActiveFile] = cfgEdits[e].rev
  <2>. DEFINE rev == cfgEdits[e].rev
              text == cfgEdits[e].text
              path == ActiveFile
              y == [pc |-> "checked", rev |-> rev, text |-> text, path |-> path,
                    found |-> cfgFiles[path], into |-> "temp", raced |-> FALSE]
  <2>1. cfgEdits' = [cfgEdits EXCEPT ![e] = y]
    BY <1>4 DEF WriteChecks
  <2>2. rev \in Nat /\ text \in CfgTexts /\ path \in Paths /\ cfgFiles[path] \in Nat /\ cfgFiles[path] = rev
    BY <1>1, <1>4, StatesOf, ActiveFileIn DEF CfgInv
  <2>. HIDE DEF rev, text, path
  <2>3. y \in CfgWrites /\ y.pc = "checked" /\ y.found = y.rev /\ cfgFiles[y.path] = y.found /\ y.into = "temp"
    BY <2>2 DEF CfgWrites, Writing
  <2>. HIDE DEF y
  <2>4. /\ y \in EditStates /\ CfgSeen(y, cfgFiles, cfgHistory)
        /\ y.pc \notin Temping \cup {"opened"} /\ y.pc # "copying"
    BY <2>3 DEF EditStates, CfgSeen, Temping
  <2>5. cfgTexts' \in Nat /\ cfgCurrent' \in BOOLEAN
    BY <1>2 DEF CfgInv, CfgTypes
  <2>. QED  BY <1>1, <1>2, <2>1, <2>4, <2>5, AloneStep, AloneShown
<1>. QED  BY <1>3, <1>4

LEMMA SaveRescanInv ==
    ASSUME CfgInv, NEW e \in Editors, SaveRescan(e)
    PROVE  CfgInv'
<1>1. /\ cfgEdits' = [cfgEdits EXCEPT ![e] = IdleEdit] /\ cfgOpened # e
      /\ UNCHANGED <<cfgFiles, cfgTemps, cfgHistory, cfgOpened, cfgSilent, cfgTangled, cfgCrashes, cfgTexts>>
  BY NotHeld DEF SaveRescan
<1>2. IdleEdit \in EditStates /\ IdleEdit.pc = "idle"
  BY IdleState
<1>3. /\ CfgSeen(IdleEdit, cfgFiles, cfgHistory) /\ IdleEdit.pc \notin Temping \cup {"opened"}
      /\ IdleEdit.pc # "copying"
  BY <1>2 DEF CfgSeen, Writing, Temping
<1>4. RunsShown'
  <2>1. cfgLoaded' = cfgFiles[ActiveFile] /\ cfgCurrent' = (cfgOpened = NoEditor)
    BY DEF SaveRescan
  <2>2. cfgOpened = NoEditor => CfgSettled(cfgFiles, cfgOpened)' = cfgFiles[ActiveFile]
    BY <1>1 DEF CfgSettled, ActiveFile
  <2>. QED  BY <2>1, <2>2 DEF RunsShown
<1>5. cfgTexts' \in Nat /\ cfgCurrent' \in BOOLEAN
  BY DEF SaveRescan, CfgInv, CfgTypes
<1>. QED  BY <1>1, <1>2, <1>3, <1>4, <1>5, AloneStep

LEMMA LocalReadInv ==
    ASSUME CfgInv, NEW e \in Editors, LocalRead(e)
    PROVE  CfgInv'
<1>. DEFINE y == [pc |-> "copying", text |-> cfgFiles["base"]]
<1>1. /\ cfgEdits[e].pc # "saved" /\ cfgOpened # e /\ cfgEdits' = [cfgEdits EXCEPT ![e] = y]
      /\ UNCHANGED <<cfgFiles, cfgTemps, cfgHistory, cfgOpened, cfgSilent, cfgTangled, cfgCrashes,
                     cfgLoaded, cfgCurrent, cfgTexts>>
  BY NotHeld DEF LocalRead
<1>2. cfgFiles["base"] \in Nat /\ cfgTexts' \in Nat /\ cfgCurrent' \in BOOLEAN
  BY <1>1 DEF CfgInv, CfgTypes
<1>3. y \in EditStates /\ y.pc = "copying" /\ y.text = cfgFiles["base"]
  BY <1>2 DEF EditStates, CfgCopies, Handling
<1>. HIDE DEF y
<1>4. CfgCalm => y.text # EmptyFile
  BY <1>3 DEF CfgInv, CfgWhole
<1>5. CfgSeen(y, cfgFiles, cfgHistory) /\ y.pc \notin Temping \cup {"opened"}
  BY <1>3 DEF CfgSeen, Writing, Temping
<1>. QED  BY <1>1, <1>2, <1>3, <1>4, <1>5, AloneStep, AloneShown

-----------------------------------------------------------------------------
(* A request writes a file or a temp file, and overtakes the saves of the path. *)

(* y is x after a write of path p by another.                                   *)
CfgAfter(x, y, p) ==
    /\ y \in EditStates /\ y.pc = x.pc
    /\ x.pc \in Writing => /\ y.rev = x.rev /\ y.text = x.text /\ y.path = x.path /\ y.found = x.found
                           /\ y.into = x.into \/ (y.raced /\ x.pc = "truncated" /\ x.path = p)
                           /\ x.raced \/ x.path = p => y.raced
    /\ x.pc \in Handling => y.text = x.text

LEMMA OvertakeAfter ==
    ASSUME NEW e, NEW p, NEW edits \in [Editors -> EditStates], NEW f \in Editors, f # e
    PROVE  CfgAfter(edits[f], Overtake(e, p, edits)[f], p)
<1>. DEFINE x == edits[f]
            y == Overtake(e, p, edits)[f]
<1>1. x \in EditStates /\ CfgSame(x, y) /\ (x.pc \in Writing /\ x.path = p => y.raced)
  BY OvertakeSame
<1>. HIDE DEF x, y
<1>2. CfgAfter(x, y, p)
  BY <1>1 DEF CfgAfter, CfgSame
<1>. QED  BY <1>2 DEF x, y

LEMMA OthersSeen ==
    ASSUME CfgInv, NEW e, NEW p \in Paths,
           \A f \in Editors : f # e => CfgAfter(cfgEdits[f], cfgEdits'[f], p),
           \A q \in Paths : q # p => cfgFiles'[q] = cfgFiles[q], cfgHistory' = cfgHistory,
           e \in Editors => CfgSeen(cfgEdits'[e], cfgFiles', cfgHistory')
    PROVE  AllSeen'
<1>. SUFFICES ASSUME NEW f \in Editors, f # e
              PROVE  CfgSeen(cfgEdits'[f], cfgFiles', cfgHistory')
  BY DEF AllSeen
<1>. DEFINE x == cfgEdits[f]
            y == cfgEdits'[f]
            files == cfgFiles
            files2 == cfgFiles'
            history == cfgHistory
<1>1. x \in EditStates /\ CfgSeen(x, files, history) /\ CfgAfter(x, y, p)
  BY DEF CfgInv, CfgTypes, AllSeen
<1>2. \A q \in Paths : q # p => files2[q] = files[q]
  OBVIOUS
<1>. HIDE DEF x, y, files, files2, history
<1>3. x.pc \in Writing =>
             /\ y.rev = x.rev /\ y.path = x.path /\ y.found = x.found /\ (x.raced => y.raced)
             /\ y.into = x.into \/ (y.raced /\ x.pc \in Temping)
             /\ ~y.raced => files2[x.path] = files[x.path]
  BY <1>1, <1>2, StatesOf DEF CfgAfter, Temping
<1>4. CfgSeen(y, files2, history)
  BY <1>1, <1>3, StillSeen DEF CfgAfter
<1>. QED  BY <1>4 DEF y, files2, history

(* Nobody else uses the temp file of a path, and what others have in theirs     *)
(* stays there.                                                                 *)
LEMMA OthersOwn ==
    ASSUME CfgInv, OwnTemp, CfgWhole, NEW e, NEW p \in Paths,
           \A f \in Editors : f # e => CfgAfter(cfgEdits[f], cfgEdits'[f], p),
           \A q \in Paths : q # p => cfgTemps'[q] = cfgTemps[q],
           \A f \in Editors : f # e /\ cfgEdits[f].pc \in Temping => cfgEdits[f].path # p,
           e \in Editors => /\ cfgEdits'[e].pc \in Temping => cfgEdits'[e].path = p
                            /\ cfgEdits'[e].pc = "truncated" => cfgEdits'[e].into = "temp"
                            /\ cfgEdits'[e].pc = "filled" => cfgTemps'[p] = cfgEdits'[e].text
                            /\ cfgEdits'[e].pc \in Handling => cfgEdits'[e].text # EmptyFile
    PROVE  OwnTemp' /\ \A f \in Editors : cfgEdits'[f].pc \in Handling => cfgEdits'[f].text # EmptyFile
<1>1. ASSUME NEW f \in Editors, f # e, cfgEdits'[f].pc \in Temping
      PROVE  /\ cfgEdits'[f].pc = cfgEdits[f].pc /\ cfgEdits'[f].path = cfgEdits[f].path
             /\ cfgEdits'[f].text = cfgEdits[f].text /\ cfgEdits'[f].into = cfgEdits[f].into
             /\ cfgEdits[f].path \in Paths /\ cfgEdits[f].path # p
  <2>1. cfgEdits[f] \in EditStates /\ CfgAfter(cfgEdits[f], cfgEdits'[f], p) /\ cfgEdits[f].pc \in Temping
    BY <1>1 DEF CfgInv, CfgTypes, CfgAfter
  <2>2. cfgEdits[f].pc \in Writing
    BY <2>1 DEF Writing, Temping
  <2>. QED  BY <1>1, <2>1, <2>2, StatesOf DEF CfgAfter
<1>2. \A f, g \in Editors :
         cfgEdits'[f].pc \in Temping /\ cfgEdits'[g].pc \in Temping /\ cfgEdits'[f].path = cfgEdits'[g].path
           => f = g
  <2>. SUFFICES ASSUME NEW f \in Editors, NEW g \in Editors, cfgEdits'[f].pc \in Temping,
                       cfgEdits'[g].pc \in Temping, cfgEdits'[f].path = cfgEdits'[g].path, f # g
                PROVE  FALSE
    OBVIOUS
  <2>1. CASE f # e /\ g # e
    BY <1>1, <2>1 DEF OwnTemp
  <2>2. CASE f = e \/ g = e
    BY <1>1, <2>2
  <2>. QED  BY <2>1, <2>2
<1>3. ASSUME NEW f \in Editors
      PROVE  /\ cfgEdits'[f].pc = "truncated" => cfgEdits'[f].into = "temp"
             /\ cfgEdits'[f].pc = "filled" => cfgTemps'[cfgEdits'[f].path] = cfgEdits'[f].text
  <2>1. CASE f = e
    BY <2>1 DEF Temping
  <2>2. CASE f # e
    BY <1>1, <2>2 DEF OwnTemp, Temping
  <2>. QED  BY <2>1, <2>2
<1>4. \A f \in Editors : cfgEdits'[f].pc \in Handling => cfgEdits'[f].text # EmptyFile
  <2>. SUFFICES ASSUME NEW f \in Editors, f # e, cfgEdits'[f].pc \in Handling
                PROVE  cfgEdits'[f].text # EmptyFile
    OBVIOUS
  <2>1. cfgEdits[f].pc = cfgEdits'[f].pc /\ cfgEdits[f].text = cfgEdits'[f].text
    BY DEF CfgAfter
  <2>. QED  BY <2>1 DEF CfgWhole
<1>. QED  BY <1>2, <1>3, <1>4 DEF OwnTemp

(* Others that were overtaken at most, and temp files nobody touched.           *)
LEMMA SameOwn ==
    ASSUME OwnTemp, CfgWhole, NEW e, cfgTemps' = cfgTemps,
           \A f \in Editors : f # e => CfgSame(cfgEdits[f], cfgEdits'[f]),
           e \in Editors => cfgEdits'[e].pc \notin Temping \cup Handling
    PROVE  OwnTemp' /\ \A f \in Editors : cfgEdits'[f].pc \in Handling => cfgEdits'[f].text # EmptyFile
<1>1. ASSUME NEW f \in Editors, cfgEdits'[f].pc \in Temping
      PROVE  /\ cfgEdits'[f].pc = cfgEdits[f].pc /\ cfgEdits'[f].path = cfgEdits[f].path
             /\ cfgEdits'[f].text = cfgEdits[f].text /\ cfgEdits'[f].into = cfgEdits[f].into
  BY <1>1 DEF CfgSame, Temping, Writing
<1>2. \A f \in Editors : cfgEdits'[f].pc \in Handling => cfgEdits'[f].text # EmptyFile
  BY DEF CfgSame, CfgWhole
<1>. QED  BY <1>1, <1>2 DEF OwnTemp, Temping

(* A write that leaves the files as they were.                                  *)
LEMMA SameShown ==
    ASSUME RunsShown, UNCHANGED <<cfgFiles, cfgOpened, cfgLoaded, cfgCurrent>>,
           \A f \in Editors : cfgEdits[f].pc = "saved" => cfgEdits'[f].pc = "saved"
    PROVE  RunsShown'
<1>1. CfgSettled(cfgFiles, cfgOpened)' = CfgSettled(cfgFiles, cfgOpened)
  BY DEF CfgSettled
<1>. QED  BY <1>1 DEF RunsShown

LEMMA HandleStays ==
    ASSUME CfgInv, NEW e, cfgOpened' = cfgOpened, cfgOpened # e,
           \A f \in Editors : f # e => cfgEdits'[f].pc = cfgEdits[f].pc
    PROVE  HandleHeld'
BY DEF CfgInv, CfgTypes, HandleHeld

(* The new state of the request that acts, before the others are overtaken.     *)
LEMMA NewState ==
    ASSUME CfgInv, NEW e \in Editors, NEW p, NEW y \in EditStates,
           cfgEdits' = Overtake(e, p, [cfgEdits EXCEPT ![e] = y])
    PROVE  /\ cfgEdits' \in [Editors -> EditStates] /\ cfgEdits'[e] = y
           /\ \A f \in Editors : f # e => /\ CfgAfter(cfgEdits[f], cfgEdits'[f], p)
                                         /\ CfgSame(cfgEdits[f], cfgEdits'[f])
<1>. DEFINE edits == [cfgEdits EXCEPT ![e] = y]
<1>1. edits \in [Editors -> EditStates] /\ edits[e] = y
      /\ \A f \in Editors : f # e => edits[f] = cfgEdits[f]
  BY DEF CfgInv, CfgTypes
<1>2. cfgEdits' = Overtake(e, p, edits)
  OBVIOUS
<1>. HIDE DEF edits
<1>3. \A f \in Editors : f # e => CfgAfter(edits[f], cfgEdits'[f], p)
  BY <1>1, <1>2, OvertakeAfter
<1>4. cfgEdits' \in [Editors -> EditStates] /\ cfgEdits'[e] = edits[e]
  <2>1. Overtake(e, p, edits) \in [Editors -> EditStates] /\ Overtake(e, p, edits)[e] = edits[e]
    BY <1>1, OvertakeSame
  <2>. QED  BY <1>2, <2>1
<1>5. \A f \in Editors : f # e => CfgSame(edits[f], cfgEdits'[f])
  BY <1>1, <1>2, OvertakeSame
<1>. QED  BY <1>1, <1>3, <1>4, <1>5

(* A writing request with another pc.                                           *)
LEMMA MovesOn ==
    ASSUME NEW x \in EditStates, x.pc \in Writing, NEW pc \in Writing, NEW y, y = [x EXCEPT !.pc = pc]
    PROVE  /\ y \in EditStates /\ y \in CfgWrites /\ y.pc = pc /\ y.rev = x.rev /\ y.text = x.text
           /\ y.path = x.path /\ y.found = x.found /\ y.into = x.into /\ y.raced = x.raced
<1>1. x \in CfgWrites
  BY StatesOf
<1>2. /\ y \in CfgWrites /\ y.pc = pc /\ y.rev = x.rev /\ y.text = x.text
      /\ y.path = x.path /\ y.found = x.found /\ y.into = x.into /\ y.raced = x.raced
  BY <1>1 DEF CfgWrites
<1>. QED  BY <1>2 DEF EditStates

LEMMA TempTruncateInv ==
    ASSUME CfgInv, NEW e \in Editors, TempTruncate(e)
    PROVE  CfgInv'
<1>. DEFINE x == cfgEdits[e]
            y == [x EXCEPT !.pc = "truncated"]
            p == x.path
<1>1. x \in EditStates /\ x.pc = "kept" /\ CfgSeen(x, cfgFiles, cfgHistory)
  BY DEF CfgInv, CfgTypes, AllSeen, TempTruncate
<1>2. /\ y \in EditStates /\ y.pc = "truncated" /\ y.path = p /\ y.into = x.into
      /\ y.rev = x.rev /\ y.found = x.found /\ y.raced = x.raced
  BY <1>1, MovesOn DEF Writing
<1>3. p \in Paths /\ x.into = "temp"
  BY <1>1, StatesOf DEF CfgSeen, Writing, Temping
<1>4. /\ cfgTemps' = [cfgTemps EXCEPT ![p] = EmptyFile]
      /\ cfgEdits' = Overtake(e, p, [cfgEdits EXCEPT ![e] = y])
      /\ cfgTangled' = (cfgTangled \/ \E f \in Editors \ {e} : /\ cfgEdits[f].pc \in {"truncated", "filled"}
                                                              /\ cfgEdits[f].path = p)
      /\ UNCHANGED <<cfgFiles, cfgHistory, cfgOpened, cfgTexts, cfgLoaded, cfgSilent, cfgCurrent, cfgCrashes>>
  BY DEF TempTruncate
<1>5. cfgOpened # e
  BY <1>1, NotHeld
<1>6. CfgSeen(y, cfgFiles, cfgHistory)
  BY <1>1, <1>2, <1>3 DEF CfgSeen, Writing, Temping
<1>. HIDE DEF x, y, p
<1>7. /\ cfgEdits' \in [Editors -> EditStates] /\ cfgEdits'[e] = y
      /\ \A f \in Editors : f # e => CfgAfter(cfgEdits[f], cfgEdits'[f], p)
  BY <1>2, <1>4, NewState
<1>8. CfgTypes'
  <2>1. cfgTemps' \in [Paths -> CfgContents] /\ cfgTangled' \in BOOLEAN
    BY <1>3, <1>4 DEF CfgInv, CfgTypes, CfgContents, EmptyFile
  <2>2. /\ cfgFiles' = cfgFiles /\ cfgHistory' = cfgHistory /\ cfgOpened' = cfgOpened /\ cfgTexts' = cfgTexts
        /\ cfgSilent' = cfgSilent /\ cfgCurrent' = cfgCurrent /\ cfgCrashes' = cfgCrashes
    BY <1>4
  <2>3. cfgEdits' \in [Editors -> EditStates]
    BY <1>7
  <2>4. CfgTypes
    BY DEF CfgInv
  <2>. QED  BY <2>1, <2>2, <2>3, <2>4 DEF CfgTypes
<1>9. AllSeen' /\ HandleHeld'
  <2>1. \A f \in Editors : f # e => cfgEdits'[f].pc = cfgEdits[f].pc
    BY <1>7 DEF CfgAfter
  <2>2. cfgOpened' = cfgOpened /\ cfgFiles' = cfgFiles /\ cfgHistory' = cfgHistory
    BY <1>4
  <2>3. CfgSeen(cfgEdits'[e], cfgFiles', cfgHistory')
    BY <1>6, <1>7, <2>2
  <2>4. \A q \in Paths : q # p => cfgFiles'[q] = cfgFiles[q]
    BY <2>2
  <2>5. AllSeen'
    BY <1>3, <1>7, <2>2, <2>3, <2>4, OthersSeen
  <2>. QED  BY <1>5, <2>1, <2>2, <2>5, HandleStays
<1>10. ASSUME CfgCalm'
       PROVE  OwnTemp' /\ CfgWhole' /\ RunsShown'
  <2>1. CfgCalm /\ OwnTemp /\ CfgWhole /\ RunsShown
    BY <1>4, <1>10 DEF CfgCalm, CfgInv
  <2>2. \A f \in Editors : f # e /\ cfgEdits[f].pc \in Temping => cfgEdits[f].path # p
    BY <1>4, <1>10 DEF CfgCalm, Temping
  <2>3. \A q \in Paths : q # p => cfgTemps'[q] = cfgTemps[q]
    BY <1>4 DEF CfgInv, CfgTypes
  <2>4. OwnTemp' /\ \A f \in Editors : cfgEdits'[f].pc \in Handling => cfgEdits'[f].text # EmptyFile
    BY <1>2, <1>3, <1>7, <2>1, <2>2, <2>3, OthersOwn DEF Handling
  <2>5. RunsShown'
    <3>1. \A f \in Editors : cfgEdits[f].pc = "saved" => cfgEdits'[f].pc = "saved"
      BY <1>1, <1>7 DEF CfgAfter, x
    <3>. QED  BY <1>4, <2>1, <3>1, SameShown
  <2>. QED  BY <1>4, <2>1, <2>4, <2>5 DEF CfgWhole
<1>. QED  BY <1>4, <1>8, <1>9, <1>10 DEF CfgInv

LEMMA TempFillInv ==
    ASSUME CfgInv, NEW e \in Editors, TempFill(e)
    PROVE  CfgInv'
<1>. DEFINE x == cfgEdits[e]
            y == [x EXCEPT !.pc = "filled"]
            p == x.path
            text == x.text
<1>1. x \in EditStates /\ x.pc = "truncated" /\ CfgSeen(x, cfgFiles, cfgHistory)
  BY DEF CfgInv, CfgTypes, AllSeen, TempFill
<1>2. /\ y \in EditStates /\ y.pc = "filled" /\ y.path = p /\ y.into = x.into /\ y.text = text
      /\ y.rev = x.rev /\ y.found = x.found /\ y.raced = x.raced
  BY <1>1, MovesOn DEF Writing
<1>3. p \in Paths /\ text \in CfgTexts /\ (x.into # "temp" => x.raced)
  BY <1>1, StatesOf DEF CfgSeen, Writing
<1>4. /\ cfgTemps' = IF x.into = "temp" THEN [cfgTemps EXCEPT ![p] = text] ELSE cfgTemps
      /\ cfgFiles' = IF x.into = "file" THEN [cfgFiles EXCEPT ![p] = text] ELSE cfgFiles
      /\ cfgEdits' = Overtake(e, p, [cfgEdits EXCEPT ![e] = y])
      /\ UNCHANGED <<cfgHistory, cfgOpened, cfgTexts, cfgLoaded, cfgSilent, cfgTangled,
                     cfgCurrent, cfgCrashes>>
  BY DEF TempFill
<1>5. cfgOpened # e
  BY <1>1, NotHeld
<1>6. CfgSeen(y, cfgFiles', cfgHistory)
  BY <1>1, <1>2, <1>3, <1>4 DEF CfgSeen, Writing, Temping
<1>. HIDE DEF x, y, p, text
<1>7. /\ cfgEdits' \in [Editors -> EditStates] /\ cfgEdits'[e] = y
      /\ \A f \in Editors : f # e => CfgAfter(cfgEdits[f], cfgEdits'[f], p)
  BY <1>2, <1>4, NewState
<1>8. CfgTypes'
  <2>1. cfgTemps' \in [Paths -> CfgContents]
    BY <1>3, <1>4 DEF CfgInv, CfgTypes, CfgContents, CfgTexts
  <2>2. cfgFiles' \in [Paths -> CfgContents] /\ cfgFiles'["base"] \in Nat
    BY <1>3, <1>4 DEF CfgInv, CfgTypes, CfgContents, CfgTexts, Paths
  <2>3. cfgEdits' \in [Editors -> EditStates]
    BY <1>7
  <2>. QED  BY <1>4, <2>1, <2>2, <2>3 DEF CfgInv, CfgTypes
<1>9. AllSeen' /\ HandleHeld'
  <2>1. \A f \in Editors : f # e => cfgEdits'[f].pc = cfgEdits[f].pc
    BY <1>7 DEF CfgAfter
  <2>2. \A q \in Paths : q # p => cfgFiles'[q] = cfgFiles[q]
    BY <1>4 DEF CfgInv, CfgTypes
  <2>3. CfgSeen(cfgEdits'[e], cfgFiles', cfgHistory')
    BY <1>4, <1>6, <1>7
  <2>4. cfgOpened' = cfgOpened /\ cfgHistory' = cfgHistory
    BY <1>4
  <2>5. AllSeen'
    BY <1>3, <1>7, <2>2, <2>3, <2>4, OthersSeen
  <2>. QED  BY <1>5, <2>1, <2>4, <2>5, HandleStays
<1>10. ASSUME CfgCalm'
       PROVE  OwnTemp' /\ CfgWhole' /\ RunsShown'
  <2>1. CfgCalm /\ OwnTemp /\ CfgWhole /\ RunsShown
    BY <1>4, <1>10 DEF CfgCalm, CfgInv
  <2>2. x.into = "temp"
    BY <1>1, <2>1 DEF OwnTemp, x
  <2>3. cfgTemps' = [cfgTemps EXCEPT ![p] = text] /\ cfgFiles' = cfgFiles
    BY <1>4, <2>2
  <2>4. \A f \in Editors : f # e /\ cfgEdits[f].pc \in Temping => cfgEdits[f].path # p
    BY <1>1, <2>1 DEF OwnTemp, Temping, x, p
  <2>5. (\A q \in Paths : q # p => cfgTemps'[q] = cfgTemps[q]) /\ cfgTemps'[p] = text
    BY <1>3, <2>3 DEF CfgInv, CfgTypes
  <2>6. OwnTemp' /\ \A f \in Editors : cfgEdits'[f].pc \in Handling => cfgEdits'[f].text # EmptyFile
    BY <1>2, <1>3, <1>7, <2>1, <2>4, <2>5, OthersOwn DEF Handling
  <2>7. RunsShown'
    <3>1. \A f \in Editors : cfgEdits[f].pc = "saved" => cfgEdits'[f].pc = "saved"
      BY <1>1, <1>7 DEF CfgAfter, x
    <3>. QED  BY <1>4, <2>1, <2>3, <3>1, SameShown
  <2>8. CfgWhole'
    BY <1>4, <2>1, <2>3, <2>6 DEF CfgWhole
  <2>. QED  BY <2>6, <2>7, <2>8
<1>. QED  BY <1>4, <1>8, <1>9, <1>10 DEF CfgInv

LEMMA SavedState == [pc |-> "saved"] \in EditStates /\ [pc |-> "saved"].pc = "saved"
BY DEF EditStates

(* Where the handles of a renamed temp file lead.                               *)
LEMMA FollowMoved ==
    ASSUME NEW p, NEW edits \in [Editors -> EditStates]
    PROVE  /\ Follow(p, edits) \in [Editors -> EditStates]
           /\ \A f \in Editors :
                /\ ~(edits[f].pc = "truncated" /\ edits[f].path = p) => Follow(p, edits)[f] = edits[f]
                /\ edits[f].pc = "truncated" =>
                     LET y == Follow(p, edits)[f]
                     IN  /\ y \in CfgWrites /\ y.pc = "truncated" /\ y.rev = edits[f].rev
                         /\ y.text = edits[f].text /\ y.path = edits[f].path /\ y.found = edits[f].found
                         /\ y.raced = edits[f].raced
<1>. DEFINE new(f) == IF edits[f].pc = "truncated" /\ edits[f].path = p
                      THEN [edits[f] EXCEPT !.into = IF @ = "temp" THEN "file" ELSE "gone"] ELSE edits[f]
            all == [f \in Editors |-> new(f)]
<1>1. ASSUME NEW f \in Editors
      PROVE  /\ new(f) \in EditStates
             /\ ~(edits[f].pc = "truncated" /\ edits[f].path = p) => new(f) = edits[f]
             /\ edits[f].pc = "truncated" =>
                  /\ new(f) \in CfgWrites /\ new(f).pc = "truncated" /\ new(f).rev = edits[f].rev
                  /\ new(f).text = edits[f].text /\ new(f).path = edits[f].path
                  /\ new(f).found = edits[f].found /\ new(f).raced = edits[f].raced
  <2>1. edits[f] \in EditStates
    OBVIOUS
  <2>2. CASE edits[f].pc = "truncated" /\ edits[f].path = p
    <3>. DEFINE x == edits[f]
                into == IF x.into = "temp" THEN "file" ELSE "gone"
    <3>1. x \in CfgWrites /\ x.pc = "truncated"
      BY <2>1, <2>2, StatesOf DEF Writing
    <3>2. new(f) = [x EXCEPT !.into = into] /\ into \in {"temp", "file", "gone"}
      BY <2>2
    <3>. HIDE DEF new, x, into
    <3>3. /\ new(f) \in CfgWrites /\ new(f).pc = "truncated" /\ new(f).rev = x.rev
          /\ new(f).text = x.text /\ new(f).path = x.path
          /\ new(f).found = x.found /\ new(f).raced = x.raced
      BY <3>1, <3>2 DEF CfgWrites
    <3>. QED  BY <2>2, <3>3 DEF EditStates, x
  <2>3. CASE ~(edits[f].pc = "truncated" /\ edits[f].path = p)
    <3>1. new(f) = edits[f]
      BY <2>3
    <3>. HIDE DEF new
    <3>2. edits[f].pc = "truncated" => edits[f] \in CfgWrites
      BY <2>1, StatesOf DEF Writing
    <3>. QED  BY <2>1, <2>3, <3>1, <3>2
  <2>. QED  BY <2>2, <2>3
<1>. HIDE DEF new
<1>2. all \in [Editors -> EditStates] /\ \A f \in Editors : all[f] = new(f)
  BY <1>1
<1>3. Follow(p, edits) = all
  BY DEF Follow, new
<1>. HIDE DEF all
<1>. QED  BY <1>1, <1>2, <1>3

(* The others after a rename on p.                                              *)
LEMMA RenameState ==
    ASSUME CfgInv, NEW e \in Editors, NEW p, NEW y \in EditStates, y.pc = "saved",
           cfgEdits' = Overtake(e, p, Follow(p, [cfgEdits EXCEPT ![e] = y]))
    PROVE  /\ cfgEdits' \in [Editors -> EditStates] /\ cfgEdits'[e] = y
           /\ \A f \in Editors : f # e => CfgAfter(cfgEdits[f], cfgEdits'[f], p)
<1>. DEFINE edits == [cfgEdits EXCEPT ![e] = y]
            moved == Follow(p, edits)
<1>1. edits \in [Editors -> EditStates] /\ edits[e] = y
      /\ \A f \in Editors : f # e => edits[f] = cfgEdits[f]
  BY DEF CfgInv, CfgTypes
<1>. HIDE DEF edits
<1>2. moved \in [Editors -> EditStates]
  BY <1>1, FollowMoved
<1>3. moved[e] = y
  BY <1>1, FollowMoved
<1>4. ASSUME NEW f \in Editors, f # e
      PROVE  CfgAfter(cfgEdits[f], cfgEdits'[f], p)
  <2>. DEFINE x == edits[f]
              m == moved[f]
              z == cfgEdits'[f]
  <2>1. x = cfgEdits[f] /\ x \in EditStates
    BY <1>1, <1>4
  <2>2. /\ ~(x.pc = "truncated" /\ x.path = p) => m = x
        /\ x.pc = "truncated" =>
             /\ m.pc = "truncated" /\ m.rev = x.rev /\ m.text = x.text /\ m.path = x.path
             /\ m.found = x.found /\ m.raced = x.raced
    BY <1>1, FollowMoved
  <2>3. CfgAfter(m, z, p)
    BY <1>2, <1>4, OvertakeAfter DEF edits
  <2>. HIDE DEF x, m, z
  <2>4. x.pc = "truncated" /\ x.path = p => CfgAfter(x, z, p)
    BY <2>2, <2>3 DEF CfgAfter, Writing, Handling
  <2>5. ~(x.pc = "truncated" /\ x.path = p) => CfgAfter(x, z, p)
    BY <2>2, <2>3
  <2>6. CfgAfter(x, z, p)
    BY <2>4, <2>5
  <2>. QED  BY <2>1, <2>6 DEF z
<1>5. cfgEdits' \in [Editors -> EditStates] /\ cfgEdits'[e] = y
  <2>. HIDE DEF moved
  <2>1. Overtake(e, p, moved) \in [Editors -> EditStates] /\ Overtake(e, p, moved)[e] = moved[e]
    BY <1>2, OvertakeSame
  <2>2. cfgEdits' = Overtake(e, p, moved)
    BY DEF moved, edits
  <2>. QED  BY <1>3, <2>1, <2>2
<1>. QED  BY <1>4, <1>5

LEMMA TempRenameInv ==
    ASSUME CfgInv, NEW e \in Editors, TempRename(e)
    PROVE  CfgInv'
<1>. DEFINE x == cfgEdits[e]
            y == [pc |-> "saved"]
            p == x.path
<1>1. x \in EditStates /\ x.pc = "filled" /\ CfgSeen(x, cfgFiles, cfgHistory)
  BY DEF CfgInv, CfgTypes, AllSeen, TempRename
<1>2. p \in Paths /\ x.text \in CfgTexts /\ y \in EditStates /\ y.pc = "saved"
  BY <1>1, StatesOf, SavedState DEF Writing
<1>3. cfgOpened # e
  BY <1>1, NotHeld
<1>4. CASE cfgTemps[p] = Absent
  <2>1. cfgEdits' = [cfgEdits EXCEPT ![e] = IdleEdit]
        /\ UNCHANGED <<cfgFiles, cfgTemps, cfgHistory, cfgOpened, cfgSilent, cfgTangled, cfgCrashes,
                       cfgLoaded, cfgCurrent, cfgTexts>>
    BY <1>4 DEF TempRename
  <2>. QED  BY <1>1, <1>3, <2>1, EndsInv
<1>5. CASE cfgTemps[p] # Absent
  <2>1. /\ cfgFiles' = [cfgFiles EXCEPT ![p] = cfgTemps[p]]
        /\ cfgTemps' = [cfgTemps EXCEPT ![p] = Absent]
        /\ cfgOpened' = IF p = "local" THEN NoEditor ELSE cfgOpened
        /\ cfgSilent' = (cfgSilent \/ ReplacedSilently(e, p))
        /\ cfgEdits' = Overtake(e, p, Follow(p, [cfgEdits EXCEPT ![e] = y]))
        /\ UNCHANGED <<cfgHistory, cfgTexts, cfgLoaded, cfgTangled, cfgCurrent, cfgCrashes>>
    BY <1>5 DEF TempRename
  <2>2. ~ReplacedSilently(e, p)
    <3>1. ~x.raced => x.found = x.rev /\ cfgFiles[p] = x.found /\ x.found \in ToSet(cfgHistory) \cup {EmptyFile}
      BY <1>1 DEF CfgSeen, Writing
    <3>. QED  BY <3>1 DEF ReplacedSilently
  <2>3. cfgTemps[p] \in Nat
    BY <1>2, <1>5 DEF CfgInv, CfgTypes, CfgContents
  <2>4. OwnTemp => cfgTemps[p] \in CfgTexts
    BY <1>1, <1>2 DEF OwnTemp
  <2>. HIDE DEF x, p, y
  <2>5. /\ cfgEdits' \in [Editors -> EditStates] /\ cfgEdits'[e] = y
        /\ \A f \in Editors : f # e => CfgAfter(cfgEdits[f], cfgEdits'[f], p)
    BY <1>2, <2>1, RenameState
  <2>6. \A f \in Editors : f # e => cfgEdits'[f].pc = cfgEdits[f].pc
    BY <2>5 DEF CfgAfter
  <2>7. CfgTypes' /\ ~cfgSilent'
    <3>1. cfgTemps' \in [Paths -> CfgContents]
      BY <1>2, <2>1 DEF CfgInv, CfgTypes, CfgContents
    <3>2. cfgFiles' \in [Paths -> CfgContents] /\ cfgFiles'["base"] \in Nat
      BY <1>2, <2>1, <2>3 DEF CfgInv, CfgTypes, CfgContents, Paths
    <3>3. cfgEdits' \in [Editors -> EditStates] /\ cfgOpened' \in Editors \cup {NoEditor}
      BY <2>1, <2>5 DEF CfgInv, CfgTypes
    <3>4. ~cfgSilent' /\ cfgSilent' \in BOOLEAN
      BY <2>1, <2>2 DEF CfgInv
    <3>. QED  BY <2>1, <3>1, <3>2, <3>3, <3>4 DEF CfgInv, CfgTypes
  <2>8. AllSeen'
    <3>1. \A q \in Paths : q # p => cfgFiles'[q] = cfgFiles[q]
      BY <2>1 DEF CfgInv, CfgTypes
    <3>2. CfgSeen(cfgEdits'[e], cfgFiles', cfgHistory')
      BY <1>2, <2>5 DEF CfgSeen, Writing
    <3>3. cfgHistory' = cfgHistory
      BY <2>1
    <3>. QED  BY <1>2, <2>5, <3>1, <3>2, <3>3, OthersSeen
  <2>9. HandleHeld'
    BY <1>3, <2>1, <2>6 DEF CfgInv, CfgTypes, HandleHeld
  <2>10. ASSUME CfgCalm'
         PROVE  OwnTemp' /\ CfgWhole' /\ RunsShown'
    <3>1. CfgCalm /\ OwnTemp /\ CfgWhole /\ RunsShown
      BY <2>1, <2>10 DEF CfgCalm, CfgInv
    <3>2. \A f \in Editors : f # e /\ cfgEdits[f].pc \in Temping => cfgEdits[f].path # p
      BY <1>1, <3>1 DEF OwnTemp, Temping, x, p
    <3>3. \A q \in Paths : q # p => cfgTemps'[q] = cfgTemps[q]
      BY <2>1 DEF CfgInv, CfgTypes
    <3>4. OwnTemp' /\ \A f \in Editors : cfgEdits'[f].pc \in Handling => cfgEdits'[f].text # EmptyFile
      BY <1>2, <2>5, <3>1, <3>2, <3>3, OthersOwn DEF Handling, Temping
    <3>5. cfgTemps[p] # EmptyFile
      BY <2>4, <3>1 DEF CfgTexts
    <3>6. CfgWhole'
      <4>1. cfgFiles'["base"] # EmptyFile
        BY <1>2, <2>1, <3>1, <3>5 DEF CfgInv, CfgTypes, Paths, CfgWhole
      <4>2. cfgFiles'["local"] = EmptyFile => cfgOpened' # NoEditor
        BY <1>2, <2>1, <3>1, <3>5 DEF CfgInv, CfgTypes, Paths, CfgWhole
      <4>. QED  BY <3>4, <4>1, <4>2 DEF CfgWhole
    <3>7. RunsShown'
      BY <1>2, <2>5 DEF RunsShown
    <3>. QED  BY <3>4, <3>6, <3>7
  <2>. QED  BY <2>7, <2>8, <2>9, <2>10 DEF CfgInv
<1>. QED  BY <1>4, <1>5

-----------------------------------------------------------------------------
(* The override, a deploy, a crash.                                             *)

LEMMA LocalCreateInv ==
    ASSUME CfgInv, NEW e \in Editors, LocalCreate(e)
    PROVE  CfgInv'
<1>. DEFINE x == cfgEdits[e]
            y == [x EXCEPT !.pc = "opened"]
<1>1. x \in EditStates /\ x.pc = "copying"
  BY DEF CfgInv, CfgTypes, LocalCreate
<1>2. y \in EditStates /\ y.pc = "opened" /\ y.text = x.text
  <2>1. x \in CfgCopies
    BY <1>1, StatesOf DEF Handling
  <2>2. y \in CfgCopies /\ y.pc = "opened" /\ y.text = x.text
    BY <2>1 DEF CfgCopies, Handling
  <2>. QED  BY <2>2 DEF EditStates
<1>3. cfgOpened # e /\ e # NoEditor
  BY <1>1, NotHeld
<1>4. CASE cfgFiles["local"] # Absent
  <2>1. cfgEdits' = [cfgEdits EXCEPT ![e] = IdleEdit]
        /\ UNCHANGED <<cfgFiles, cfgTemps, cfgHistory, cfgOpened, cfgSilent, cfgTangled, cfgCrashes,
                       cfgLoaded, cfgCurrent, cfgTexts>>
    BY <1>4 DEF LocalCreate
  <2>. QED  BY <1>1, <1>3, <2>1, EndsInv
<1>5. CASE cfgFiles["local"] = Absent
  <2>1. /\ cfgFiles' = [cfgFiles EXCEPT !["local"] = EmptyFile] /\ cfgOpened' = e
        /\ cfgEdits' = [cfgEdits EXCEPT ![e] = y]
        /\ UNCHANGED <<cfgTemps, cfgHistory, cfgTexts, cfgLoaded, cfgSilent, cfgTangled, cfgCurrent, cfgCrashes>>
    BY <1>5 DEF LocalCreate
  <2>. HIDE DEF x, y
  <2>2. /\ cfgEdits' \in [Editors -> EditStates] /\ cfgEdits'[e] = y
        /\ \A f \in Editors : f # e => cfgEdits'[f] = cfgEdits[f]
    BY <1>2, <2>1 DEF CfgInv, CfgTypes
  <2>3. /\ cfgFiles' \in [Paths -> CfgContents] /\ cfgFiles'["base"] = cfgFiles["base"]
        /\ cfgFiles'["local"] = EmptyFile
        /\ \A q \in Paths : q # "local" => cfgFiles'[q] = cfgFiles[q]
    BY <2>1 DEF CfgInv, CfgTypes, Paths, CfgContents, EmptyFile
  <2>4. CfgTypes'
    BY <2>1, <2>2, <2>3 DEF CfgInv, CfgTypes
  <2>5. AllSeen'
    <3>. SUFFICES ASSUME NEW f \in Editors
                  PROVE  CfgSeen(cfgEdits'[f], cfgFiles', cfgHistory')
      BY DEF AllSeen
    <3>1. CASE f = e
      BY <1>2, <2>2, <3>1 DEF CfgSeen, Writing
    <3>2. CASE f # e
      <4>1. cfgEdits[f] \in EditStates /\ CfgSeen(cfgEdits[f], cfgFiles, cfgHistory)
        BY DEF CfgInv, CfgTypes, AllSeen
      <4>2. cfgEdits[f].pc \in Writing /\ ~cfgEdits[f].raced => cfgEdits[f].path # "local" /\ cfgEdits[f].path \in Paths
        BY <1>5, <4>1, StatesOf, ConfigStoreAssumption DEF CfgSeen
      <4>3. CfgSeen(cfgEdits[f], cfgFiles', cfgHistory)
        BY <2>3, <4>1, <4>2 DEF CfgSeen
      <4>. QED  BY <2>1, <2>2, <3>2, <4>3
    <3>. QED  BY <3>1, <3>2
  <2>6. HandleHeld'
    BY <1>2, <2>1, <2>2 DEF HandleHeld
  <2>7. ASSUME CfgCalm'
        PROVE  OwnTemp' /\ CfgWhole' /\ RunsShown'
    <3>1. CfgCalm /\ OwnTemp /\ CfgWhole /\ RunsShown
      BY <2>1, <2>7 DEF CfgCalm, CfgInv
    <3>2. \A f \in Editors : cfgEdits'[f].pc \in Temping => f # e /\ cfgEdits'[f] = cfgEdits[f]
      BY <1>2, <2>2 DEF Temping
    <3>3. OwnTemp'
      BY <2>1, <3>1, <3>2 DEF OwnTemp, Temping
    <3>4. x.text # EmptyFile
      BY <1>1, <3>1 DEF CfgWhole, Handling, x
    <3>5. \A f \in Editors : cfgEdits'[f].pc \in Handling => cfgEdits'[f].text # EmptyFile
      BY <1>2, <2>2, <3>1, <3>4 DEF CfgWhole
    <3>6. CfgWhole'
      BY <1>3, <2>1, <2>3, <3>1, <3>5 DEF CfgWhole
    <3>7. CfgSettled(cfgFiles, cfgOpened) = cfgFiles["base"] /\ CfgSettled(cfgFiles', cfgOpened') = cfgFiles["base"]
      BY <1>3, <1>5, <2>1, <2>3 DEF CfgSettled
    <3>8. \A f \in Editors : cfgEdits[f].pc = "saved" => cfgEdits'[f].pc = "saved"
      BY <1>1, <2>2 DEF x
    <3>9. RunsShown'
      BY <2>1, <3>1, <3>7, <3>8 DEF RunsShown
    <3>. QED  BY <3>3, <3>6, <3>9
  <2>. QED  BY <2>1, <2>4, <2>5, <2>6, <2>7 DEF CfgInv
<1>. QED  BY <1>4, <1>5

LEMMA LocalFillInv ==
    ASSUME CfgInv, NEW e \in Editors, LocalFill(e)
    PROVE  CfgInv'
<1>. DEFINE text == cfgEdits[e].text
            y == IdleEdit
<1>1. cfgEdits[e].pc = "opened" /\ text \in Nat
  BY StatesOf DEF CfgInv, CfgTypes, LocalFill, Handling
<1>2. y \in EditStates /\ y.pc = "idle"
  BY IdleState
<1>3. CASE cfgOpened # e
  <2>1. cfgEdits' = [cfgEdits EXCEPT ![e] = IdleEdit]
        /\ UNCHANGED <<cfgFiles, cfgTemps, cfgHistory, cfgOpened, cfgSilent, cfgTangled, cfgCrashes,
                       cfgLoaded, cfgCurrent, cfgTexts>>
    BY <1>3 DEF LocalFill
  <2>. QED  BY <1>1, <1>3, <2>1, EndsInv
<1>4. CASE cfgOpened = e
  <2>1. /\ cfgFiles' = [cfgFiles EXCEPT !["local"] = text] /\ cfgOpened' = NoEditor
        /\ cfgEdits' = Overtake(e, "local", [cfgEdits EXCEPT ![e] = y])
        /\ cfgCurrent' = (cfgCurrent /\ text = cfgFiles["base"])
        /\ UNCHANGED <<cfgTemps, cfgHistory, cfgTexts, cfgLoaded, cfgSilent, cfgTangled, cfgCrashes>>
    BY <1>4 DEF LocalFill
  <2>. HIDE DEF text, y
  <2>2. /\ cfgEdits' \in [Editors -> EditStates] /\ cfgEdits'[e] = y
        /\ \A f \in Editors : f # e => /\ CfgAfter(cfgEdits[f], cfgEdits'[f], "local")
                                      /\ CfgSame(cfgEdits[f], cfgEdits'[f])
    BY <1>2, <2>1, NewState
  <2>3. /\ cfgFiles' \in [Paths -> CfgContents] /\ cfgFiles'["base"] = cfgFiles["base"]
        /\ cfgFiles'["local"] = text
        /\ \A q \in Paths : q # "local" => cfgFiles'[q] = cfgFiles[q]
    BY <1>1, <2>1 DEF CfgInv, CfgTypes, Paths, CfgContents
  <2>4. CfgTypes'
    <3>1. cfgCurrent' \in BOOLEAN
      BY <2>1
    <3>. QED  BY <2>1, <2>2, <2>3, <3>1 DEF CfgInv, CfgTypes
  <2>5. AllSeen'
    <3>1. CfgSeen(cfgEdits'[e], cfgFiles', cfgHistory')
      BY <1>2, <2>2 DEF CfgSeen, Writing
    <3>2. "local" \in Paths /\ cfgHistory' = cfgHistory
      BY <2>1 DEF Paths
    <3>. QED  BY <2>2, <2>3, <3>1, <3>2, OthersSeen
  <2>6. HandleHeld'
    BY <2>1 DEF HandleHeld
  <2>7. ASSUME CfgCalm'
        PROVE  OwnTemp' /\ CfgWhole' /\ RunsShown'
    <3>1. CfgCalm /\ OwnTemp /\ CfgWhole /\ RunsShown
      BY <2>1, <2>7 DEF CfgCalm, CfgInv
    <3>2. text # EmptyFile
      BY <1>1, <3>1 DEF CfgWhole, Handling, text
    <3>3. OwnTemp' /\ \A f \in Editors : cfgEdits'[f].pc \in Handling => cfgEdits'[f].text # EmptyFile
      <4>1. cfgTemps' = cfgTemps /\ cfgEdits'[e].pc \notin Temping \cup Handling
        BY <1>2, <2>1, <2>2 DEF Temping, Handling
      <4>2. \A f \in Editors : f # e => CfgSame(cfgEdits[f], cfgEdits'[f])
        BY <2>2
      <4>. QED  BY <3>1, <4>1, <4>2, SameOwn
    <3>4. CfgWhole'
      BY <2>3, <3>1, <3>2, <3>3 DEF CfgWhole
    <3>5. CfgSettled(cfgFiles, cfgOpened) = cfgFiles["base"] /\ CfgSettled(cfgFiles', cfgOpened') = text
      <4>1. e # NoEditor /\ text # Absent
        BY <1>1, ConfigStoreAssumption
      <4>. QED  BY <1>4, <2>1, <2>3, <4>1 DEF CfgSettled
    <3>6. \A f \in Editors : cfgEdits[f].pc = "saved" => cfgEdits'[f].pc = "saved"
      BY <1>1, <2>2 DEF CfgAfter
    <3>7. RunsShown'
      BY <2>1, <3>1, <3>5, <3>6 DEF RunsShown
    <3>. QED  BY <3>3, <3>4, <3>7
  <2>. QED  BY <2>1, <2>4, <2>5, <2>6, <2>7 DEF CfgInv
<1>. QED  BY <1>3, <1>4

LEMMA ConfigDeployInv ==
    ASSUME CfgInv, ConfigDeploy
    PROVE  CfgInv'
<1>1. /\ cfgTexts' = cfgTexts + 1 /\ cfgFiles' = [cfgFiles EXCEPT !["base"] = cfgTexts + 1]
      /\ cfgEdits' = Overtake(NoEditor, "base", cfgEdits) /\ cfgCurrent' = FALSE
      /\ UNCHANGED <<cfgTemps, cfgHistory, cfgOpened, cfgLoaded, cfgSilent, cfgTangled, cfgCrashes>>
  BY DEF ConfigDeploy
<1>2. cfgTexts \in Nat /\ cfgTexts + 1 \in Nat /\ cfgTexts + 1 # EmptyFile /\ cfgEdits \in [Editors -> EditStates]
  BY DEF CfgInv, CfgTypes, EmptyFile
<1>3. \A f \in Editors : f # NoEditor
  BY ConfigStoreAssumption
<1>4. /\ cfgEdits' \in [Editors -> EditStates]
      /\ \A f \in Editors : CfgSame(cfgEdits[f], cfgEdits'[f]) /\ CfgAfter(cfgEdits[f], cfgEdits'[f], "base")
  <2>1. Overtake(NoEditor, "base", cfgEdits) \in [Editors -> EditStates]
        /\ \A f \in Editors : CfgSame(cfgEdits[f], Overtake(NoEditor, "base", cfgEdits)[f])
    BY <1>2, OvertakeSame
  <2>2. \A f \in Editors : CfgAfter(cfgEdits[f], Overtake(NoEditor, "base", cfgEdits)[f], "base")
    BY <1>2, <1>3, OvertakeAfter
  <2>. QED  BY <1>1, <2>1, <2>2
<1>5. /\ cfgFiles' \in [Paths -> CfgContents] /\ cfgFiles'["base"] = cfgTexts + 1
      /\ cfgFiles'["local"] = cfgFiles["local"]
      /\ \A q \in Paths : q # "base" => cfgFiles'[q] = cfgFiles[q]
  BY <1>1, <1>2 DEF CfgInv, CfgTypes, Paths, CfgContents
<1>6. CfgTypes'
  BY <1>1, <1>2, <1>4, <1>5 DEF CfgInv, CfgTypes
<1>7. AllSeen'
  <2>1. "base" \in Paths /\ cfgHistory' = cfgHistory
    BY <1>1 DEF Paths
  <2>. QED  BY <1>3, <1>4, <1>5, <2>1, OthersSeen, ConfigStoreAssumption
<1>8. HandleHeld'
  BY <1>1, <1>4 DEF CfgInv, CfgTypes, HandleHeld, CfgSame
<1>9. ASSUME CfgCalm'
      PROVE  OwnTemp' /\ CfgWhole' /\ RunsShown'
  <2>1. CfgCalm /\ OwnTemp /\ CfgWhole
    BY <1>1, <1>9 DEF CfgCalm, CfgInv
  <2>2. OwnTemp' /\ \A f \in Editors : cfgEdits'[f].pc \in Handling => cfgEdits'[f].text # EmptyFile
    BY <1>1, <1>3, <1>4, <2>1, SameOwn, ConfigStoreAssumption
  <2>3. CfgWhole'
    BY <1>1, <1>2, <1>5, <2>1, <2>2 DEF CfgWhole
  <2>. QED  BY <1>1, <2>2, <2>3 DEF RunsShown
<1>. QED  BY <1>1, <1>6, <1>7, <1>8, <1>9 DEF CfgInv

LEMMA ConfigCrashInv ==
    ASSUME CfgInv, ConfigCrash
    PROVE  CfgInv'
<1>1. /\ cfgCrashes' = cfgCrashes + 1 /\ cfgEdits' = [e \in Editors |-> IdleEdit]
      /\ cfgOpened' = NoEditor /\ cfgCurrent' = TRUE
      /\ UNCHANGED <<cfgFiles, cfgTemps, cfgHistory, cfgTexts, cfgSilent, cfgTangled>>
  BY DEF ConfigCrash
<1>2. cfgEdits' \in [Editors -> EditStates] /\ \A e \in Editors : cfgEdits'[e].pc = "idle"
  BY <1>1, IdleState
<1>3. CfgTypes'
  BY <1>1, <1>2 DEF CfgInv, CfgTypes
<1>4. AllSeen' /\ HandleHeld'
  BY <1>1, <1>2 DEF AllSeen, CfgSeen, Writing, HandleHeld
<1>5. ~CfgCalm'
  BY <1>1 DEF CfgCalm, CfgInv, CfgTypes
<1>. QED  BY <1>1, <1>3, <1>4, <1>5 DEF CfgInv

-----------------------------------------------------------------------------
(* The history.                                                                 *)

LEMMA PrefixOf ==
    ASSUME NEW S, NEW s \in Seq(S), NEW n \in Nat, n >= 1, n <= Len(s)
    PROVE  SubSeq(s, 1, n) \in Seq(S) /\ Len(SubSeq(s, 1, n)) = n /\ SubSeq(s, 1, n)[1] = s[1]
<1>. DEFINE t == SubSeq(s, 1, n)
<1>1. \A i \in 1 .. n : s[i] \in S
  OBVIOUS
<1>2. t \in Seq(S) /\ Len(t) = n
  BY <1>1
<1>3. t[1] = s[1]
  OBVIOUS
<1>. QED  BY <1>2, <1>3

LEMMA NewestKept ==
    ASSUME NEW history \in Seq(CfgTexts), NEW text \in CfgTexts, NEW longer, longer = <<text>> \o history,
           NEW kept, kept = SubSeq(longer, 1, IF Len(longer) < HistoryKeep THEN Len(longer) ELSE HistoryKeep)
    PROVE  kept \in Seq(CfgTexts) /\ text \in ToSet(kept)
<1>. DEFINE n == IF Len(longer) < HistoryKeep THEN Len(longer) ELSE HistoryKeep
<1>1. longer \in Seq(CfgTexts) /\ Len(longer) \in Nat /\ Len(longer) >= 1 /\ longer[1] = text
  OBVIOUS
<1>2. n \in Nat /\ n >= 1 /\ n <= Len(longer)
  BY <1>1, ConfigStoreAssumption
<1>3. kept = SubSeq(longer, 1, n)
  OBVIOUS
<1>. HIDE DEF n
<1>4. kept \in Seq(CfgTexts)
  BY <1>1, <1>2, <1>3, PrefixOf
<1>5. Len(kept) = n /\ kept[1] = longer[1]
  BY <1>1, <1>2, <1>3, PrefixOf
<1>6. 1 \in DOMAIN kept
  BY <1>2, <1>4, <1>5
<1>. QED  BY <1>1, <1>4, <1>5, <1>6 DEF ToSet

LEMMA SnapshotInv ==
    ASSUME CfgInv, NEW e \in Editors, Snapshot(e)
    PROVE  CfgInv'
<1>. DEFINE x == cfgEdits[e]
            y == [x EXCEPT !.pc = "kept"]
            history == cfgHistory
            history2 == cfgHistory'
<1>1. x \in EditStates /\ x.pc = "checked" /\ CfgSeen(x, cfgFiles, history) /\ history \in Seq(CfgTexts)
      /\ x.found \in Nat
  BY StatesOf DEF CfgInv, CfgTypes, AllSeen, Snapshot, Writing
<1>2. /\ y \in EditStates /\ y.pc = "kept" /\ y.path = x.path /\ y.into = x.into
      /\ y.rev = x.rev /\ y.found = x.found /\ y.raced = x.raced
  BY <1>1, MovesOn DEF Writing
<1>3. history2 \in Seq(CfgTexts) /\ x.found \in ToSet(history2) \cup {EmptyFile}
  <2>1. CASE x.found = EmptyFile
    BY <1>1, <2>1 DEF Snapshot
  <2>2. CASE x.found # EmptyFile
    <3>. DEFINE longer == <<x.found>> \o history
    <3>1. history2 = SubSeq(longer, 1, IF Len(longer) < HistoryKeep THEN Len(longer) ELSE HistoryKeep)
      BY <2>2 DEF Snapshot
    <3>2. x.found \in CfgTexts
      BY <1>1, <2>2 DEF CfgTexts
    <3>. HIDE DEF longer
    <3>3. history2 \in Seq(CfgTexts) /\ x.found \in ToSet(history2)
      <4>1. longer = <<x.found>> \o history
        BY DEF longer
      <4>. HIDE DEF x, history, history2
      <4>. QED  BY <1>1, <3>1, <3>2, <4>1, NewestKept
    <3>. QED  BY <3>3
  <2>. QED  BY <2>1, <2>2
<1>4. cfgEdits' = [f \in Editors |->
           CASE f = e -> [x EXCEPT !.pc = "kept"]
             [] f # e /\ PrunedUnder(f, history2) -> [cfgEdits[f] EXCEPT !.raced = TRUE]
             [] OTHER -> cfgEdits[f]]
      /\ UNCHANGED <<cfgFiles, cfgTemps, cfgOpened, cfgTexts, cfgLoaded, cfgSilent,
                     cfgTangled, cfgCurrent, cfgCrashes>>
  BY DEF Snapshot
<1>5. cfgEdits'[e] = y
  BY <1>4
<1>6. ASSUME NEW f \in Editors, f # e
      PROVE  /\ CfgSame(cfgEdits[f], cfgEdits'[f])
             /\ CfgSeen(cfgEdits'[f], cfgFiles, history2)
  <2>. DEFINE a == cfgEdits[f]
              b == cfgEdits'[f]
              h == ToSet(history) \ ToSet(history2)
  <2>1. a \in EditStates /\ CfgSeen(a, cfgFiles, history)
    BY DEF CfgInv, CfgTypes, AllSeen
  <2>2. PrunedUnder(f, history2) <=> a.pc \in {"kept", "truncated", "filled"} /\ a.found \in h
    BY DEF PrunedUnder
  <2>3. b = IF PrunedUnder(f, history2) THEN [a EXCEPT !.raced = TRUE] ELSE a
    BY <1>4, <1>6
  <2>. HIDE DEF a, b, history, history2
  <2>4. CASE PrunedUnder(f, history2)
    <3>1. CfgSame(a, b) /\ b.raced
      BY <2>1, <2>2, <2>3, <2>4, RacedSame DEF Writing
    <3>2. CfgSeen(b, cfgFiles, history2)
      BY <2>1, <3>1, SameSeen
    <3>. QED  BY <3>1, <3>2 DEF a, b
  <2>5. CASE ~PrunedUnder(f, history2)
    <3>1. a = b /\ CfgSame(a, b)
      BY <2>1, <2>3, <2>5, SameItself
    <3>2. a.pc \in Writing /\ a.pc # "checked" /\ a.found \in ToSet(history) => a.found \in ToSet(history2)
      BY <2>2, <2>5 DEF Writing
    <3>3. CfgSeen(b, cfgFiles, history2)
      BY <2>1, <3>1, <3>2, SameSeen
    <3>. QED  BY <3>1, <3>3 DEF a, b
  <2>. QED  BY <2>4, <2>5
<1>7. cfgEdits' \in [Editors -> EditStates]
  <2>1. \A f \in Editors : cfgEdits'[f] \in EditStates
    BY <1>2, <1>5, <1>6 DEF CfgSame
  <2>. QED  BY <1>4, <2>1
<1>8. CfgSeen(y, cfgFiles, history2)
  BY <1>1, <1>2, <1>3 DEF CfgSeen, Writing, Temping
<1>9. AllSeen'
  BY <1>4, <1>5, <1>6, <1>8 DEF AllSeen
<1>10. cfgOpened # e
  BY <1>1, NotHeld
<1>. HIDE DEF x, y, history, history2
<1>11. HandleHeld'
  BY <1>4, <1>6, <1>10 DEF CfgInv, CfgTypes, HandleHeld, CfgSame
<1>12. CfgTypes'
  BY <1>3, <1>4, <1>7 DEF CfgInv, CfgTypes, history2
<1>13. ASSUME CfgCalm'
       PROVE  OwnTemp' /\ CfgWhole' /\ RunsShown'
  <2>1. CfgCalm /\ OwnTemp /\ CfgWhole /\ RunsShown
    BY <1>4, <1>13 DEF CfgCalm, CfgInv
  <2>2. cfgTemps' = cfgTemps /\ cfgEdits'[e].pc \notin Temping \cup Handling
    BY <1>2, <1>4, <1>5 DEF Temping, Handling
  <2>3. OwnTemp' /\ \A f \in Editors : cfgEdits'[f].pc \in Handling => cfgEdits'[f].text # EmptyFile
    BY <1>6, <2>1, <2>2, SameOwn
  <2>4. RunsShown'
    <3>1. \A f \in Editors : cfgEdits[f].pc = "saved" => cfgEdits'[f].pc = "saved"
      BY <1>1, <1>6 DEF CfgSame, x
    <3>. QED  BY <1>4, <2>1, <3>1, SameShown
  <2>. QED  BY <1>4, <2>1, <2>3, <2>4 DEF CfgWhole
<1>. QED  BY <1>4, <1>9, <1>11, <1>12, <1>13 DEF CfgInv

-----------------------------------------------------------------------------

LEMMA CfgStutter ==
    ASSUME CfgInv, UNCHANGED cfgVars
    PROVE  CfgInv'
BY DEF cfgVars, CfgInv, CfgTypes, AllSeen, HandleHeld, CfgCalm, OwnTemp, CfgWhole, RunsShown

LEMMA CfgStepInv == CfgInv /\ [ConfigNext]_cfgVars => CfgInv'
<1>. SUFFICES ASSUME CfgInv, [ConfigNext]_cfgVars PROVE CfgInv'
  OBVIOUS
<1>1. ASSUME NEW e \in Editors, ConfigEdit(e)
      PROVE  CfgInv'
  BY <1>1, CfgOpenInv, WriteChecksInv, SnapshotInv, TempTruncateInv, TempFillInv, TempRenameInv,
     SaveRescanInv, SaveFailsInv, LocalReadInv, LocalCreateInv, LocalFillInv, Zenon DEF ConfigEdit
<1>. QED  BY <1>1, ConfigDeployInv, ConfigCrashInv, CfgStutter, Zenon DEF ConfigNext

LEMMA CfgInvSound == CfgInv => SavesSound
<1>. SUFFICES ASSUME CfgInv PROVE SavesSound
  OBVIOUS
<1>1. OverwritesSeen
  BY DEF CfgInv, OverwritesSeen
<1>2. ASSUME ~cfgTangled, cfgCrashes = 0
      PROVE  /\ cfgFiles["base"] # EmptyFile
             /\ cfgFiles["local"] = EmptyFile => cfgOpened # NoEditor
             /\ cfgCurrent /\ (\A e \in Editors : cfgEdits[e].pc = "idle") => cfgLoaded = cfgFiles[ActiveFile]
  <2>1. CfgWhole /\ RunsShown /\ HandleHeld /\ cfgOpened \in Editors \cup {NoEditor}
    BY <1>2 DEF CfgInv, CfgCalm, CfgTypes
  <2>2. ASSUME cfgCurrent, \A e \in Editors : cfgEdits[e].pc = "idle"
        PROVE  cfgLoaded = cfgFiles[ActiveFile]
    <3>1. cfgOpened = NoEditor /\ cfgLoaded = CfgSettled(cfgFiles, cfgOpened)
      BY <2>1, <2>2 DEF HandleHeld, RunsShown
    <3>. QED  BY <3>1 DEF CfgSettled, ActiveFile
  <2>. QED  BY <2>1, <2>2 DEF CfgWhole
<1>. QED  BY <1>1, <1>2 DEF SavesSound, FilesWhole

(* A save that nothing overtook replaces the text its editor saw, which the   *)
(* history keeps, and the files stay whole and loaded, for any number of      *)
(* editors, deploys and overrides (FileStore.Save, WriteLocal, Snapshot).     *)
THEOREM SavesReplaceWhatWasSeen == ConfigSpec => []SavesSound
BY CfgInitInv, CfgStepInv, CfgInvSound, PTL DEF ConfigSpec

-------------------------------------------------------------------------------
(* LogStore.  The inductive invariant says in which one place - the queue,    *)
(* the batch, the table - each row the store took is.                         *)

(* What is in the hands of the store: the rows are in one place, once.          *)
RowTypes ==
    /\ rowState \in [RowIds -> {"new", "refused", "accepted", "late"}]
    /\ rowQueue \in Seq(RowIds) /\ rowBatch \in Seq(RowIds) /\ rowTable \in Seq(RowIds)
    /\ rowWriter \in {"loop", "flush", "draining", "last", "done"}
    /\ rowStop \in BOOLEAN /\ rowDropped \subseteq RowIds /\ rowFailures \in Nat

RowPlaces ==
    /\ IsInjective(rowQueue) /\ IsInjective(rowBatch) /\ IsInjective(rowTable)
    /\ ToSet(rowQueue) \cap ToSet(rowBatch) = {}
    /\ ToSet(rowQueue) \cap ToSet(rowTable) = {}
    /\ ToSet(rowBatch) \cap ToSet(rowTable) = {}
    /\ {r \in RowIds : rowState[r] \in {"accepted", "late"}}
         = ToSet(rowQueue) \cup ToSet(rowBatch) \cup ToSet(rowTable) \cup rowDropped

(* The writer stops only after Close, with nothing in the queue that came       *)
(* before it, and with nothing in its batch unless an insert failed.            *)
RowEnds ==
    /\ rowWriter \in {"draining", "last", "done"} => rowStop
    /\ rowWriter \in {"last", "done"} => \A r \in ToSet(rowQueue) : rowState[r] = "late"
    /\ rowFailures = 0 => rowDropped = {} /\ (rowWriter = "done" => rowBatch = <<>>)

RowInv == RowTypes /\ RowPlaces /\ RowEnds

-----------------------------------------------------------------------------
(* Sequences without repetition.                                                *)

LEMMA EmptyRows == IsInjective(<<>>) /\ ToSet(<<>>) = {}
BY DEF IsInjective, ToSet

LEMMA AppendRow ==
    ASSUME NEW S, NEW s \in Seq(S), NEW e \in S
    PROVE  /\ Append(s, e) \in Seq(S) /\ ToSet(Append(s, e)) = ToSet(s) \cup {e}
           /\ IsInjective(s) /\ e \notin ToSet(s) => IsInjective(Append(s, e))
<1>. DEFINE t == Append(s, e)
            n == Len(s)
<1>1. /\ t \in Seq(S) /\ n \in Nat /\ DOMAIN s = 1 .. n /\ DOMAIN t = 1 .. n + 1 /\ t[n + 1] = e
      /\ \A i \in 1 .. n : t[i] = s[i]
  OBVIOUS
<1>. HIDE DEF t, n
<1>2. ToSet(t) = ToSet(s) \cup {e}
  <2>1. \A v \in ToSet(t) : v \in ToSet(s) \cup {e}
    BY <1>1 DEF ToSet
  <2>2. \A v \in ToSet(s) : v \in ToSet(t)
    BY <1>1 DEF ToSet
  <2>3. e \in ToSet(t)
    BY <1>1 DEF ToSet
  <2>. QED  BY <2>1, <2>2, <2>3
<1>3. ASSUME IsInjective(s), e \notin ToSet(s), NEW i \in 1 .. n + 1, NEW k \in 1 .. n + 1, t[i] = t[k]
      PROVE  i = k
  <2>1. \A j \in 1 .. n : s[j] # e
    BY <1>1, <1>3 DEF ToSet
  <2>. QED  BY <1>1, <1>3, <2>1 DEF IsInjective
<1>. QED  BY <1>1, <1>2, <1>3 DEF IsInjective, t

LEMMA TailRows ==
    ASSUME NEW S, NEW s \in Seq(S), s # <<>>, IsInjective(s)
    PROVE  /\ Head(s) \in S /\ Head(s) \in ToSet(s)
           /\ Tail(s) \in Seq(S) /\ IsInjective(Tail(s)) /\ ToSet(Tail(s)) = ToSet(s) \ {Head(s)}
<1>. DEFINE t == Tail(s)
            n == Len(s)
<1>1. /\ t \in Seq(S) /\ n \in Nat /\ n >= 1 /\ DOMAIN s = 1 .. n /\ DOMAIN t = 1 .. n - 1 /\ Head(s) = s[1]
      /\ \A i \in 1 .. n - 1 : t[i] = s[i + 1]
      /\ \A i \in 1 .. n : s[i] \in S
  OBVIOUS
<1>. HIDE DEF t, n
<1>2. IsInjective(t)
  <2>. SUFFICES ASSUME NEW i \in 1 .. n - 1, NEW k \in 1 .. n - 1, t[i] = t[k]
                PROVE  i = k
    BY <1>1 DEF IsInjective
  <2>1. i + 1 \in 1 .. n /\ k + 1 \in 1 .. n /\ s[i + 1] = s[k + 1]
    BY <1>1
  <2>2. i + 1 = k + 1
    BY <1>1, <2>1 DEF IsInjective
  <2>. QED  BY <1>1, <2>2
<1>3. ToSet(t) = ToSet(s) \ {s[1]}
  <2>1. ASSUME NEW i \in 1 .. n - 1
        PROVE  t[i] \in ToSet(s) /\ t[i] # s[1]
    <3>1. i + 1 \in 1 .. n /\ t[i] = s[i + 1] /\ 1 \in 1 .. n /\ i + 1 # 1
      BY <1>1
    <3>. QED  BY <1>1, <3>1 DEF ToSet, IsInjective
  <2>2. ASSUME NEW i \in 1 .. n, s[i] # s[1]
        PROVE  s[i] \in ToSet(t)
    <3>1. i - 1 \in 1 .. n - 1 /\ t[i - 1] = s[(i - 1) + 1] /\ (i - 1) + 1 = i
      BY <1>1, <2>2
    <3>. QED  BY <1>1, <3>1 DEF ToSet
  <2>3. \A v \in ToSet(t) : v \in ToSet(s) /\ v # s[1]
    BY <1>1, <2>1 DEF ToSet
  <2>4. \A v \in ToSet(s) : v # s[1] => v \in ToSet(t)
    BY <1>1, <2>2 DEF ToSet
  <2>. QED  BY <2>3, <2>4
<1>4. 1 \in 1 .. n
  BY <1>1
<1>. QED  BY <1>1, <1>2, <1>3, <1>4 DEF ToSet, t

LEMMA JoinRows ==
    ASSUME NEW S, NEW s \in Seq(S), NEW t \in Seq(S)
    PROVE  /\ s \o t \in Seq(S) /\ ToSet(s \o t) = ToSet(s) \cup ToSet(t)
           /\ IsInjective(s) /\ IsInjective(t) /\ ToSet(s) \cap ToSet(t) = {} => IsInjective(s \o t)
<1>. DEFINE u == s \o t
            m == Len(s)
            n == Len(t)
<1>1. /\ u \in Seq(S) /\ m \in Nat /\ n \in Nat /\ DOMAIN s = 1 .. m /\ DOMAIN t = 1 .. n
      /\ DOMAIN u = 1 .. m + n
      /\ \A i \in 1 .. m : u[i] = s[i]
      /\ \A i \in m + 1 .. m + n : u[i] = t[i - m]
  OBVIOUS
<1>. HIDE DEF u, m, n
<1>2. /\ \A i \in 1 .. m + n : i \in 1 .. m \/ (i \in m + 1 .. m + n /\ i - m \in 1 .. n)
      /\ \A i \in 1 .. m : i \in 1 .. m + n
      /\ \A i \in 1 .. n : i + m \in m + 1 .. m + n /\ i + m \in 1 .. m + n /\ (i + m) - m = i
  BY <1>1
<1>3. ToSet(u) = ToSet(s) \cup ToSet(t)
  <2>1. \A v \in ToSet(u) : v \in ToSet(s) \cup ToSet(t)
    BY <1>1, <1>2 DEF ToSet
  <2>2. \A v \in ToSet(s) : v \in ToSet(u)
    BY <1>1, <1>2 DEF ToSet
  <2>3. ASSUME NEW i \in 1 .. n
        PROVE  t[i] \in ToSet(u)
    <3>1. u[i + m] = t[i] /\ i + m \in DOMAIN u
      BY <1>1, <1>2
    <3>. QED  BY <3>1 DEF ToSet
  <2>4. \A v \in ToSet(t) : v \in ToSet(u)
    BY <1>1, <2>3 DEF ToSet
  <2>. QED  BY <2>1, <2>2, <2>4
<1>4. ASSUME IsInjective(s), IsInjective(t), ToSet(s) \cap ToSet(t) = {},
             NEW i \in 1 .. m + n, NEW k \in 1 .. m + n, u[i] = u[k]
      PROVE  i = k
  <2>1. \A a \in 1 .. m, b \in 1 .. n : s[a] # t[b]
    BY <1>1, <1>4 DEF ToSet
  <2>2. CASE i \in 1 .. m /\ k \in 1 .. m
    BY <1>1, <1>4, <2>2 DEF IsInjective
  <2>3. CASE i \notin 1 .. m /\ k \notin 1 .. m
    <3>1. i - m \in 1 .. n /\ k - m \in 1 .. n /\ t[i - m] = t[k - m]
      BY <1>1, <1>2, <1>4, <2>3
    <3>2. i - m = k - m
      BY <1>1, <1>4, <3>1 DEF IsInjective
    <3>. QED  BY <1>1, <3>2
  <2>4. CASE (i \in 1 .. m) # (k \in 1 .. m)
    BY <1>1, <1>2, <1>4, <2>1, <2>4, SMTT(30)
  <2>. QED  BY <2>2, <2>3, <2>4
<1>. QED  BY <1>1, <1>3, <1>4 DEF IsInjective, u

(* A sequence cut in two.                                                       *)
LEMMA CutRows ==
    ASSUME NEW S, NEW s \in Seq(S), NEW d \in Nat, d <= Len(s)
    PROVE  /\ SubSeq(s, d + 1, Len(s)) \in Seq(S)
           /\ IsInjective(s) => IsInjective(SubSeq(s, d + 1, Len(s)))
           /\ ToSet(SubSeq(s, 1, d)) \cup ToSet(SubSeq(s, d + 1, Len(s))) = ToSet(s)
<1>. DEFINE a == SubSeq(s, 1, d)
            b == SubSeq(s, d + 1, Len(s))
            n == Len(s)
<1>1. n \in Nat /\ d <= n /\ DOMAIN s = 1 .. n /\ \A i \in 1 .. n : s[i] \in S
  OBVIOUS
<1>2. a \in Seq(S) /\ Len(a) = d /\ DOMAIN a = 1 .. d /\ \A i \in 1 .. d : a[i] = s[i]
  BY <1>1
<1>3. b \in Seq(S) /\ Len(b) = n - d /\ DOMAIN b = 1 .. n - d /\ \A i \in 1 .. n - d : b[i] = s[i + d]
  <2>1. b \in Seq(S) /\ Len(b) = n - d
    <3>1. d + 1 \in Int /\ n \in Int /\ \A i \in d + 1 .. n : s[i] \in S
      BY <1>1
    <3>2. b \in Seq(S) /\ Len(b) = IF d + 1 <= n THEN n - (d + 1) + 1 ELSE 0
      <4>. HIDE DEF n
      <4>1. SubSeq(s, d + 1, n) \in Seq(S) /\ Len(SubSeq(s, d + 1, n)) = IF d + 1 <= n THEN n - (d + 1) + 1 ELSE 0
        BY <3>1, SubSeqProperties
      <4>. QED  BY <4>1 DEF n
    <3>. HIDE DEF b, n
    <3>. QED  BY <1>1, <3>2
  <2>2. ASSUME NEW i \in 1 .. n - d
        PROVE  b[i] = s[i + d]
    <3>1. b[i] = s[(d + 1) + i - 1]
      BY <1>1
    <3>2. (d + 1) + i - 1 = i + d
      BY <1>1
    <3>. QED  BY <3>1, <3>2, Zenon
  <2>3. DOMAIN b = 1 .. n - d
    <3>. HIDE DEF b
    <3>. QED  BY <2>1
  <2>. HIDE DEF b
  <2>. QED  BY <2>1, <2>2, <2>3
<1>. HIDE DEF a, b, n
<1>4. ASSUME IsInjective(s), NEW i \in 1 .. n - d, NEW k \in 1 .. n - d, b[i] = b[k]
      PROVE  i = k
  <2>1. i + d \in 1 .. n /\ k + d \in 1 .. n /\ s[i + d] = s[k + d]
    BY <1>1, <1>3, <1>4
  <2>2. i + d = k + d
    BY <1>1, <1>4, <2>1 DEF IsInjective
  <2>. QED  BY <1>1, <2>2
<1>5. ToSet(a) \cup ToSet(b) = ToSet(s)
  <2>1. \A v \in ToSet(a) : v \in ToSet(s)
    BY <1>1, <1>2 DEF ToSet
  <2>2. ASSUME NEW i \in 1 .. n - d
        PROVE  b[i] \in ToSet(s)
    <3>1. i + d \in 1 .. n /\ b[i] = s[i + d]
      BY <1>1, <1>3
    <3>. QED  BY <1>1, <3>1 DEF ToSet
  <2>3. ASSUME NEW i \in 1 .. n
        PROVE  s[i] \in ToSet(a) \cup ToSet(b)
    <3>1. CASE i <= d
      <4>1. i \in 1 .. d
        BY <1>1, <3>1
      <4>. QED  BY <1>2, <4>1 DEF ToSet
    <3>2. CASE ~(i <= d)
      <4>1. i - d \in 1 .. n - d /\ (i - d) + d = i
        BY <1>1, <3>2
      <4>2. b[i - d] = s[i]
        BY <1>3, <4>1
      <4>. QED  BY <1>3, <4>1, <4>2 DEF ToSet
    <3>. QED  BY <3>1, <3>2
  <2>4. \A v \in ToSet(b) : v \in ToSet(s)
    BY <1>3, <2>2 DEF ToSet
  <2>5. \A v \in ToSet(s) : v \in ToSet(a) \cup ToSet(b)
    BY <1>1, <2>3 DEF ToSet
  <2>. QED  BY <2>1, <2>4, <2>5
<1>. QED  BY <1>3, <1>4, <1>5 DEF IsInjective, a, b, n

-----------------------------------------------------------------------------
(* Every action keeps the invariant.                                            *)

OnTheWay(state) == {r \in RowIds : state[r] \in {"accepted", "late"}}

LEMMA RowInitInv == RowInit => RowInv
<1>. SUFFICES ASSUME RowInit PROVE RowInv
  OBVIOUS
<1>1. RowTypes
  <2>1. rowQueue \in Seq(RowIds) /\ rowBatch \in Seq(RowIds) /\ rowTable \in Seq(RowIds)
    BY DEF RowInit
  <2>2. rowState \in [RowIds -> {"new", "refused", "accepted", "late"}]
    BY DEF RowInit
  <2>. QED  BY <2>1, <2>2 DEF RowInit, RowTypes
<1>2. RowPlaces
  BY EmptyRows DEF RowInit, RowPlaces
<1>. QED  BY <1>1, <1>2 DEF RowInit, RowInv, RowEnds

LEMMA RowRecordInv ==
    ASSUME RowInv, NEW r \in RowIds, RowRecord(r)
    PROVE  RowInv'
<1>1. rowState[r] = "new" /\ UNCHANGED <<rowBatch, rowTable, rowWriter, rowStop, rowDropped, rowFailures>>
  BY DEF RowRecord
<1>2. r \notin ToSet(rowQueue) \cup ToSet(rowBatch) \cup ToSet(rowTable) \cup rowDropped
  BY <1>1 DEF RowInv, RowPlaces
<1>3. ToSet(rowQueue) \subseteq RowIds
  BY DEF RowInv, RowTypes, ToSet
<1>4. CASE Len(rowQueue) < QueueSize
  <2>. DEFINE s == IF rowStop THEN "late" ELSE "accepted"
  <2>1. rowState' = [rowState EXCEPT ![r] = s] /\ rowQueue' = Append(rowQueue, r)
    BY <1>4 DEF RowRecord
  <2>2. s \in {"late", "accepted"} /\ (rowStop => s = "late")
    OBVIOUS
  <2>. HIDE DEF s
  <2>3. rowState' \in [RowIds -> {"new", "refused", "accepted", "late"}]
        /\ rowState'[r] = s /\ \A q \in RowIds : q # r => rowState'[q] = rowState[q]
    BY <2>1, <2>2 DEF RowInv, RowTypes
  <2>4. rowQueue' \in Seq(RowIds) /\ ToSet(rowQueue') = ToSet(rowQueue) \cup {r} /\ IsInjective(rowQueue')
    <3>1. rowQueue \in Seq(RowIds) /\ IsInjective(rowQueue) /\ r \notin ToSet(rowQueue)
      BY <1>2 DEF RowInv, RowTypes, RowPlaces
    <3>. QED  BY <2>1, <3>1, AppendRow
  <2>5. RowTypes'
    BY <1>1, <2>3, <2>4 DEF RowInv, RowTypes
  <2>6. RowPlaces'
    <3>1. OnTheWay(rowState') = OnTheWay(rowState) \cup {r}
      BY <2>2, <2>3 DEF OnTheWay
    <3>2. OnTheWay(rowState) = ToSet(rowQueue) \cup ToSet(rowBatch) \cup ToSet(rowTable) \cup rowDropped
      BY DEF RowInv, RowPlaces, OnTheWay
    <3>3. OnTheWay(rowState') = ToSet(rowQueue') \cup ToSet(rowBatch') \cup ToSet(rowTable') \cup rowDropped'
      BY <1>1, <2>4, <3>1, <3>2
    <3>. QED  BY <1>1, <1>2, <2>4, <3>3 DEF RowInv, RowPlaces, OnTheWay
  <2>7. RowEnds'
    <3>1. rowWriter' \in {"last", "done"} => \A q \in ToSet(rowQueue') : rowState'[q] = "late"
      BY <1>1, <1>2, <1>3, <2>2, <2>3, <2>4 DEF RowInv, RowEnds
    <3>. QED  BY <1>1, <3>1 DEF RowInv, RowEnds
  <2>. QED  BY <2>5, <2>6, <2>7 DEF RowInv
<1>5. CASE ~(Len(rowQueue) < QueueSize)
  <2>1. rowState' = [rowState EXCEPT ![r] = "refused"] /\ rowQueue' = rowQueue
    BY <1>5 DEF RowRecord
  <2>2. rowState' \in [RowIds -> {"new", "refused", "accepted", "late"}]
        /\ rowState'[r] = "refused" /\ \A q \in RowIds : q # r => rowState'[q] = rowState[q]
    BY <2>1 DEF RowInv, RowTypes
  <2>3. OnTheWay(rowState') = OnTheWay(rowState)
    BY <1>1, <2>2 DEF OnTheWay
  <2>4. RowTypes'
    BY <1>1, <2>1, <2>2 DEF RowInv, RowTypes
  <2>5. RowPlaces'
    BY <1>1, <2>1, <2>3 DEF RowInv, RowPlaces, OnTheWay
  <2>6. RowEnds'
    BY <1>1, <1>2, <1>3, <2>1, <2>2 DEF RowInv, RowEnds
  <2>. QED  BY <2>4, <2>5, <2>6 DEF RowInv
<1>. QED  BY <1>4, <1>5

LEMMA RowTakeInv ==
    ASSUME RowInv, RowTake
    PROVE  RowInv'
<1>. DEFINE h == Head(rowQueue)
<1>1. /\ rowWriter \in {"loop", "draining"} /\ rowQueue # <<>>
      /\ rowBatch' = Append(rowBatch, h) /\ rowQueue' = Tail(rowQueue)
      /\ rowWriter' \in {"flush", rowWriter} /\ (rowWriter' = "flush" => rowWriter = "loop")
      /\ UNCHANGED <<rowState, rowTable, rowStop, rowDropped, rowFailures>>
  BY DEF RowTake
<1>2. /\ rowQueue \in Seq(RowIds) /\ rowBatch \in Seq(RowIds) /\ IsInjective(rowQueue) /\ IsInjective(rowBatch)
      /\ ToSet(rowQueue) \cap ToSet(rowBatch) = {} /\ ToSet(rowQueue) \cap ToSet(rowTable) = {}
  BY DEF RowInv, RowTypes, RowPlaces
<1>3. /\ h \in RowIds /\ h \in ToSet(rowQueue) /\ rowQueue' \in Seq(RowIds)
      /\ IsInjective(rowQueue') /\ ToSet(rowQueue') = ToSet(rowQueue) \ {h}
  BY <1>1, <1>2, TailRows
<1>. HIDE DEF h
<1>4. rowBatch' \in Seq(RowIds) /\ ToSet(rowBatch') = ToSet(rowBatch) \cup {h} /\ IsInjective(rowBatch')
  <2>1. h \notin ToSet(rowBatch)
    BY <1>2, <1>3
  <2>. QED  BY <1>1, <1>2, <1>3, <2>1, AppendRow
<1>5. RowTypes'
  BY <1>1, <1>3, <1>4 DEF RowInv, RowTypes
<1>6. RowPlaces'
  BY <1>1, <1>2, <1>3, <1>4 DEF RowInv, RowPlaces
<1>7. RowEnds'
  BY <1>1 DEF RowInv, RowEnds
<1>. QED  BY <1>5, <1>6, <1>7 DEF RowInv

LEMMA RowInsertInv ==
    ASSUME RowInv, RowInsert
    PROVE  RowInv'
<1>1. /\ rowWriter \in {"flush", "last"} /\ rowTable' = rowTable \o rowBatch /\ rowBatch' = <<>>
      /\ rowWriter' = IF rowWriter = "flush" THEN "loop" ELSE "done"
      /\ UNCHANGED <<rowState, rowQueue, rowStop, rowDropped, rowFailures>>
  BY DEF RowInsert, RowFlushed
<1>2. /\ rowTable' \in Seq(RowIds) /\ ToSet(rowTable') = ToSet(rowTable) \cup ToSet(rowBatch)
      /\ IsInjective(rowTable')
  <2>1. /\ rowTable \in Seq(RowIds) /\ rowBatch \in Seq(RowIds) /\ IsInjective(rowTable) /\ IsInjective(rowBatch)
        /\ ToSet(rowTable) \cap ToSet(rowBatch) = {}
    BY DEF RowInv, RowTypes, RowPlaces
  <2>. QED  BY <1>1, <2>1, JoinRows
<1>3. rowBatch' \in Seq(RowIds) /\ ToSet(rowBatch') = {} /\ IsInjective(rowBatch')
  BY <1>1, EmptyRows
<1>4. RowTypes'
  BY <1>1, <1>2, <1>3 DEF RowInv, RowTypes
<1>5. RowPlaces'
  BY <1>1, <1>2, <1>3 DEF RowInv, RowPlaces
<1>6. RowEnds'
  BY <1>1 DEF RowInv, RowEnds
<1>. QED  BY <1>4, <1>5, <1>6 DEF RowInv

LEMMA RowInsertFailsInv ==
    ASSUME RowInv, RowInsertFails
    PROVE  RowInv'
<1>. DEFINE drop == IF Len(rowBatch) > MaxBuffered THEN Len(rowBatch) - MaxBuffered ELSE 0
            gone == ToSet(SubSeq(rowBatch, 1, drop))
<1>1. /\ rowWriter \in {"flush", "last"} /\ rowFailures' = rowFailures + 1
      /\ rowDropped' = rowDropped \cup gone
      /\ rowBatch' = SubSeq(rowBatch, drop + 1, Len(rowBatch))
      /\ rowWriter' = IF rowWriter = "flush" THEN "loop" ELSE "done"
      /\ UNCHANGED <<rowState, rowQueue, rowTable, rowStop>>
  BY DEF RowInsertFails, RowFlushed
<1>2. rowBatch \in Seq(RowIds) /\ IsInjective(rowBatch) /\ rowFailures \in Nat
  BY DEF RowInv, RowTypes, RowPlaces
<1>3. drop \in Nat /\ drop <= Len(rowBatch)
  BY <1>2, LogStoreAssumption
<1>. HIDE DEF drop
<1>4. rowBatch' \in Seq(RowIds) /\ IsInjective(rowBatch') /\ gone \cup ToSet(rowBatch') = ToSet(rowBatch)
  BY <1>1, <1>2, <1>3, CutRows
<1>5. ToSet(rowBatch) \subseteq RowIds
  BY <1>2 DEF ToSet
<1>. HIDE DEF gone
<1>6. RowTypes'
  BY <1>1, <1>2, <1>4, <1>5 DEF RowInv, RowTypes
<1>7. RowPlaces'
  BY <1>1, <1>4 DEF RowInv, RowPlaces
<1>8. RowEnds'
  BY <1>1, <1>2 DEF RowInv, RowEnds
<1>. QED  BY <1>6, <1>7, <1>8 DEF RowInv

LEMMA RowRestInv ==
    ASSUME RowInv, RowTick \/ RowClose \/ RowSeesStop \/ RowDrained \/ UNCHANGED rowVars
    PROVE  RowInv'
<1>1. UNCHANGED <<rowState, rowQueue, rowBatch, rowTable, rowDropped, rowFailures>>
  BY DEF RowTick, RowClose, RowSeesStop, RowDrained, rowVars
<1>2. RowPlaces'
  BY <1>1 DEF RowInv, RowPlaces
<1>3. RowTypes'
  BY <1>1 DEF RowTick, RowClose, RowSeesStop, RowDrained, rowVars, RowInv, RowTypes
<1>4. RowEnds'
  <2>1. CASE RowDrained
    <3>1. ToSet(rowQueue) = {}
      BY <2>1, EmptyRows DEF RowDrained
    <3>. QED  BY <1>1, <2>1, <3>1 DEF RowDrained, RowInv, RowEnds
  <2>2. CASE RowTick \/ RowClose \/ RowSeesStop \/ UNCHANGED rowVars
    BY <1>1, <2>2 DEF RowTick, RowClose, RowSeesStop, rowVars, RowInv, RowEnds
  <2>. QED  BY <2>1, <2>2
<1>. QED  BY <1>2, <1>3, <1>4 DEF RowInv

LEMMA RowInvAccepts == RowInv => AcceptedOnce
<1>. SUFFICES ASSUME RowInv PROVE AcceptedOnce
  OBVIOUS
<1>. DEFINE front == rowTable \o rowBatch
            kept == rowTable \o rowBatch \o rowQueue
<1>1. /\ rowQueue \in Seq(RowIds) /\ rowBatch \in Seq(RowIds) /\ rowTable \in Seq(RowIds)
      /\ IsInjective(rowQueue) /\ IsInjective(rowBatch) /\ IsInjective(rowTable)
      /\ ToSet(rowQueue) \cap ToSet(rowBatch) = {} /\ ToSet(rowQueue) \cap ToSet(rowTable) = {}
      /\ ToSet(rowTable) \cap ToSet(rowBatch) = {}
  BY DEF RowInv, RowTypes, RowPlaces
<1>2. front \in Seq(RowIds) /\ ToSet(front) = ToSet(rowTable) \cup ToSet(rowBatch) /\ IsInjective(front)
  BY <1>1, JoinRows
<1>3. ToSet(kept) = ToSet(front) \cup ToSet(rowQueue) /\ IsInjective(kept)
  <2>1. ToSet(front) \cap ToSet(rowQueue) = {} /\ kept = front \o rowQueue
    BY <1>1, <1>2
  <2>. HIDE DEF front, kept
  <2>. QED  BY <1>1, <1>2, <2>1, JoinRows
<1>. HIDE DEF front, kept
<1>4. Accepted \cup Late = ToSet(kept) \cup rowDropped
  BY <1>2, <1>3 DEF RowInv, RowPlaces, Accepted, Late
<1>5. rowFailures = 0 => rowDropped = {}
  BY DEF RowInv, RowEnds
<1>6. ASSUME rowFailures = 0, rowWriter = "done"
      PROVE  Accepted \subseteq ToSet(rowTable)
  <2>1. ToSet(rowBatch) = {} /\ rowDropped = {}
    BY <1>6, EmptyRows DEF RowInv, RowEnds
  <2>2. \A r \in ToSet(rowQueue) : rowState[r] = "late"
    BY <1>6 DEF RowInv, RowEnds
  <2>. QED  BY <1>2, <1>3, <1>4, <2>1, <2>2 DEF Accepted
<1>. QED  BY <1>3, <1>4, <1>5, <1>6 DEF AcceptedOnce, kept

(* A row the store accepted is committed once or on its way, and is lost only *)
(* after an insert failed, for any queue, batch and number of writers         *)
(* (Store.Record, run, flush, Close).                                         *)
THEOREM RowsAcceptedOnce == RowSpec => []AcceptedOnce
<1>1. RowInv /\ [RowNext]_rowVars => RowInv'
  BY RowRecordInv, RowTakeInv, RowInsertInv, RowInsertFailsInv, RowRestInv, Zenon DEF RowNext, RowStep
<1>. QED  BY <1>1, RowInitInv, RowInvAccepts, PTL DEF RowSpec

-------------------------------------------------------------------------------
(* Backups.  The inductive invariant says that what is not in the catalog yet *)
(* is younger than what a rotation under way may remove, and that what lies   *)
(* under the name a restore has checked is what it checked, or was put there  *)
(* since.                                                                     *)

(* An entry is named by the second it was begun in.                             *)
BakStamped(e) == e.time \in Nat /\ e.id[1] = e.time
IsListed(entries) == entries \in Seq(ToSet(entries))

BakShapes ==
    /\ bakClock \in Nat
    /\ IsListed(bakCatalog) /\ IsListed(bakSaved)
    /\ \A e \in ToSet(bakCatalog) \union ToSet(bakSaved) : BakStamped(e) /\ e.db \in Dbs
    /\ DOMAIN bakRuns = Dbs
    /\ \A d \in Dbs : bakRuns[d] # NoJob => DOMAIN bakRuns[d] = {"pc", "id", "time", "bytes", "by"}
    /\ bakUpload # NoJob => bakUpload.db \in Dbs
    /\ bakRemoval # NoJob => bakRemoval.asked \in BOOLEAN

(* What is not recorded yet is younger than what rotation may remove.           *)
BakYoung(job) == BakStamped(job) /\ job.time + Window >= bakClock
JobsYoung ==
    /\ \A d \in Dbs : bakRuns[d] # NoJob => BakYoung(bakRuns[d])
    /\ bakUpload # NoJob => BakYoung(bakUpload)

(* What was promised is in memory and on disk, and no rotation under way has    *)
(* its id.                                                                      *)
PromisedListed ==
    /\ bakPromised \subseteq ToSet(bakSaved) \intersect ToSet(bakCatalog)
    /\ \A e \in bakPromised : Manual(e)
    /\ bakRemoval # NoJob /\ ~bakRemoval.asked =>
         /\ \A id \in bakRemoval.ids : id[1] \in Nat /\ id[1] + Window < bakClock
         /\ \A e \in bakPromised : e.id \notin bakRemoval.ids

(* A restore's second read finds what the first one compared, or what was put   *)
(* under the name since, or nothing it can unpack.                              *)
RestoreShape == {"pc", "entry", "target", "replace", "sql", "over"}
RestorePath == <<bakRestore.entry.db, bakRestore.entry.id>>
SecondRead ==
    bakRestore.pc = "checked" =>
        bakFiles[RestorePath] \in {bakRestore.entry.sum, NoBytes, Torn} \union bakRestore.over
BakReads ==
    /\ DOMAIN bakFiles = Dbs \X DumpIds
    /\ bakRestore # NoJob => DOMAIN bakRestore = RestoreShape /\ RestorePath \in Dbs \X DumpIds
    /\ SecondRead /\ RestoreInHand

BakInv == BakShapes /\ JobsYoung /\ PromisedListed /\ BakReads

-----------------------------------------------------------------------------
(* catalog.forget leaves the entries without the ids, in their order.           *)

StepOf(s, ids, g, i) ==
    IF i = 0 THEN <<>> ELSE IF s[i].id \in ids THEN g[i - 1] ELSE Append(g[i - 1], s[i])
KeptOf(s, ids, g, n) == g = [i \in 0 .. n |-> StepOf(s, ids, g, i)]

LeftOf(s, ids, n) == {s[i] : i \in {j \in 1 .. n : s[j].id \notin ids}}

(* The loop has a result: one more entry is one more step.                      *)
LEMMA LoopEnds ==
    ASSUME NEW s, NEW ids, NEW n \in Nat
    PROVE  \E g : KeptOf(s, ids, g, n)
<1>. DEFINE Done == {m \in Nat : \E g : KeptOf(s, ids, g, m)}
<1>1. 0 \in Done
  <2>. DEFINE g == [i \in 0 .. 0 |-> <<>>]
  <2>1. KeptOf(s, ids, g, 0)
    BY DEF KeptOf, StepOf
  <2>. QED  BY <2>1
<1>2. ASSUME NEW m \in Done
      PROVE  m + 1 \in Done
  <2>1. PICK g : KeptOf(s, ids, g, m)
    OBVIOUS
  <2>. DEFINE h == [i \in 0 .. m + 1 |-> IF i <= m THEN g[i] ELSE StepOf(s, ids, g, i)]
  <2>2. \A i \in 0 .. m + 1 : h[i] = StepOf(s, ids, h, i)
    <3>. TAKE i \in 0 .. m + 1
    <3>1. i # 0 => h[i - 1] = g[i - 1]
      OBVIOUS
    <3>2. h[i] = StepOf(s, ids, g, i)
      BY <2>1 DEF KeptOf
    <3>. HIDE DEF h
    <3>. QED  BY <3>1, <3>2 DEF StepOf
  <2>3. h = [i \in 0 .. m + 1 |-> h[i]]
    OBVIOUS
  <2>. HIDE DEF h
  <2>4. KeptOf(s, ids, h, m + 1)
    BY <2>2, <2>3 DEF KeptOf
  <2>. QED  BY <2>4
<1>. HIDE DEF Done
<1>3. Done = Nat
  <2>1. Done \subseteq Nat
    BY DEF Done
  <2>. QED  BY <1>1, <1>2, <2>1, RankInduction
<1>. QED  BY <1>3 DEF Done

LEMMA KeptExact ==
    ASSUME NEW S, NEW s \in Seq(S), NEW ids, NEW g, KeptOf(s, ids, g, Len(s)),
           NEW n \in 0 .. Len(s)
    PROVE  g[n] \in Seq(S) /\ ToSet(g[n]) = LeftOf(s, ids, n)
<1>. DEFINE Left(m) == {s[i] : i \in {j \in 1 .. m : s[j].id \notin ids}}
            Right(m) == g[m] \in Seq(S) /\ ToSet(g[m]) = Left(m)
            Good == {m \in Nat : m <= Len(s) => Right(m)}
<1>0. Len(s) \in Nat /\ \A i \in 1 .. Len(s) : s[i] \in S
  OBVIOUS
<1>1. \A i \in 0 .. Len(s) : g[i] = StepOf(s, ids, g, i)
  BY DEF KeptOf
<1>2. 0 \in Good
  <2>1. g[0] = <<>>
    BY <1>0, <1>1 DEF StepOf
  <2>2. Left(0) = {}
    OBVIOUS
  <2>3. <<>> \in Seq(S)
    OBVIOUS
  <2>. HIDE DEF Left
  <2>. QED  BY <2>1, <2>2, <2>3, EmptyRows
<1>3. ASSUME NEW m \in Good
      PROVE  m + 1 \in Good
  <2>. SUFFICES ASSUME m + 1 <= Len(s) PROVE Right(m + 1)
    OBVIOUS
  <2>1. Right(m) /\ m \in Nat /\ m + 1 \in 1 .. Len(s) /\ s[m + 1] \in S
    BY <1>0
  <2>. DEFINE e == s[m + 1]
  <2>2. g[m + 1] = IF e.id \in ids THEN g[m] ELSE Append(g[m], e)
    <3>1. m + 1 \in 0 .. Len(s) /\ m + 1 # 0 /\ (m + 1) - 1 = m
      BY <2>1, <1>0
    <3>. QED  BY <1>1, <3>1 DEF StepOf
  <2>3. Left(m + 1) = IF e.id \in ids THEN Left(m) ELSE Left(m) \cup {e}
    <3>1. 1 .. m + 1 = (1 .. m) \cup {m + 1}
      BY <2>1
    <3>. QED  BY <3>1
  <2>4. e.id \notin ids => Append(g[m], e) \in Seq(S) /\ ToSet(Append(g[m], e)) = ToSet(g[m]) \cup {e}
    <3>. HIDE DEF Left, e
    <3>1. e \in S
      BY <2>1 DEF e
    <3>. QED  BY <2>1, <3>1, AppendRow
  <2>. HIDE DEF Left, e
  <2>. QED  BY <2>1, <2>2, <2>3, <2>4
<1>. HIDE DEF Good, Right, Left, LeftOf
<1>4. Good = Nat
  <2>1. Good \subseteq Nat
    BY DEF Good
  <2>. QED  BY <1>2, <1>3, <2>1, RankInduction
<1>5. n \in Good /\ n <= Len(s)
  BY <1>0, <1>4
<1>. QED  BY <1>5 DEF Good, Right, Left, LeftOf

LEMMA Forgotten ==
    ASSUME IsListed(bakCatalog), NEW ids
    PROVE  /\ IsListed(Forget(ids))
           /\ ToSet(Forget(ids)) = {e \in ToSet(bakCatalog) : e.id \notin ids}
<1>. DEFINE s == bakCatalog
            S == ToSet(s)
            f == CHOOSE g : KeptOf(s, ids, g, Len(s))
<1>1. s \in Seq(S) /\ Len(s) \in 0 .. Len(s)
  BY DEF IsListed
<1>2. Forget(ids) = f[Len(s)]
  BY Zenon DEF Forget, KeptOf, StepOf
<1>3. KeptOf(s, ids, f, Len(s))
  <2>1. Len(s) \in Nat
    BY <1>1
  <2>. QED  BY <2>1, LoopEnds, Zenon
<1>. HIDE DEF f
<1>4. f[Len(s)] \in Seq(S) /\ ToSet(f[Len(s)]) = LeftOf(s, ids, Len(s))
  <2>. HIDE DEF s, S
  <2>. QED  BY <1>1, <1>3, KeptExact, Zenon
<1>5. S = {s[i] : i \in 1 .. Len(s)}
  BY <1>1 DEF ToSet
<1>6. ToSet(f[Len(s)]) = {e \in S : e.id \notin ids}
  BY <1>4, <1>5 DEF LeftOf
<1>7. f[Len(s)] \in Seq(ToSet(f[Len(s)]))
  <2>. DEFINE t == f[Len(s)]
  <2>1. t \in Seq(S)
    BY <1>4
  <2>. HIDE DEF t
  <2>2. t \in Seq(ToSet(t))
    BY <2>1 DEF ToSet
  <2>. QED  BY <2>2 DEF t
<1>. QED  BY <1>2, <1>6, <1>7 DEF IsListed

-----------------------------------------------------------------------------
(* Every action keeps the invariant.                                            *)

LEMMA CappedListed ==
    ASSUME IsListed(bakCatalog), NEW e
    PROVE  /\ IsListed(Capped(Append(bakCatalog, e)))
           /\ ToSet(Capped(Append(bakCatalog, e))) \subseteq ToSet(bakCatalog) \union {e}
<1>. DEFINE S == ToSet(bakCatalog) \union {e}
            s == Append(bakCatalog, e)
            from == IF Len(s) > CatalogKeep THEN Len(s) - CatalogKeep + 1 ELSE 1
            t == SubSeq(s, from, Len(s))
<1>1. s \in Seq(S) /\ Len(s) \in Nat /\ \A i \in 1 .. Len(s) : s[i] \in S
  <2>1. bakCatalog \in Seq(S) /\ e \in S
    BY DEF IsListed
  <2>. HIDE DEF S
  <2>. QED  BY <2>1
<1>. HIDE DEF s, S
<1>2. from \in Nat \ {0}
  BY <1>1, BackupsAssumption
<1>. HIDE DEF from
<1>3. t \in Seq(S)
  <2>1. \A i \in from .. Len(s) : s[i] \in S
    BY <1>1, <1>2
  <2>. QED  BY <1>1, <1>2, <2>1, SubSeqProperties
<1>. HIDE DEF t
<1>4. t \in Seq(ToSet(t)) /\ ToSet(t) \subseteq S
  BY <1>3 DEF ToSet
<1>. QED  BY <1>4 DEF IsListed, Capped, t, s, from, S

LEMMA BakInitInv == BackupsInit => BakInv
<1>. SUFFICES ASSUME BackupsInit PROVE BakInv
  OBVIOUS
<1>1. /\ bakCatalog = <<>> /\ bakSaved = <<>> /\ bakPromised = {} /\ bakClock = 1
      /\ bakUpload = NoJob /\ bakRemoval = NoJob /\ bakRestore = NoJob
      /\ bakRuns = [d \in Dbs |-> NoJob] /\ DOMAIN bakFiles = Dbs \X DumpIds
  BY DEF BackupsInit
<1>2. IsListed(<<>>) /\ ToSet(<<>>) = {}
  BY EmptyRows DEF IsListed
<1>3. BakShapes
  BY <1>1, <1>2 DEF BakShapes
<1>4. BakReads
  BY <1>1 DEF BakReads, SecondRead, RestoreInHand, NoJob
<1>. QED  BY <1>1, <1>2, <1>3, <1>4 DEF BakInv, JobsYoung, PromisedListed

(* A step that writes no archive into place leaves a restore what it had.       *)
LEMMA ReadsKept ==
    ASSUME BakReads, UNCHANGED bakRestore, DOMAIN bakFiles' = DOMAIN bakFiles,
           \A p \in DOMAIN bakFiles : bakFiles'[p] \in {bakFiles[p], NoBytes, Torn}
    PROVE  BakReads'
<1>1. SecondRead'
  <2>1. CASE bakRestore.pc = "checked"
    <3>1. RestorePath \in DOMAIN bakFiles /\ RestorePath' = RestorePath
      BY <2>1 DEF BakReads, NoJob, RestorePath
    <3>. QED  BY <2>1, <3>1 DEF BakReads, SecondRead
  <2>2. CASE bakRestore.pc # "checked"
    BY <2>2 DEF SecondRead
  <2>. QED  BY <2>1, <2>2
<1>2. RestoreInHand' /\ RestorePath' = RestorePath
  BY DEF BakReads, RestoreInHand, RestorePath
<1>. QED  BY <1>1, <1>2 DEF BakReads

(* One that does is remembered by a restore that has checked that name.         *)
LEMMA ReadsPutOver ==
    ASSUME BakReads, NEW path, NEW bytes, PutsOver(path, bytes),
           bakFiles' = [bakFiles EXCEPT ![path] = bytes]
    PROVE  BakReads'
<1>. DEFINE hit == bakRestore.pc = "checked" /\ path = RestorePath
<1>1. CASE hit
  <2>1. bakRestore' = [bakRestore EXCEPT !.over = @ \union {bytes}]
    BY <1>1 DEF PutsOver, RestorePath
  <2>2. DOMAIN bakRestore = RestoreShape /\ RestorePath \in DOMAIN bakFiles
    BY <1>1 DEF BakReads, NoJob
  <2>3. /\ DOMAIN bakRestore' = RestoreShape /\ bakRestore'.pc = "checked"
        /\ bakRestore'.entry = bakRestore.entry /\ bytes \in bakRestore'.over
    BY <1>1, <2>1, <2>2 DEF RestoreShape
  <2>4. RestorePath' = RestorePath /\ bakFiles'[RestorePath] = bytes
    BY <1>1, <2>2, <2>3 DEF RestorePath
  <2>5. DOMAIN bakFiles' = DOMAIN bakFiles
    OBVIOUS
  <2>6. SecondRead' /\ RestoreInHand'
    BY <2>3, <2>4 DEF SecondRead, RestoreInHand
  <2>. QED  BY <2>2, <2>3, <2>4, <2>5, <2>6 DEF BakReads
<1>2. CASE ~hit
  <2>1. bakRestore' = bakRestore
    BY <1>2 DEF PutsOver, RestorePath
  <2>2. RestorePath' = RestorePath /\ (RestoreInHand' <=> RestoreInHand)
    BY <2>1 DEF RestorePath, RestoreInHand
  <2>3. SecondRead'
    <3>1. CASE bakRestore.pc = "checked"
      <4>1. RestorePath \in DOMAIN bakFiles /\ RestorePath # path
        BY <1>2, <3>1 DEF BakReads, NoJob
      <4>2. bakFiles'[RestorePath] = bakFiles[RestorePath]
        BY <4>1
      <4>. QED  BY <2>1, <2>2, <3>1, <4>2 DEF BakReads, SecondRead
    <3>2. CASE bakRestore.pc # "checked"
      BY <2>1, <3>2 DEF SecondRead
    <3>. QED  BY <3>1, <3>2
  <2>. QED  BY <2>1, <2>2, <2>3 DEF BakReads
<1>. QED  BY <1>1, <1>2

BakLists(e) ==
    /\ bakCatalog' = Capped(Append(bakCatalog, e))
    /\ bakSaved' = bakCatalog' \/ bakSaved' = bakSaved
    /\ bakPromised' \subseteq bakPromised \union {e} /\ bakPromised' \subseteq ToSet(bakCatalog')
    /\ e \in bakPromised' => e \in bakPromised \/ (Manual(e) /\ bakSaved' = bakCatalog')

LEMMA RecordLists ==
    ASSUME NEW e, Record(e)
    PROVE  BakLists(e)
BY DEF Record, SaveCatalog, BakLists

(* What is recorded is young, so that no rotation under way has its id.         *)
LEMMA BakListsInv ==
    ASSUME BakInv, NEW e, BakStamped(e), e.db \in Dbs, e.time + Window >= bakClock, BakLists(e),
           UNCHANGED <<bakFiles, bakRestore, bakRemoval, bakClock>>,
           DOMAIN bakRuns' = Dbs, \A d \in Dbs : bakRuns'[d] \in {bakRuns[d], NoJob},
           bakUpload' \in {bakUpload, NoJob}
    PROVE  BakInv'
<1>2. /\ IsListed(bakCatalog') /\ ToSet(bakCatalog') \subseteq ToSet(bakCatalog) \union {e}
  BY CappedListed DEF BakInv, BakShapes, BakLists
<1>4. BakShapes'
  BY <1>2 DEF BakInv, BakShapes, BakLists
<1>5. JobsYoung'
  BY DEF BakInv, BakShapes, JobsYoung, BakYoung
<1>6. PromisedListed'
  <2>1. bakPromised' \subseteq ToSet(bakSaved') \intersect ToSet(bakCatalog')
    BY DEF BakInv, PromisedListed, BakLists
  <2>2. \A p \in bakPromised' : Manual(p)
    BY DEF BakInv, PromisedListed, BakLists
  <2>3. ASSUME bakRemoval # NoJob, ~bakRemoval.asked
        PROVE  /\ \A id \in bakRemoval.ids : id[1] \in Nat /\ id[1] + Window < bakClock
               /\ \A p \in bakPromised' : p.id \notin bakRemoval.ids
    <3>1. /\ \A id \in bakRemoval.ids : id[1] \in Nat /\ id[1] + Window < bakClock
          /\ \A p \in bakPromised : p.id \notin bakRemoval.ids
      BY <2>3 DEF BakInv, PromisedListed
    <3>2. e.id \notin bakRemoval.ids
      <4>1. e.time \in Nat /\ e.id[1] = e.time /\ bakClock \in Nat
        BY DEF BakInv, BakShapes, BakStamped
      <4>2. ~(e.time + Window < bakClock)
        BY <4>1, BackupsAssumption
      <4>. QED  BY <3>1, <4>1, <4>2
    <3>. QED  BY <3>1, <3>2 DEF BakLists
  <2>. QED  BY <2>1, <2>2, <2>3 DEF PromisedListed
<1>7. BakReads'
  BY ReadsKept DEF BakInv
<1>. QED  BY <1>4, <1>5, <1>6, <1>7 DEF BakInv

(* A run that ends.                                                             *)
LEMMA RunOver ==
    ASSUME BakInv, NEW d \in Dbs, bakRuns' = [bakRuns EXCEPT ![d] = NoJob]
    PROVE  DOMAIN bakRuns' = Dbs /\ \A x \in Dbs : bakRuns'[x] \in {bakRuns[x], NoJob}
BY DEF BakInv, BakShapes

LEMMA DumpRecordsInv ==
    ASSUME BakInv, NEW d \in Dbs, DumpRecords(d) \/ DumpFails(d)
    PROVE  BakInv'
<1>. DEFINE job == bakRuns[d]
<1>1. /\ job.pc # "none" /\ bakRuns' = [bakRuns EXCEPT ![d] = NoJob]
      /\ UNCHANGED <<bakFiles, bakUpload, bakRemoval, bakRestore, bakBases, bakClock, bakDumps>>
  BY DEF DumpRecords, DumpFails
<1>2. BakStamped(job) /\ job.time + Window >= bakClock
  <2>1. job # NoJob
    BY <1>1 DEF NoJob
  <2>. QED  BY <2>1 DEF BakInv, JobsYoung, BakYoung
<1>. HIDE DEF job
<1>3. ASSUME NEW ok \in BOOLEAN
      PROVE  /\ BakStamped(EntryOf(d, job, ok)) /\ EntryOf(d, job, ok).time + Window >= bakClock
             /\ EntryOf(d, job, ok).db \in Dbs
  BY <1>2 DEF EntryOf, BakStamped
<1>4. \E ok \in BOOLEAN : BakLists(EntryOf(d, job, ok))
  <2>1. CASE DumpRecords(d)
    <3>1. PICK ok \in BOOLEAN : Record(EntryOf(d, job, ok))
      BY <2>1 DEF DumpRecords, job
    <3>. QED  BY <3>1, RecordLists
  <2>2. CASE DumpFails(d)
    <3>1. BakLists(EntryOf(d, job, FALSE))
      BY <2>2 DEF DumpFails, BakLists, job
    <3>. QED  BY <3>1
  <2>. QED  BY <2>1, <2>2
<1>5. PICK ok \in BOOLEAN : BakLists(EntryOf(d, job, ok))
  BY <1>4
<1>6. DOMAIN bakRuns' = Dbs /\ \A x \in Dbs : bakRuns'[x] \in {bakRuns[x], NoJob}
  BY <1>1, RunOver
<1>. QED  BY <1>1, <1>3, <1>5, <1>6, BakListsInv

LEMMA UploadRecordsInv ==
    ASSUME BakInv, UploadRecords
    PROVE  BakInv'
<1>. DEFINE e == EntryOf(bakUpload.db, bakUpload, TRUE)
<1>1. /\ bakUpload.pc = "landed" /\ Record(e) /\ bakUpload' = NoJob
      /\ UNCHANGED <<bakFiles, bakRuns, bakRemoval, bakRestore, bakClock>>
  BY DEF UploadRecords
<1>2. BakStamped(e) /\ e.time + Window >= bakClock /\ e.db \in Dbs
  <2>1. bakUpload # NoJob
    BY <1>1 DEF NoJob
  <2>2. BakStamped(bakUpload) /\ bakUpload.time + Window >= bakClock /\ bakUpload.db \in Dbs
    BY <2>1 DEF BakInv, BakShapes, JobsYoung, BakYoung
  <2>. QED  BY <2>2 DEF EntryOf, BakStamped
<1>3. DOMAIN bakRuns' = Dbs /\ \A x \in Dbs : bakRuns'[x] \in {bakRuns[x], NoJob}
  BY <1>1 DEF BakInv, BakShapes
<1>. HIDE DEF e
<1>. QED  BY <1>1, <1>2, <1>3, RecordLists, BakListsInv

(* What takes a job on, or moves it along, gives it the second it began in.     *)
LEMMA DumpStartsInv ==
    ASSUME BakInv, NEW d \in Dbs, NEW by, DumpStarts(d, by)
    PROVE  BakInv'
<1>. DEFINE job == [pc |-> "dumping", id |-> UniqueDump(d), time |-> bakClock, bytes |-> bakDumps + 1, by |-> by]
<1>1. /\ bakRuns' = [bakRuns EXCEPT ![d] = job]
      /\ UNCHANGED <<bakFiles, bakCatalog, bakSaved, bakUpload, bakRemoval, bakRestore, bakClock, bakPromised>>
  BY DEF DumpStarts
<1>2. /\ job # NoJob /\ DOMAIN job = {"pc", "id", "time", "bytes", "by"}
      /\ BakYoung(job)
  <2>1. bakClock \in Nat /\ UniqueDump(d)[1] = bakClock
    BY DEF BakInv, BakShapes, UniqueDump
  <2>. QED  BY <2>1, BackupsAssumption DEF BakYoung, BakStamped, NoJob
<1>. HIDE DEF job
<1>3. DOMAIN bakRuns' = Dbs /\ bakRuns'[d] = job /\ \A x \in Dbs : x # d => bakRuns'[x] = bakRuns[x]
  BY <1>1 DEF BakInv, BakShapes
<1>4. BakShapes'
  BY <1>1, <1>2, <1>3 DEF BakInv, BakShapes
<1>5. JobsYoung'
  BY <1>1, <1>2, <1>3 DEF BakInv, JobsYoung, BakYoung
<1>6. BakReads'
  BY <1>1, ReadsKept DEF BakInv
<1>. QED  BY <1>1, <1>4, <1>5, <1>6 DEF BakInv, PromisedListed

LEMMA DumpMovesOn ==
    ASSUME BakInv, NEW d \in Dbs, NEW pc, bakRuns[d] # NoJob, pc # "none",
           bakRuns' = [bakRuns EXCEPT ![d].pc = pc],
           UNCHANGED <<bakCatalog, bakSaved, bakUpload, bakRemoval, bakClock, bakPromised>>,
           BakReads'
    PROVE  BakInv'
<1>. DEFINE job == [bakRuns[d] EXCEPT !.pc = pc]
<1>1. bakRuns' = [bakRuns EXCEPT ![d] = job]
  OBVIOUS
<1>2. DOMAIN job = {"pc", "id", "time", "bytes", "by"} /\ BakYoung(job)
  <2>2. DOMAIN bakRuns[d] = {"pc", "id", "time", "bytes", "by"} /\ BakYoung(bakRuns[d])
    BY DEF BakInv, BakShapes, JobsYoung
  <2>3. DOMAIN job = DOMAIN bakRuns[d] /\ job.id = bakRuns[d].id /\ job.time = bakRuns[d].time
    BY <2>2
  <2>. HIDE DEF job
  <2>. QED  BY <2>2, <2>3 DEF BakYoung, BakStamped
<1>. HIDE DEF job
<1>3. DOMAIN bakRuns' = Dbs /\ bakRuns'[d] = job /\ \A x \in Dbs : x # d => bakRuns'[x] = bakRuns[x]
  BY <1>1 DEF BakInv, BakShapes
<1>4. BakShapes'
  BY <1>1, <1>2, <1>3 DEF BakInv, BakShapes
<1>5. JobsYoung'
  BY <1>1, <1>2, <1>3 DEF BakInv, JobsYoung, BakYoung
<1>. QED  BY <1>4, <1>5 DEF BakInv, PromisedListed

LEMMA DumpCreatesInv ==
    ASSUME BakInv, NEW d \in Dbs, DumpCreates(d)
    PROVE  BakInv'
<1>1. /\ bakRuns[d] # NoJob /\ bakRuns' = [bakRuns EXCEPT ![d].pc = "zipping"]
      /\ UNCHANGED <<bakCatalog, bakSaved, bakUpload, bakRemoval, bakRestore, bakClock, bakPromised>>
  BY DEF DumpCreates, NoJob
<1>2. \A p \in DOMAIN bakFiles : bakFiles'[p] \in {bakFiles[p], NoBytes, Torn}
  BY DEF DumpCreates
<1>3. DOMAIN bakFiles' = DOMAIN bakFiles
  BY DEF DumpCreates
<1>4. BakReads'
  BY <1>1, <1>2, <1>3, ReadsKept DEF BakInv
<1>. QED  BY <1>1, <1>4, DumpMovesOn

LEMMA DumpZipsInv ==
    ASSUME BakInv, NEW d \in Dbs, DumpZips(d)
    PROVE  BakInv'
<1>. DEFINE path == <<d, bakRuns[d].id>>
            bytes == bakRuns[d].bytes
<1>1. /\ bakRuns[d] # NoJob /\ bakRuns' = [bakRuns EXCEPT ![d].pc = "zipped"]
      /\ UNCHANGED <<bakCatalog, bakSaved, bakUpload, bakRemoval, bakClock, bakPromised>>
  BY DEF DumpZips, NoJob
<1>2. BakReads'
  <2>1. CASE bakFiles[path] = Torn
    <3>1. bakFiles' = [bakFiles EXCEPT ![path] = bytes] /\ PutsOver(path, bytes)
      BY <2>1 DEF DumpZips
    <3>. HIDE DEF path, bytes
    <3>. QED  BY <3>1, ReadsPutOver DEF BakInv
  <2>2. CASE bakFiles[path] # Torn
    <3>1. UNCHANGED <<bakFiles, bakRestore>>
      BY <2>2 DEF DumpZips
    <3>. QED  BY <3>1, ReadsKept DEF BakInv
  <2>. QED  BY <2>1, <2>2
<1>. QED  BY <1>1, <1>2, DumpMovesOn

LEMMA UploadLandsInv ==
    ASSUME BakInv, NEW d \in Dbs, UploadLands(d)
    PROVE  BakInv'
<1>. DEFINE path == <<d, UniqueDump(d)>>
            bytes == bakDumps + 1
<1>1. /\ bakUpload' = [pc |-> "landed", db |-> d, id |-> UniqueDump(d), time |-> bakClock, by |-> "upload"]
      /\ UNCHANGED <<bakCatalog, bakSaved, bakRuns, bakRemoval, bakClock, bakPromised>>
      /\ bakFiles' = [bakFiles EXCEPT ![path] = bytes] /\ PutsOver(path, bytes)
  BY DEF UploadLands
<1>2. BakYoung(bakUpload') /\ bakUpload'.db \in Dbs
  <2>1. bakClock \in Nat /\ UniqueDump(d)[1] = bakClock
    BY DEF BakInv, BakShapes, UniqueDump
  <2>. QED  BY <1>1, <2>1, BackupsAssumption DEF BakYoung, BakStamped
<1>. HIDE DEF path, bytes
<1>3. BakShapes'
  BY <1>1, <1>2 DEF BakInv, BakShapes
<1>4. JobsYoung'
  BY <1>1, <1>2 DEF BakInv, JobsYoung, BakYoung
<1>5. BakReads'
  BY <1>1, ReadsPutOver DEF BakInv
<1>. QED  BY <1>1, <1>3, <1>4, <1>5 DEF BakInv, PromisedListed

(* prune takes complete dumps older than the window, none of which is an        *)
(* operator's: keepSet names the ids of those.                                  *)
LEMMA PruneFilesInv ==
    ASSUME BakInv, PruneFiles
    PROVE  BakInv'
<1>. DEFINE old == {e \in ToSet(bakCatalog) : e.ok /\ e.id \notin KeptIds(bakCatalog)}
            gone == {e.id : e \in old}
<1>1. /\ bakRemoval' = [pc |-> "forget", ids |-> gone, asked |-> FALSE]
      /\ UNCHANGED <<bakCatalog, bakSaved, bakRuns, bakUpload, bakRestore, bakClock, bakPromised>>
  BY DEF PruneFiles
<1>2. ASSUME NEW id \in gone
      PROVE  id[1] \in Nat /\ id[1] + Window < bakClock
  <2>1. PICK e \in ToSet(bakCatalog) : e.ok /\ e.id \notin KeptIds(bakCatalog) /\ id = e.id
    BY <1>2
  <2>2. ~(e.time + Window >= bakClock)
    BY <2>1 DEF KeptIds
  <2>3. e.time \in Nat /\ id[1] = e.time /\ bakClock \in Nat
    BY <2>1 DEF BakInv, BakShapes, BakStamped
  <2>. QED  BY <2>2, <2>3, BackupsAssumption
<1>3. ASSUME NEW e \in bakPromised
      PROVE  e.id \notin gone
  <2>1. e \in ToSet(bakCatalog) /\ Manual(e)
    BY DEF BakInv, PromisedListed
  <2>2. e.id \in KeptIds(bakCatalog)
    BY <2>1 DEF KeptIds
  <2>. QED  BY <2>2
<1>. HIDE DEF gone, old
<1>4. bakRemoval'.ids = gone /\ bakRemoval'.asked = FALSE
  BY <1>1
<1>5. PromisedListed'
  BY <1>1, <1>2, <1>3, <1>4 DEF BakInv, PromisedListed
<1>6. BakShapes'
  BY <1>1, <1>4 DEF BakInv, BakShapes
<1>7. BakReads'
  <2>1. DOMAIN bakFiles' = DOMAIN bakFiles /\ \A p \in DOMAIN bakFiles : bakFiles'[p] \in {bakFiles[p], NoBytes}
    BY Zenon DEF PruneFiles
  <2>. QED  BY <1>1, <2>1, ReadsKept DEF BakInv
<1>. QED  BY <1>1, <1>5, <1>6, <1>7 DEF BakInv, JobsYoung, BakYoung

LEMMA DeleteFileInv ==
    ASSUME BakInv, NEW id, DeleteFile(id)
    PROVE  BakInv'
<1>1. /\ bakRemoval' = [pc |-> "forget", ids |-> {id}, asked |-> TRUE]
      /\ bakPromised' \subseteq bakPromised
      /\ UNCHANGED <<bakCatalog, bakSaved, bakRuns, bakUpload, bakRestore, bakClock>>
  BY DEF DeleteFile
<1>2. bakRemoval'.asked = TRUE
  BY <1>1
<1>3. PromisedListed'
  BY <1>1, <1>2 DEF BakInv, PromisedListed
<1>4. BakShapes'
  BY <1>1, <1>2 DEF BakInv, BakShapes
<1>5. BakReads'
  <2>1. DOMAIN bakFiles' = DOMAIN bakFiles /\ \A p \in DOMAIN bakFiles : bakFiles'[p] \in {bakFiles[p], NoBytes}
    BY DEF DeleteFile
  <2>. QED  BY <1>1, <2>1, ReadsKept DEF BakInv
<1>. QED  BY <1>1, <1>3, <1>4, <1>5 DEF BakInv, JobsYoung, BakYoung

LEMMA ForgetEntriesInv ==
    ASSUME BakInv, ForgetEntries
    PROVE  BakInv'
<1>. DEFINE ids == bakRemoval.ids
            left == Forget(ids)
<1>1. /\ bakRemoval.pc = "forget" /\ bakCatalog' = left
      /\ bakSaved' = left \/ bakSaved' = bakSaved
      /\ bakPromised' = {e \in bakPromised : bakRemoval.asked => e.id \notin ids}
      /\ bakRemoval' = NoJob
      /\ UNCHANGED <<bakFiles, bakRuns, bakUpload, bakRestore, bakClock>>
  BY DEF ForgetEntries, SaveCatalog
<1>2. IsListed(left) /\ ToSet(left) = {e \in ToSet(bakCatalog) : e.id \notin ids}
  BY Forgotten DEF BakInv, BakShapes
<1>3. \A e \in bakPromised' : e.id \notin ids
  <2>1. bakRemoval # NoJob
    BY <1>1 DEF NoJob
  <2>. QED  BY <1>1, <2>1 DEF BakInv, PromisedListed
<1>. HIDE DEF left, ids
<1>4. BakShapes'
  BY <1>1, <1>2 DEF BakInv, BakShapes
<1>5. bakPromised' \subseteq bakPromised
  BY <1>1
<1>6. bakPromised' \subseteq ToSet(left)
  BY <1>2, <1>3, <1>5 DEF BakInv, PromisedListed
<1>7. PromisedListed'
  BY <1>1, <1>5, <1>6 DEF BakInv, PromisedListed
<1>8. BakReads'
  BY <1>1, ReadsKept DEF BakInv
<1>. QED  BY <1>1, <1>4, <1>7, <1>8 DEF BakInv, JobsYoung, BakYoung

(* A restore compares what it finds, and unpacks what it finds the second time. *)
LEMMA BakRestoreInv ==
    ASSUME BakInv,
           (\E id \in DumpIds, t \in BakTargets, replace \in BOOLEAN : RestoreFinds(id, t, replace))
             \/ RestoreChecks \/ RestoreUnpacks \/ RestoreClears \/ RestoreLoads
    PROVE  BakInv'
<1>. DEFINE found == bakFiles[RestorePath]
<1>1. UNCHANGED <<bakFiles, bakCatalog, bakSaved, bakRuns, bakUpload, bakRemoval, bakClock, bakPromised>>
  BY DEF RestoreFinds, RestoreChecks, RestoreUnpacks, RestoreClears, RestoreLoads
<1>2. ASSUME bakRestore # NoJob
      PROVE  DOMAIN bakRestore = RestoreShape /\ RestorePath \in Dbs \X DumpIds
  BY <1>2 DEF BakInv, BakReads
<1>3. /\ bakRestore' # NoJob => DOMAIN bakRestore' = RestoreShape /\ RestorePath' \in Dbs \X DumpIds
      /\ SecondRead' /\ RestoreInHand'
  <2>1. CASE \E id \in DumpIds, t \in BakTargets, replace \in BOOLEAN : RestoreFinds(id, t, replace)
    <3>1. PICK id \in DumpIds, t \in BakTargets, r \in BOOLEAN : RestoreFinds(id, t, r)
      BY <2>1
    <3>2. PICK e \in ToSet(bakCatalog) :
            /\ e.id = id
            /\ bakRestore' = [pc |-> "found", entry |-> e, target |-> t, replace |-> r,
                              sql |-> NoBytes, over |-> {}]
      BY <3>1 DEF RestoreFinds, Found
    <3>3. e.db \in Dbs /\ e.id \in DumpIds
      BY <3>2 DEF BakInv, BakShapes
    <3>. QED  BY <3>2, <3>3 DEF RestoreShape, RestorePath, SecondRead, RestoreInHand
  <2>2. CASE RestoreChecks
    <3>1. /\ bakRestore.pc = "found"
          /\ bakRestore' = IF found = bakRestore.entry.sum
                           THEN [bakRestore EXCEPT !.pc = "checked"] ELSE NoJob
      BY <2>2 DEF RestoreChecks, RestorePath
    <3>2. DOMAIN bakRestore = RestoreShape /\ RestorePath \in Dbs \X DumpIds
      BY <1>2, <3>1 DEF NoJob
    <3>3. CASE found = bakRestore.entry.sum
      <4>1. /\ DOMAIN bakRestore' = RestoreShape /\ bakRestore'.pc = "checked"
            /\ bakRestore'.entry = bakRestore.entry
        BY <3>1, <3>2, <3>3 DEF RestoreShape
      <4>. QED  BY <1>1, <3>2, <3>3, <4>1 DEF RestorePath, SecondRead, RestoreInHand
    <3>4. CASE found # bakRestore.entry.sum
      BY <3>1, <3>4 DEF SecondRead, RestoreInHand, NoJob
    <3>. QED  BY <3>3, <3>4
  <2>3. CASE RestoreUnpacks
    <3>1. /\ bakRestore.pc = "checked"
          /\ bakRestore' = IF found \in {NoBytes, Torn} THEN NoJob
                           ELSE [bakRestore EXCEPT !.pc = "unpacked", !.sql = found]
      BY <2>3 DEF RestoreUnpacks, RestorePath
    <3>2. DOMAIN bakRestore = RestoreShape /\ RestorePath \in Dbs \X DumpIds
      BY <1>2, <3>1 DEF NoJob
    <3>3. found \in {bakRestore.entry.sum, NoBytes, Torn} \union bakRestore.over
      BY <3>1 DEF BakInv, BakReads, SecondRead
    <3>. HIDE DEF found
    <3>4. CASE found \in {NoBytes, Torn}
      BY <3>1, <3>4 DEF SecondRead, RestoreInHand, NoJob
    <3>5. CASE found \notin {NoBytes, Torn}
      <4>1. /\ DOMAIN bakRestore' = RestoreShape /\ bakRestore'.pc = "unpacked"
            /\ bakRestore'.entry = bakRestore.entry /\ bakRestore'.over = bakRestore.over
            /\ bakRestore'.sql = found
        BY <3>1, <3>2, <3>5 DEF RestoreShape
      <4>. QED  BY <3>2, <3>3, <3>5, <4>1 DEF RestorePath, SecondRead, RestoreInHand
    <3>. QED  BY <3>4, <3>5
  <2>4. CASE RestoreClears
    <3>1. /\ bakRestore.pc = "unpacked"
          /\ bakRestore' = [bakRestore EXCEPT !.pc = "cleared"] \/ bakRestore' = NoJob
      BY <2>4 DEF RestoreClears
    <3>2. DOMAIN bakRestore = RestoreShape /\ RestorePath \in Dbs \X DumpIds /\ RestoreInHand
      BY <1>2, <3>1 DEF NoJob, BakInv, BakReads
    <3>3. CASE bakRestore' = [bakRestore EXCEPT !.pc = "cleared"]
      <4>1. /\ DOMAIN bakRestore' = RestoreShape /\ bakRestore'.pc = "cleared"
            /\ bakRestore'.entry = bakRestore.entry /\ bakRestore'.over = bakRestore.over
            /\ bakRestore'.sql = bakRestore.sql
        BY <3>2, <3>3 DEF RestoreShape
      <4>. QED  BY <3>1, <3>2, <4>1 DEF RestorePath, SecondRead, RestoreInHand
    <3>4. CASE bakRestore' = NoJob
      BY <3>4 DEF SecondRead, RestoreInHand, NoJob
    <3>. QED  BY <3>1, <3>3, <3>4
  <2>5. CASE RestoreLoads
    BY <2>5 DEF RestoreLoads, SecondRead, RestoreInHand, NoJob
  <2>. QED  BY <2>1, <2>2, <2>3, <2>4, <2>5
<1>4. BakShapes'
  BY <1>1 DEF BakInv, BakShapes
<1>5. BakReads'
  BY <1>1, <1>3 DEF BakInv, BakReads
<1>. QED  BY <1>1, <1>4, <1>5 DEF BakInv, JobsYoung, BakYoung, PromisedListed

LEMMA SecondPassesInv ==
    ASSUME BakInv, SecondPasses
    PROVE  BakInv'
<1>1. /\ bakClock' = bakClock + 1 /\ bakClock \in Nat /\ bakClock' \in Nat
      /\ \A d \in Dbs : bakRuns[d] # NoJob => bakRuns[d].time + Window > bakClock
      /\ bakUpload # NoJob => bakUpload.time + Window > bakClock
      /\ UNCHANGED <<bakFiles, bakCatalog, bakSaved, bakRuns, bakUpload, bakRemoval, bakRestore,
                     bakPromised>>
  BY DEF SecondPasses, BakInv, BakShapes
<1>2. \A n \in Nat : /\ n + Window > bakClock => n + Window >= bakClock'
                     /\ n + Window < bakClock => n + Window < bakClock'
  BY <1>1, BackupsAssumption
<1>3. BakShapes'
  BY <1>1 DEF BakInv, BakShapes
<1>4. JobsYoung'
  BY <1>1, <1>2 DEF BakInv, JobsYoung, BakYoung, BakStamped
<1>5. PromisedListed'
  BY <1>1, <1>2 DEF BakInv, PromisedListed
<1>6. BakReads'
  BY <1>1, ReadsKept DEF BakInv
<1>. QED  BY <1>3, <1>4, <1>5, <1>6 DEF BakInv

LEMMA BackupsCrashInv ==
    ASSUME BakInv, BackupsCrash
    PROVE  BakInv'
<1>1. /\ bakCatalog' = bakSaved /\ bakRuns' = [d \in Dbs |-> NoJob]
      /\ bakUpload' = NoJob /\ bakRemoval' = NoJob /\ bakRestore' = NoJob
      /\ UNCHANGED <<bakFiles, bakSaved, bakClock, bakPromised>>
  BY DEF BackupsCrash
<1>2. DOMAIN bakRuns' = Dbs /\ \A d \in Dbs : bakRuns'[d] = NoJob
  BY <1>1
<1>3. BakShapes'
  BY <1>1, <1>2 DEF BakInv, BakShapes
<1>4. BakReads'
  BY <1>1 DEF BakInv, BakReads, SecondRead, RestoreInHand, NoJob
<1>. QED  BY <1>1, <1>2, <1>3, <1>4 DEF BakInv, JobsYoung, PromisedListed

LEMMA BakRestInv ==
    ASSUME BakInv, (\E t \in BakTargets : DropBase(t)) \/ UploadLost \/ UNCHANGED bakVars
    PROVE  BakInv'
<1>1. /\ UNCHANGED <<bakFiles, bakCatalog, bakSaved, bakRuns, bakRemoval, bakRestore, bakClock,
                     bakPromised>>
      /\ bakUpload' \in {bakUpload, NoJob}
  BY DEF DropBase, UploadLost, bakVars
<1>2. BakReads'
  BY <1>1, ReadsKept DEF BakInv
<1>. QED  BY <1>1, <1>2 DEF BakInv, BakShapes, JobsYoung, BakYoung, PromisedListed

(* A manual dump once in the catalog stays there until somebody deletes it,   *)
(* across rotations, crashes and reloads, and a restore drops a database only *)
(* with a whole archive in hand: the recorded one, or one put under its name  *)
(* between the restore's two reads (catalog.forget, prune, pg.Restore).       *)
THEOREM DumpsStayAndLoad == BackupsSpec => []DumpsKept
<1>1. BakInv /\ [BackupsNext]_bakVars => BakInv'
  BY DumpStartsInv, DumpCreatesInv, DumpZipsInv, DumpRecordsInv, UploadLandsInv, UploadRecordsInv, PruneFilesInv,
     DeleteFileInv, ForgetEntriesInv, BakRestoreInv, SecondPassesInv, BackupsCrashInv, BakRestInv, Zenon
  DEF BackupsNext
<1>2. BakInv => DumpsKept
  BY DEF BakInv, BakReads, PromisedListed, DumpsKept, ManualKept
<1>. QED  BY <1>1, <1>2, BakInitInv, PTL DEF BackupsSpec

-------------------------------------------------------------------------------
(* EventQueries.  The inductive invariant says which index counts the rows of *)
(* a compacted file, and where a summary under way still finds what its days  *)
(* held when it began.                                                        *)

EvqFile == [id : Nat, day : BOOLEAN, rows : SUBSET Nat]
EvqMerges == [at : {"merge", "sweep", "index"}, d : EvqDay, from : SUBSET EvqFile, rows : SUBSET Nat]
EvqReads == [at : {"days", "dates"}, listed : UNION {[D -> SUBSET EvqFile] : D \in SUBSET EvqDay},
             todo : SUBSET EvqDay, said : [EvqDay -> SUBSET Nat]]

EvqTypes ==
    /\ evqFiles \in [EvqDay -> SUBSET EvqFile]
    /\ evqDir \subseteq EvqDay /\ evqPruned \subseteq EvqDay
    /\ evqIndex \in [EvqDay -> {NoIndex} \union [rows : SUBSET Nat, is : {"stored"}]]
    /\ evqMerge = NoMerge \/ evqMerge \in EvqMerges
    /\ evqCache \in [EvqDay -> [sig : SUBSET (Nat \X {TRUE}), rows : SUBSET Nat]]
    /\ evqRead = NoRead \/ evqRead \in EvqReads
    /\ evqRows \in Nat /\ evqNames \in Nat
    /\ DOMAIN evqSaid = {"begun", "said", "disturbed"} /\ evqSaid.disturbed \subseteq EvqDay

EvqMerging(d) == evqMerge # NoMerge /\ evqMerge.d = d
EvqLanded(d) == EvqMerging(d) /\ evqMerge.at \in {"sweep", "index"}
EvqListed(d) == IF evqRead # NoRead /\ d \in DOMAIN evqRead.listed THEN evqRead.listed[d] ELSE {}

(* A name tells a file from every other of its day, also from those a reader or *)
(* its cache still knows.                                                       *)
FilesNamed ==
    \A d \in EvqDay :
        /\ \A f \in evqFiles[d] \union EvqListed(d) : f.id <= evqNames
        /\ \A f, g \in evqFiles[d] \union EvqListed(d) : f.id = g.id => f = g
        /\ \A s \in evqCache[d].sig : s[1] <= evqNames

(* Only retention empties a day, and a day it has begun with is not compacted.  *)
DaysKept ==
    \A d \in EvqDay :
        /\ d \notin evqDir => evqFiles[d] = {} /\ (evqIndex[d] # NoIndex => d \in evqPruned)
        /\ d \in evqDir \ evqPruned => evqFiles[d] # {}
        /\ EvqMerging(d) => d \in evqDir \ evqPruned

(* What is in a compacted file the stored index counts, or the compaction that  *)
(* put it in place is about to.                                                 *)
DaysCounted ==
    \A d \in EvqDay :
        /\ \A f \in evqFiles[d] : f.day =>
             IF EvqLanded(d) THEN f.rows \subseteq evqMerge.rows
             ELSE evqIndex[d] # NoIndex /\ f.rows \subseteq evqIndex[d].rows
        /\ EvqMerging(d) /\ evqMerge.at = "merge" =>
             /\ evqMerge.from \subseteq evqFiles[d] /\ evqMerge.rows = RowsIn(evqMerge.from)
             /\ \A f \in evqFiles[d] : f.day => f \in evqMerge.from
        /\ EvqLanded(d) => \E f \in evqFiles[d] : f \notin evqMerge.from

(* The cache holds the rows of the files its signature names.                   *)
EvqCacheTrue ==
    \A d \in EvqDay : \A f \in evqFiles[d] \union EvqListed(d) :
        <<f.id, TRUE>> \in evqCache[d].sig => f.rows \subseteq evqCache[d].rows

(* The index of a day counts these rows, or will once the compaction is done.   *)
EvqCounted(d, rows) ==
    IF EvqLanded(d) THEN rows \subseteq evqMerge.rows /\ evqIndex[d] = NoIndex
    ELSE evqIndex[d] # NoIndex /\ rows \subseteq evqIndex[d].rows

(* Of a day the summary has yet to read, what it held at the beginning is still *)
(* to be found; of a day it has read, it is said.                               *)
ListedSound(d) ==
    /\ d \in evqDir
    /\ d \notin evqPruned =>
         /\ evqRead.listed[d] # {} /\ evqSaid.begun[d] = RowsIn(evqRead.listed[d])
         /\ IF evqRead.at = "days" /\ d \in evqRead.todo
            THEN Compacted(evqRead.listed[d]) => EvqCounted(d, evqSaid.begun[d])
            ELSE evqSaid.begun[d] \subseteq evqRead.said[d]
StoredSound(d) ==
    evqSaid.begun[d] # {} =>
        /\ d \in evqPruned /\ ~EvqMerging(d) /\ evqSaid.begun[d] \subseteq evqIndex[d].rows
        /\ evqRead.at = "dates" /\ d \notin evqRead.todo => evqSaid.begun[d] \subseteq evqRead.said[d]
ReadingSound ==
    evqRead # NoRead =>
        /\ evqSaid.said = <<>>
        /\ evqRead.at = "days" => evqRead.todo \subseteq DOMAIN evqRead.listed
        /\ evqRead.at = "dates" => evqRead.todo \intersect DOMAIN evqRead.listed = {}
        /\ \A d \in EvqDay \ evqSaid.disturbed :
             IF d \in DOMAIN evqRead.listed THEN ListedSound(d) ELSE StoredSound(d)

EvqInv == EvqTypes /\ FilesNamed /\ DaysKept /\ DaysCounted /\ EvqCacheTrue /\ ReadingSound /\ SummaryMissesNone

-----------------------------------------------------------------------------
LEMMA EvqInitInv == EvqInit => EvqInv
<1>. SUFFICES ASSUME EvqInit PROVE EvqInv
  OBVIOUS
<1>1. /\ evqFiles = [d \in EvqDay |-> {}] /\ evqDir = {} /\ evqPruned = {}
      /\ evqIndex = [d \in EvqDay |-> NoIndex] /\ evqMerge = NoMerge
      /\ evqCache = [d \in EvqDay |-> [sig |-> {}, rows |-> {}]]
      /\ evqRead = NoRead /\ evqRows = 0 /\ evqNames = 0 /\ evqSaid = NothingSaid
  BY DEF EvqInit
<1>2. EvqTypes
  BY <1>1 DEF EvqTypes, NothingSaid
<1>3. FilesNamed /\ EvqCacheTrue
  BY <1>1 DEF FilesNamed, EvqCacheTrue, EvqListed
<1>4. DaysKept /\ DaysCounted
  BY <1>1 DEF DaysKept, DaysCounted, EvqMerging, EvqLanded
<1>5. ReadingSound /\ SummaryMissesNone
  BY <1>1 DEF ReadingSound, SummaryMissesNone, NothingSaid
<1>. QED  BY <1>2, <1>3, <1>4, <1>5 DEF EvqInv

(* A writer's step leaves a summary what it needs: of a day it does not         *)
(* disturb nothing is removed that has not been counted.                        *)
EvqSteady(d) ==
    /\ d \in evqDir => d \in evqDir'
    /\ \A rows : EvqCounted(d, rows) => EvqCounted(d, rows)'
    /\ d \in evqPruned /\ ~EvqMerging(d) => ~EvqMerging(d)' /\ evqIndex'[d] = evqIndex[d]

LEMMA EvqWriterInv ==
    ASSUME EvqInv, UNCHANGED <<evqCache, evqRead>>,
           evqSaid'.begun = evqSaid.begun, evqSaid'.said = evqSaid.said,
           evqSaid.disturbed \subseteq evqSaid'.disturbed, evqPruned \subseteq evqPruned',
           EvqTypes', FilesNamed', DaysKept', DaysCounted', EvqCacheTrue',
           \A d \in EvqDay \ evqSaid'.disturbed : EvqSteady(d)
    PROVE  EvqInv'
<1>1. SummaryMissesNone'
  BY DEF SummaryMissesNone, EvqInv, EvqSteady
<1>2. ReadingSound'
  <2>. SUFFICES ASSUME evqRead # NoRead PROVE ReadingSound'
    BY DEF ReadingSound
  <2>1. /\ evqSaid.said = <<>>
        /\ evqRead.at = "days" => evqRead.todo \subseteq DOMAIN evqRead.listed
        /\ evqRead.at = "dates" => evqRead.todo \intersect DOMAIN evqRead.listed = {}
    BY DEF EvqInv, ReadingSound
  <2>2. ASSUME NEW d \in EvqDay \ evqSaid'.disturbed
        PROVE  IF d \in DOMAIN evqRead.listed THEN ListedSound(d)' ELSE StoredSound(d)'
    <3>1. IF d \in DOMAIN evqRead.listed THEN ListedSound(d) ELSE StoredSound(d)
      BY <2>2 DEF EvqInv, ReadingSound
    <3>2. EvqSteady(d)
      BY <2>2
    <3>3. CASE d \in DOMAIN evqRead.listed
      <4>1. d \in evqDir'
        BY <3>1, <3>2, <3>3 DEF ListedSound, EvqSteady
      <4>2. PICK rows : rows = evqSaid.begun[d]
        OBVIOUS
      <4>3. PICK files : files = evqRead.listed[d]
        OBVIOUS
      <4>4. EvqCounted(d, rows) => EvqCounted(d, rows)'
        BY <3>2 DEF EvqSteady
      <4>5. d \notin evqPruned' =>
              /\ files # {} /\ rows = RowsIn(files)
              /\ IF evqRead.at = "days" /\ d \in evqRead.todo
                 THEN Compacted(files) => EvqCounted(d, rows)'
                 ELSE rows \subseteq evqRead.said[d]
        BY <3>1, <3>3, <4>2, <4>3, <4>4 DEF ListedSound
      <4>6. evqRead'.listed[d] = files /\ evqSaid'.begun[d] = rows /\ evqRead' = evqRead
        BY <4>2, <4>3
      <4>. QED  BY <3>3, <4>1, <4>5, <4>6 DEF ListedSound, EvqCounted
    <3>4. CASE d \notin DOMAIN evqRead.listed
      BY <3>1, <3>2, <3>4 DEF StoredSound, EvqSteady
    <3>. QED  BY <3>3, <3>4
  <2>. QED  BY <2>1, <2>2 DEF ReadingSound
<1>. QED  BY <1>1, <1>2 DEF EvqInv

LEMMA NamesStay ==
    ASSUME EvqInv, UNCHANGED <<evqCache, evqRead, evqNames>>,
           \A d \in EvqDay : evqFiles'[d] \subseteq evqFiles[d]
    PROVE  FilesNamed' /\ EvqCacheTrue'
<1>1. \A d \in EvqDay : evqFiles'[d] \union EvqListed(d)' \subseteq evqFiles[d] \union EvqListed(d)
  BY DEF EvqListed
<1>. QED  BY <1>1 DEF EvqInv, FilesNamed, EvqCacheTrue

LEMMA NameAdded ==
    ASSUME EvqInv, UNCHANGED <<evqCache, evqRead>>, NEW e \in EvqDay, NEW f \in EvqFile,
           f.id = evqNames + 1, evqNames' = evqNames + 1,
           evqFiles' = [evqFiles EXCEPT ![e] = @ \union {f}]
    PROVE  FilesNamed' /\ EvqCacheTrue'
<1>1. \A d \in EvqDay : evqFiles'[d] \union EvqListed(d)' \subseteq evqFiles[d] \union EvqListed(d) \union {f}
  BY DEF EvqListed, EvqInv, EvqTypes
<1>2. evqNames \in Nat /\ \A d \in EvqDay : \A g \in evqFiles[d] \union EvqListed(d) : g.id \in Nat /\ g.id <= evqNames
  <2>1. \A d \in EvqDay : evqFiles[d] \subseteq EvqFile /\ EvqListed(d) \subseteq EvqFile
    BY DEF EvqInv, EvqTypes, EvqListed, EvqReads
  <2>. QED  BY <2>1 DEF EvqInv, FilesNamed, EvqFile, EvqTypes
<1>3. \A d \in EvqDay : \A t \in evqCache[d].sig : t[1] \in Nat /\ t[1] <= evqNames
  <2>. SUFFICES ASSUME NEW d \in EvqDay, NEW t \in evqCache[d].sig
                PROVE  t[1] \in Nat /\ t[1] <= evqNames
    OBVIOUS
  <2>1. evqCache[d].sig \subseteq Nat \X {TRUE}
    BY DEF EvqInv, EvqTypes
  <2>2. t[1] \in Nat
    BY <2>1
  <2>3. t[1] <= evqNames
    BY DEF EvqInv, FilesNamed
  <2>. QED  BY <2>2, <2>3
<1>4. FilesNamed'
  <2>. SUFFICES ASSUME NEW d \in EvqDay
                PROVE  /\ \A g \in evqFiles'[d] \union EvqListed(d)' : g.id <= evqNames'
                       /\ \A g, h \in evqFiles'[d] \union EvqListed(d)' : g.id = h.id => g = h
                       /\ \A t \in evqCache[d].sig : t[1] <= evqNames'
    BY DEF FilesNamed
  <2>1. \A g \in evqFiles[d] \union EvqListed(d) : g.id <= evqNames' /\ g.id # f.id
    BY <1>2
  <2>2. \A g, h \in evqFiles[d] \union EvqListed(d) : g.id = h.id => g = h
    BY DEF EvqInv, FilesNamed
  <2>3. f.id <= evqNames'
    BY <1>2
  <2>4. \A t \in evqCache[d].sig : t[1] <= evqNames'
    BY <1>2, <1>3
  <2>. QED  BY <1>1, <2>1, <2>2, <2>3, <2>4
<1>5. EvqCacheTrue'
  <2>. SUFFICES ASSUME NEW d \in EvqDay, NEW g \in evqFiles'[d] \union EvqListed(d)',
                       <<g.id, TRUE>> \in evqCache[d].sig
                PROVE  g.rows \subseteq evqCache[d].rows
    BY DEF EvqCacheTrue
  <2>1. g.id <= evqNames
    BY <1>3
  <2>2. g # f
    BY <1>2, <2>1
  <2>. QED  BY <1>1, <2>2 DEF EvqInv, EvqCacheTrue
<1>. QED  BY <1>4, <1>5

LEMMA EvqAppendInv ==
    ASSUME EvqInv, NEW e \in EvqDay, EvqAppend(e)
    PROVE  EvqInv'
<1>. DEFINE f == [id |-> evqNames + 1, day |-> FALSE, rows |-> {evqRows + 1}]
<1>1. /\ evqRows' = evqRows + 1 /\ evqNames' = evqNames + 1
      /\ evqFiles' = [evqFiles EXCEPT ![e] = @ \union {f}]
      /\ evqDir' = evqDir \union {e}
      /\ evqSaid' = [evqSaid EXCEPT !.disturbed = @ \union {e}] \/ evqSaid' = evqSaid
      /\ e \in evqPruned => evqSaid' = [evqSaid EXCEPT !.disturbed = @ \union {e}]
      /\ UNCHANGED <<evqIndex, evqMerge, evqPruned, evqCache, evqRead, evqAsked>>
  BY DEF EvqAppend, Disturb
<1>2. f \in EvqFile /\ f.id = evqNames + 1 /\ f.day = FALSE
  BY DEF EvqFile, EvqInv, EvqTypes
<1>. HIDE DEF f
<1>3. evqFiles' \in [EvqDay -> SUBSET EvqFile] /\ \A d \in EvqDay : evqFiles'[d] = IF d = e THEN evqFiles[d] \union {f} ELSE evqFiles[d]
  BY <1>1, <1>2 DEF EvqInv, EvqTypes
<1>4. /\ DOMAIN evqSaid' = {"begun", "said", "disturbed"} /\ evqSaid'.disturbed \subseteq EvqDay
      /\ evqSaid'.begun = evqSaid.begun /\ evqSaid'.said = evqSaid.said
      /\ evqSaid.disturbed \subseteq evqSaid'.disturbed
  BY <1>1 DEF EvqInv, EvqTypes
<1>5. EvqTypes'
  <2>1. evqRows' \in Nat /\ evqNames' \in Nat /\ evqDir' \subseteq EvqDay
    BY <1>1 DEF EvqInv, EvqTypes
  <2>. QED  BY <1>1, <1>3, <1>4, <2>1 DEF EvqInv, EvqTypes
<1>6. FilesNamed' /\ EvqCacheTrue'
  BY <1>1, <1>2, NameAdded
<1>7. DaysKept'
  BY <1>1, <1>3 DEF EvqInv, DaysKept, EvqMerging
<1>8. DaysCounted'
  BY <1>1, <1>2, <1>3 DEF EvqInv, DaysCounted, EvqMerging, EvqLanded
<1>9. \A d \in EvqDay \ evqSaid'.disturbed : EvqSteady(d)
  BY <1>1 DEF EvqSteady, EvqCounted, EvqLanded, EvqMerging
<1>. QED  BY <1>1, <1>4, <1>5, <1>6, <1>7, <1>8, <1>9, EvqWriterInv

LEMMA EvqMergeReadsInv ==
    ASSUME EvqInv, NEW e \in EvqDay, EvqMergeReads(e)
    PROVE  EvqInv'
<1>. DEFINE m == [at |-> "merge", d |-> e, from |-> evqFiles[e], rows |-> RowsIn(evqFiles[e])]
<1>1. /\ evqMerge = NoMerge /\ evqFiles[e] # {} /\ e \notin evqPruned /\ evqMerge' = m
      /\ UNCHANGED <<evqFiles, evqDir, evqIndex, evqPruned, evqCache, evqRead, evqRows, evqNames, evqAsked, evqSaid>>
  BY DEF EvqMergeReads
<1>2. /\ m \in EvqMerges /\ m.at = "merge" /\ m.d = e /\ m.from = evqFiles[e] /\ m.rows = RowsIn(evqFiles[e])
      /\ m # NoMerge
  <2>1. evqFiles[e] \subseteq EvqFile
    BY DEF EvqInv, EvqTypes
  <2>2. RowsIn(evqFiles[e]) \subseteq Nat
    BY <2>1 DEF RowsIn, EvqFile
  <2>. QED  BY <2>1, <2>2 DEF EvqMerges, NoMerge
<1>. HIDE DEF m
<1>3. EvqTypes'
  BY <1>1, <1>2 DEF EvqInv, EvqTypes
<1>4. FilesNamed' /\ EvqCacheTrue'
  BY <1>1, NamesStay
<1>5. e \in evqDir
  BY <1>1 DEF EvqInv, DaysKept
<1>6. \A d \in EvqDay : (EvqMerging(d)' <=> d = e) /\ ~EvqLanded(d)' /\ ~EvqLanded(d) /\ ~EvqMerging(d)
  BY <1>1, <1>2 DEF EvqMerging, EvqLanded
<1>7. DaysKept'
  BY <1>1, <1>5, <1>6 DEF EvqInv, DaysKept
<1>8. DaysCounted'
  <2>1. evqMerge'.from = evqFiles[e] /\ evqMerge'.rows = RowsIn(evqMerge'.from)
    BY <1>1, <1>2
  <2>. QED  BY <1>1, <1>6, <2>1 DEF EvqInv, DaysCounted
<1>9. \A d \in EvqDay \ evqSaid'.disturbed : EvqSteady(d)
  BY <1>1, <1>6 DEF EvqSteady, EvqCounted
<1>. QED  BY <1>1, <1>3, <1>4, <1>7, <1>8, <1>9, EvqWriterInv

LEMMA EvqMergeLandsInv ==
    ASSUME EvqInv, EvqMergeLands
    PROVE  EvqInv'
<1>. DEFINE e == evqMerge.d
            f == [id |-> evqNames + 1, day |-> TRUE, rows |-> evqMerge.rows]
<1>1. /\ evqMerge.at = "merge" /\ evqNames' = evqNames + 1
      /\ evqFiles' = [evqFiles EXCEPT ![e] = @ \union {f}]
      /\ evqMerge' = [evqMerge EXCEPT !.at = "sweep"]
      /\ evqSaid' = [evqSaid EXCEPT !.disturbed = @ \union {e}] \/ evqSaid' = evqSaid
      /\ evqIndex[e] # NoIndex => evqSaid' = [evqSaid EXCEPT !.disturbed = @ \union {e}]
      /\ UNCHANGED <<evqDir, evqIndex, evqPruned, evqCache, evqRead, evqRows, evqAsked>>
  BY DEF EvqMergeLands, Disturb
<1>2. evqMerge # NoMerge /\ evqMerge \in EvqMerges /\ e \in EvqDay
  BY <1>1 DEF EvqInv, EvqTypes, NoMerge, EvqMerges
<1>3. f \in EvqFile /\ f.id = evqNames + 1 /\ f.day = TRUE /\ f.rows = evqMerge.rows
  BY <1>2 DEF EvqFile, EvqInv, EvqTypes, EvqMerges
<1>4. /\ evqMerge' \in EvqMerges /\ evqMerge' # NoMerge /\ evqMerge'.at = "sweep" /\ evqMerge'.d = e
      /\ evqMerge'.from = evqMerge.from /\ evqMerge'.rows = evqMerge.rows
  BY <1>1, <1>2 DEF EvqMerges, NoMerge
<1>. HIDE DEF f, e
<1>5. evqFiles' \in [EvqDay -> SUBSET EvqFile] /\ \A d \in EvqDay : evqFiles'[d] = IF d = e THEN evqFiles[d] \union {f} ELSE evqFiles[d]
  BY <1>1, <1>2, <1>3 DEF EvqInv, EvqTypes
<1>6. /\ DOMAIN evqSaid' = {"begun", "said", "disturbed"} /\ evqSaid'.disturbed \subseteq EvqDay
      /\ evqSaid'.begun = evqSaid.begun /\ evqSaid'.said = evqSaid.said
      /\ evqSaid.disturbed \subseteq evqSaid'.disturbed
      /\ evqIndex[e] # NoIndex => e \in evqSaid'.disturbed
  BY <1>1, <1>2 DEF EvqInv, EvqTypes
<1>7. EvqTypes'
  <2>1. evqNames' \in Nat
    BY <1>1 DEF EvqInv, EvqTypes
  <2>. QED  BY <1>1, <1>4, <1>5, <1>6, <2>1 DEF EvqInv, EvqTypes
<1>8. FilesNamed' /\ EvqCacheTrue'
  BY <1>1, <1>2, <1>3, NameAdded
<1>9. \A d \in EvqDay : /\ (EvqMerging(d)' <=> d = e) /\ (EvqLanded(d)' <=> d = e)
                         /\ (EvqMerging(d) <=> d = e) /\ ~EvqLanded(d)
  BY <1>1, <1>2, <1>4 DEF EvqMerging, EvqLanded, e
<1>10. DaysKept'
  BY <1>1, <1>5, <1>9 DEF EvqInv, DaysKept
<1>11. DaysCounted'
  <2>1. /\ evqMerge.from \subseteq evqFiles[e] /\ evqMerge.rows = RowsIn(evqMerge.from)
        /\ \A g \in evqFiles[e] : g.day => g \in evqMerge.from
    BY <1>1, <1>2, <1>9 DEF EvqInv, DaysCounted
  <2>2. f \notin evqMerge.from
    <3>1. \A g \in evqFiles[e] : g.id \in Nat /\ g.id <= evqNames
      <4>1. evqFiles[e] \subseteq EvqFile
        BY <1>2 DEF EvqInv, EvqTypes
      <4>. QED  BY <1>2, <4>1 DEF EvqInv, FilesNamed, EvqFile
    <3>2. evqNames \in Nat
      BY DEF EvqInv, EvqTypes
    <3>. QED  BY <1>3, <2>1, <3>1, <3>2
  <2>3. \A g \in evqMerge.from : g.rows \subseteq evqMerge.rows
    BY <2>1 DEF RowsIn
  <2>4. \A g \in evqFiles'[e] : g.day => g.rows \subseteq evqMerge'.rows
    BY <1>2, <1>3, <1>4, <1>5, <2>1, <2>3
  <2>5. f \in evqFiles'[e]
    BY <1>2, <1>5
  <2>. QED  BY <1>1, <1>4, <1>5, <1>9, <2>2, <2>4, <2>5 DEF EvqInv, DaysCounted
<1>12. \A d \in EvqDay \ evqSaid'.disturbed : EvqSteady(d)
  BY <1>1, <1>6, <1>9 DEF EvqSteady, EvqCounted
<1>. QED  BY <1>1, <1>6, <1>7, <1>8, <1>10, <1>11, <1>12, EvqWriterInv

LEMMA EvqMergeSweepsInv ==
    ASSUME EvqInv, EvqMergeSweeps
    PROVE  EvqInv'
<1>. DEFINE e == evqMerge.d
<1>1. /\ evqMerge.at = "sweep"
      /\ \/ /\ evqMerge.from \intersect evqFiles[e] = {}
            /\ evqMerge' = [evqMerge EXCEPT !.at = "index"] /\ evqFiles' = evqFiles
         \/ /\ \E f \in evqMerge.from : evqFiles' = [evqFiles EXCEPT ![e] = @ \ {f}]
            /\ evqMerge' = evqMerge
      /\ UNCHANGED <<evqDir, evqIndex, evqPruned, evqCache, evqRead, evqRows, evqNames, evqAsked, evqSaid>>
  BY DEF EvqMergeSweeps
<1>2. evqMerge # NoMerge /\ evqMerge \in EvqMerges /\ e \in EvqDay
  BY <1>1 DEF EvqInv, EvqTypes, NoMerge, EvqMerges
<1>3. /\ evqMerge' \in EvqMerges /\ evqMerge' # NoMerge /\ evqMerge'.at \in {"sweep", "index"} /\ evqMerge'.d = e
      /\ evqMerge'.from = evqMerge.from /\ evqMerge'.rows = evqMerge.rows
  BY <1>1, <1>2 DEF EvqMerges, NoMerge
<1>. HIDE DEF e
<1>4. /\ evqFiles' \in [EvqDay -> SUBSET EvqFile]
      /\ \A d \in EvqDay : evqFiles'[d] \subseteq evqFiles[d] /\ (d # e => evqFiles'[d] = evqFiles[d])
      /\ \A f \in evqFiles[e] : f \notin evqMerge.from => f \in evqFiles'[e]
  BY <1>1, <1>2 DEF EvqInv, EvqTypes
<1>5. EvqTypes'
  BY <1>1, <1>3, <1>4 DEF EvqInv, EvqTypes
<1>6. FilesNamed' /\ EvqCacheTrue'
  BY <1>1, <1>4, NamesStay
<1>7. \A d \in EvqDay : /\ (EvqMerging(d)' <=> d = e) /\ (EvqLanded(d)' <=> d = e)
                         /\ (EvqMerging(d) <=> d = e) /\ (EvqLanded(d) <=> d = e)
  BY <1>1, <1>2, <1>3 DEF EvqMerging, EvqLanded, e
<1>8. PICK kept \in evqFiles[e] : kept \notin evqMerge.from
  BY <1>2, <1>7 DEF EvqInv, DaysCounted
<1>9. kept \in evqFiles'[e]
  BY <1>4, <1>8
<1>10. DaysKept'
  BY <1>1, <1>2, <1>4, <1>7, <1>9 DEF EvqInv, DaysKept
<1>11. DaysCounted'
  BY <1>1, <1>2, <1>3, <1>4, <1>7, <1>8, <1>9 DEF EvqInv, DaysCounted
<1>12. \A d \in EvqDay \ evqSaid'.disturbed : EvqSteady(d)
  BY <1>1, <1>3, <1>7 DEF EvqSteady, EvqCounted
<1>. QED  BY <1>1, <1>5, <1>6, <1>10, <1>11, <1>12, EvqWriterInv

LEMMA EvqMergeIndexesInv ==
    ASSUME EvqInv, EvqMergeIndexes
    PROVE  EvqInv'
<1>. DEFINE e == evqMerge.d
            new == IndexOf(evqMerge.rows)
<1>1. /\ evqMerge.at = "index" /\ evqIndex' = [evqIndex EXCEPT ![e] = new] /\ evqMerge' = NoMerge
      /\ UNCHANGED <<evqFiles, evqDir, evqPruned, evqCache, evqRead, evqRows, evqNames, evqAsked, evqSaid>>
  BY DEF EvqMergeIndexes
<1>2. evqMerge # NoMerge /\ evqMerge \in EvqMerges /\ e \in EvqDay
  BY <1>1 DEF EvqInv, EvqTypes, NoMerge, EvqMerges
<1>3. new \in [rows : SUBSET Nat, is : {"stored"}] /\ new # NoIndex /\ new.rows = evqMerge.rows
  BY <1>2 DEF EvqMerges, IndexOf, NoIndex
<1>. HIDE DEF e, new
<1>4. /\ evqIndex' \in [EvqDay -> {NoIndex} \union [rows : SUBSET Nat, is : {"stored"}]]
      /\ \A d \in EvqDay : evqIndex'[d] = IF d = e THEN new ELSE evqIndex[d]
  BY <1>1, <1>2, <1>3 DEF EvqInv, EvqTypes
<1>5. EvqTypes'
  BY <1>1, <1>4 DEF EvqInv, EvqTypes
<1>6. FilesNamed' /\ EvqCacheTrue'
  BY <1>1, NamesStay
<1>7. \A d \in EvqDay : /\ ~EvqMerging(d)' /\ ~EvqLanded(d)'
                         /\ (EvqMerging(d) <=> d = e) /\ (EvqLanded(d) <=> d = e)
  BY <1>1, <1>2 DEF EvqMerging, EvqLanded, e
<1>8. DaysKept'
  BY <1>1, <1>2, <1>4, <1>7 DEF EvqInv, DaysKept
<1>9. DaysCounted'
  BY <1>1, <1>2, <1>3, <1>4, <1>7 DEF EvqInv, DaysCounted
<1>10. \A d \in EvqDay \ evqSaid'.disturbed : EvqSteady(d)
  <2>1. \A d \in EvqDay : d \in evqPruned /\ ~EvqMerging(d) => evqIndex'[d] = evqIndex[d]
    BY <1>4, <1>7
  <2>. QED  BY <1>1, <1>3, <1>4, <1>7, <2>1 DEF EvqSteady, EvqCounted
<1>. QED  BY <1>1, <1>5, <1>6, <1>8, <1>9, <1>10, EvqWriterInv

LEMMA EvqPruneInv ==
    ASSUME EvqInv, NEW e \in EvqDay, EvqPruneFiles(e) \/ EvqPruneDir(e)
    PROVE  EvqInv'
<1>1. /\ evqSaid' = [evqSaid EXCEPT !.disturbed = @ \union {e}]
      /\ UNCHANGED <<evqIndex, evqMerge, evqCache, evqRead, evqRows, evqNames, evqAsked>>
  BY DEF EvqPruneFiles, EvqPruneDir, Disturb
<1>2. /\ DOMAIN evqSaid' = {"begun", "said", "disturbed"} /\ evqSaid'.disturbed \subseteq EvqDay
      /\ evqSaid'.begun = evqSaid.begun /\ evqSaid'.said = evqSaid.said
      /\ evqSaid.disturbed \subseteq evqSaid'.disturbed /\ e \in evqSaid'.disturbed
  BY <1>1 DEF EvqInv, EvqTypes
<1>3. /\ evqFiles' \in [EvqDay -> SUBSET EvqFile]
      /\ \A d \in EvqDay : d # e => evqFiles'[d] = evqFiles[d] /\ (d \in evqDir' <=> d \in evqDir) /\ (d \in evqPruned' <=> d \in evqPruned)
      /\ evqFiles'[e] = {} /\ e \in evqPruned' /\ evqPruned \subseteq evqPruned'
      /\ evqDir' \subseteq EvqDay /\ evqPruned' \subseteq EvqDay
  BY DEF EvqPruneFiles, EvqPruneDir, EvqInv, EvqTypes
<1>4. ~EvqMerging(e)
  BY DEF EvqPruneFiles, EvqPruneDir, EvqInv, DaysKept, EvqMerging
<1>5. EvqTypes'
  BY <1>1, <1>2, <1>3 DEF EvqInv, EvqTypes
<1>6. FilesNamed' /\ EvqCacheTrue'
  BY <1>1, <1>3, NamesStay
<1>7. \A d \in EvqDay : (EvqMerging(d)' <=> EvqMerging(d)) /\ (EvqLanded(d)' <=> EvqLanded(d))
  BY <1>1 DEF EvqMerging, EvqLanded
<1>8. DaysKept'
  BY <1>1, <1>3, <1>4, <1>7 DEF EvqInv, DaysKept
<1>9. DaysCounted'
  BY <1>1, <1>3, <1>4, <1>7 DEF EvqInv, DaysCounted, EvqLanded
<1>10. \A d \in EvqDay \ evqSaid'.disturbed : EvqSteady(d)
  BY <1>1, <1>2, <1>3, <1>7 DEF EvqSteady, EvqCounted
<1>. QED  BY <1>1, <1>2, <1>3, <1>5, <1>6, <1>8, <1>9, <1>10, EvqWriterInv

-----------------------------------------------------------------------------
(* A reader's step leaves the days and their files alone.                       *)
LEMMA ReaderKeeps ==
    ASSUME EvqInv, UNCHANGED <<evqFiles, evqDir, evqIndex, evqMerge, evqPruned, evqNames>>
    PROVE  /\ DaysKept' /\ DaysCounted'
           /\ \A d \in EvqDay : (EvqMerging(d)' <=> EvqMerging(d)) /\ (EvqLanded(d)' <=> EvqLanded(d))
<1>1. \A d \in EvqDay : (EvqMerging(d)' <=> EvqMerging(d)) /\ (EvqLanded(d)' <=> EvqLanded(d))
  BY DEF EvqMerging, EvqLanded
<1>2. DaysKept'
  BY <1>1 DEF EvqInv, DaysKept
<1>3. DaysCounted'
  BY <1>1 DEF EvqInv, DaysCounted
<1>. QED  BY <1>1, <1>2, <1>3

LEMMA EvqListInv ==
    ASSUME EvqInv, EvqList
    PROVE  EvqInv'
<1>. DEFINE listing == [d \in evqDir |-> evqFiles[d]]
            begun == [d \in EvqDay |-> Holds(d)]
            again == Recompacting
            read == [at |-> "days", listed |-> listing, todo |-> evqDir, said |-> [d \in EvqDay |-> {}]]
<1>1. /\ evqRead = NoRead /\ evqRead' = read
      /\ evqSaid' = [begun |-> begun, said |-> <<>>, disturbed |-> again]
      /\ UNCHANGED <<evqFiles, evqDir, evqIndex, evqMerge, evqPruned, evqCache, evqRows, evqNames>>
  BY DEF EvqList
<1>2. read \in EvqReads
  <2>1. evqDir \in SUBSET EvqDay /\ listing \in [evqDir -> SUBSET EvqFile]
    BY DEF EvqInv, EvqTypes
  <2>2. listing \in UNION {[D -> SUBSET EvqFile] : D \in SUBSET EvqDay}
    BY <2>1
  <2>. HIDE DEF listing
  <2>. QED  BY <2>1, <2>2 DEF EvqReads
<1>3. /\ read.listed = listing /\ read.todo = evqDir /\ read.at = "days"
      /\ DOMAIN listing = evqDir /\ \A d \in evqDir : listing[d] = evqFiles[d]
      /\ read # NoRead
  BY DEF NoRead
<1>4. again \subseteq EvqDay /\ \A d \in EvqDay : EvqLanded(d) /\ evqIndex[d] # NoIndex => d \in again
  <2>1. again \subseteq EvqDay
    BY DEF Recompacting, EvqInv, EvqTypes, EvqMerges, NoMerge
  <2>2. ASSUME NEW d \in EvqDay, EvqLanded(d), evqIndex[d] # NoIndex
        PROVE  d \in again
    BY <2>2 DEF Recompacting, EvqLanded, EvqMerging
  <2>. QED  BY <2>1, <2>2
<1>5. \A d \in EvqDay : begun[d] = Holds(d)
  OBVIOUS
<1>. HIDE DEF listing, begun, again, read
<1>6. /\ evqSaid'.begun = begun /\ evqSaid'.said = <<>> /\ evqSaid'.disturbed = again
      /\ DOMAIN evqSaid' = {"begun", "said", "disturbed"}
  BY <1>1
<1>7. EvqTypes'
  BY <1>1, <1>2, <1>4, <1>6 DEF EvqInv, EvqTypes
<1>8. /\ DaysKept' /\ DaysCounted'
      /\ \A d \in EvqDay : (EvqMerging(d)' <=> EvqMerging(d)) /\ (EvqLanded(d)' <=> EvqLanded(d))
  BY <1>1, ReaderKeeps
<1>9. FilesNamed' /\ EvqCacheTrue'
  <2>1. \A d \in EvqDay : evqFiles'[d] \union EvqListed(d)' \subseteq evqFiles[d] \union EvqListed(d)
    <3>. SUFFICES ASSUME NEW d \in EvqDay PROVE EvqListed(d)' \subseteq evqFiles[d]
      BY <1>1
    <3>1. evqRead'.listed = listing
      BY <1>1, <1>3
    <3>2. CASE d \in evqDir
      BY <1>3, <3>1, <3>2 DEF EvqListed
    <3>3. CASE d \notin evqDir
      BY <1>3, <3>1, <3>3 DEF EvqListed
    <3>. QED  BY <3>2, <3>3
  <2>2. UNCHANGED <<evqCache, evqNames>>
    BY <1>1
  <2>3. FilesNamed'
    BY <2>1, <2>2 DEF EvqInv, FilesNamed
  <2>4. EvqCacheTrue'
    BY <2>1, <2>2 DEF EvqInv, EvqCacheTrue
  <2>. QED  BY <2>3, <2>4
<1>10. ASSUME NEW d \in EvqDay \ again
       PROVE  IF d \in evqDir THEN ListedSound(d)' ELSE StoredSound(d)'
  <2>1. CASE d \in evqDir
    <3>. SUFFICES ASSUME d \notin evqPruned
                  PROVE  /\ evqFiles[d] # {} /\ begun[d] = RowsIn(evqFiles[d])
                         /\ Compacted(evqFiles[d]) => EvqCounted(d, begun[d])
      <4>1. evqRead'.listed[d] = evqFiles[d] /\ evqRead'.at = "days" /\ d \in evqRead'.todo /\ evqSaid'.begun[d] = begun[d]
        BY <1>1, <1>3, <1>6, <2>1
      <4>. QED  BY <1>1, <1>8, <2>1, <4>1 DEF ListedSound, EvqCounted
    <3>1. evqFiles[d] # {} /\ begun[d] = RowsIn(evqFiles[d])
      BY <1>5, <2>1 DEF EvqInv, DaysKept, Holds
    <3>2. ASSUME Compacted(evqFiles[d])
          PROVE  EvqCounted(d, begun[d])
      <4>1. \A f \in evqFiles[d] : IF EvqLanded(d) THEN f.rows \subseteq evqMerge.rows
                                   ELSE evqIndex[d] # NoIndex /\ f.rows \subseteq evqIndex[d].rows
        BY <3>2 DEF Compacted, EvqInv, DaysCounted
      <4>2. CASE EvqLanded(d)
        <5>1. evqIndex[d] = NoIndex
          BY <1>4, <1>10, <4>2
        <5>2. RowsIn(evqFiles[d]) \subseteq evqMerge.rows
          BY <4>1, <4>2 DEF RowsIn
        <5>. QED  BY <3>1, <4>2, <5>1, <5>2 DEF EvqCounted
      <4>3. CASE ~EvqLanded(d)
        <5>1. RowsIn(evqFiles[d]) \subseteq evqIndex[d].rows
          BY <4>1, <4>3 DEF RowsIn
        <5>. QED  BY <3>1, <4>1, <4>3, <5>1 DEF EvqCounted
      <4>. QED  BY <4>2, <4>3
    <3>. QED  BY <3>1, <3>2
  <2>2. CASE d \notin evqDir
    <3>1. begun[d] = evqIndex[d].rows /\ ~EvqMerging(d) /\ (evqIndex[d] # NoIndex => d \in evqPruned)
      BY <1>5, <2>2 DEF EvqInv, DaysKept, Holds
    <3>2. begun[d] # {} => d \in evqPruned
      BY <3>1 DEF NoIndex
    <3>3. evqRead'.at # "dates"
      BY <1>1, <1>3
    <3>. QED  BY <1>1, <1>6, <1>8, <2>2, <3>1, <3>2, <3>3 DEF StoredSound
  <2>. QED  BY <2>1, <2>2
<1>11. ReadingSound'
  <2>1. /\ evqSaid'.said = <<>> /\ evqRead'.at = "days" /\ DOMAIN evqRead'.listed = evqDir /\ evqRead'.todo = evqDir
    BY <1>1, <1>3, <1>6
  <2>. QED  BY <1>6, <1>10, <2>1 DEF ReadingSound
<1>12. SummaryMissesNone'
  BY <1>6 DEF SummaryMissesNone
<1>. QED  BY <1>7, <1>8, <1>9, <1>11, <1>12 DEF EvqInv

(* What a cache may be.                                                         *)
CacheFits(cache) ==
    /\ cache \in [EvqDay -> [sig : SUBSET (Nat \X {TRUE}), rows : SUBSET Nat]]
    /\ \A d \in EvqDay :
         /\ \A t \in cache[d].sig : t[1] <= evqNames
         /\ \A f \in evqFiles[d] \union EvqListed(d) : <<f.id, TRUE>> \in cache[d].sig => f.rows \subseteq cache[d].rows

LEMMA CacheKept == EvqInv => CacheFits(evqCache)
BY DEF EvqInv, EvqTypes, FilesNamed, EvqCacheTrue, CacheFits

(* A step of the summary that only moves on.                                    *)
LEMMA EvqSummaryInv ==
    ASSUME EvqInv, UNCHANGED <<evqFiles, evqDir, evqIndex, evqMerge, evqPruned, evqNames, evqRows, evqSaid>>,
           NEW cache, evqCache' = cache, CacheFits(cache),
           evqRead # NoRead, evqRead' \in EvqReads, evqRead' # NoRead, evqRead'.listed = evqRead.listed, ReadingSound'
    PROVE  EvqInv'
<1>1. EvqTypes'
  BY DEF EvqInv, EvqTypes, CacheFits
<1>2. \A d \in EvqDay : EvqListed(d)' = EvqListed(d)
  BY DEF EvqListed
<1>3. FilesNamed'
  BY <1>2 DEF EvqInv, FilesNamed, CacheFits
<1>4. EvqCacheTrue'
  BY <1>2 DEF EvqCacheTrue, CacheFits
<1>5. SummaryMissesNone'
  BY DEF EvqInv, SummaryMissesNone
<1>. QED  BY <1>1, <1>3, <1>4, <1>5, ReaderKeeps DEF EvqInv

(* A day is read, with what it held at the beginning.                           *)
LEMMA DaySaid ==
    ASSUME EvqInv, UNCHANGED <<evqFiles, evqDir, evqIndex, evqMerge, evqPruned, evqNames, evqRows, evqSaid>>,
           evqRead # NoRead, NEW d \in evqRead.todo, NEW rows \in SUBSET Nat,
           evqRead' = [evqRead EXCEPT !.todo = @ \ {d}, !.said[d] = rows],
           d \notin evqSaid.disturbed =>
               /\ d \in DOMAIN evqRead.listed /\ d \notin evqPruned => evqSaid.begun[d] \subseteq rows
               /\ d \notin DOMAIN evqRead.listed => evqSaid.begun[d] \subseteq rows
    PROVE  evqRead' \in EvqReads /\ evqRead' # NoRead /\ evqRead'.listed = evqRead.listed /\ ReadingSound'
<1>1. evqRead \in EvqReads /\ d \in EvqDay
  BY DEF EvqInv, EvqTypes, EvqReads
<1>2. /\ evqRead' \in EvqReads /\ evqRead'.at = evqRead.at /\ evqRead'.listed = evqRead.listed
      /\ evqRead'.todo = evqRead.todo \ {d} /\ evqRead'.said[d] = rows
      /\ \A x \in EvqDay : x # d => evqRead'.said[x] = evqRead.said[x]
  BY <1>1 DEF EvqReads
<1>3. evqRead' # NoRead
  BY <1>1, <1>2 DEF EvqReads, NoRead
<1>4. ASSUME NEW x \in EvqDay \ evqSaid.disturbed
      PROVE  IF x \in DOMAIN evqRead'.listed THEN ListedSound(x)' ELSE StoredSound(x)'
  <2>1. IF x \in DOMAIN evqRead.listed THEN ListedSound(x) ELSE StoredSound(x)
    BY DEF EvqInv, ReadingSound
  <2>2. (EvqMerging(x)' <=> EvqMerging(x)) /\ (EvqLanded(x)' <=> EvqLanded(x))
    BY DEF EvqMerging, EvqLanded
  <2>3. PICK begun : begun = evqSaid.begun[x] /\ begun = evqSaid'.begun[x]
    OBVIOUS
  <2>4. CASE x \in DOMAIN evqRead.listed
    <3>1. PICK files : files = evqRead.listed[x] /\ files = evqRead'.listed[x]
      BY <1>2
    <3>2. (EvqCounted(x, begun)' <=> EvqCounted(x, begun)) /\ x \in evqDir'
      BY <2>1, <2>2, <2>4 DEF EvqCounted, ListedSound
    <3>3. ASSUME x \notin evqPruned
          PROVE  /\ files # {} /\ begun = RowsIn(files)
                 /\ IF evqRead'.at = "days" /\ x \in evqRead'.todo
                    THEN Compacted(files) => EvqCounted(x, begun)'
                    ELSE begun \subseteq evqRead'.said[x]
      <4>1. /\ files # {} /\ begun = RowsIn(files)
            /\ IF evqRead.at = "days" /\ x \in evqRead.todo
               THEN Compacted(files) => EvqCounted(x, begun)
               ELSE begun \subseteq evqRead.said[x]
        BY <2>1, <2>3, <2>4, <3>1, <3>3 DEF ListedSound
      <4>2. CASE x = d
        <5>1. begun \subseteq evqRead'.said[x]
          BY <1>2, <1>4, <2>3, <2>4, <3>3, <4>2
        <5>. QED  BY <1>2, <4>1, <4>2, <5>1
      <4>3. CASE x # d
        BY <1>2, <3>2, <4>1, <4>3
      <4>. QED  BY <4>2, <4>3
    <3>. QED  BY <1>2, <2>3, <2>4, <3>1, <3>2, <3>3 DEF ListedSound, EvqCounted
  <2>5. CASE x \notin DOMAIN evqRead.listed
    <3>1. ASSUME begun # {}
          PROVE  /\ x \in evqPruned /\ ~EvqMerging(x) /\ begun \subseteq evqIndex[x].rows
                 /\ evqRead'.at = "dates" /\ x \notin evqRead'.todo => begun \subseteq evqRead'.said[x]
      <4>1. /\ x \in evqPruned /\ ~EvqMerging(x) /\ begun \subseteq evqIndex[x].rows
            /\ evqRead.at = "dates" /\ x \notin evqRead.todo => begun \subseteq evqRead.said[x]
        BY <2>1, <2>3, <2>5, <3>1 DEF StoredSound
      <4>2. CASE x = d
        BY <1>2, <1>4, <2>3, <2>5, <4>1, <4>2
      <4>3. CASE x # d
        BY <1>2, <4>1, <4>3
      <4>. QED  BY <4>2, <4>3
    <3>. QED  BY <1>2, <2>2, <2>3, <2>5, <3>1 DEF StoredSound
  <2>. QED  BY <2>4, <2>5
<1>5. ReadingSound'
  <2>1. /\ evqSaid'.said = <<>>
        /\ evqRead'.at = "days" => evqRead'.todo \subseteq DOMAIN evqRead'.listed
        /\ evqRead'.at = "dates" => evqRead'.todo \intersect DOMAIN evqRead'.listed = {}
    BY <1>2 DEF EvqInv, ReadingSound
  <2>. QED  BY <1>4, <2>1 DEF ReadingSound
<1>. QED  BY <1>2, <1>3, <1>5

LEMMA EvqEndsInv ==
    ASSUME EvqInv, UNCHANGED <<evqFiles, evqDir, evqIndex, evqMerge, evqPruned, evqCache, evqNames, evqRows>>,
           evqRead' = NoRead, DOMAIN evqSaid' = DOMAIN evqSaid, evqSaid'.disturbed = evqSaid.disturbed,
           SummaryMissesNone'
    PROVE  EvqInv'
<1>1. EvqTypes'
  BY DEF EvqInv, EvqTypes
<1>2. FilesNamed' /\ EvqCacheTrue'
  <2>1. \A d \in EvqDay : EvqListed(d)' = {}
    BY DEF EvqListed
  <2>. QED  BY <2>1 DEF EvqInv, FilesNamed, EvqCacheTrue
<1>3. ReadingSound'
  BY DEF ReadingSound
<1>. QED  BY <1>1, <1>2, <1>3, ReaderKeeps DEF EvqInv

LEMMA EvqReadDayInv ==
    ASSUME EvqInv, NEW d \in EvqDay, EvqReadDay(d)
    PROVE  EvqInv'
<1>. DEFINE files == evqRead.listed[d]
            sig == Signature(files, evqFiles[d])
            Says(rows) == evqRead' = [evqRead EXCEPT !.todo = @ \ {d}, !.said[d] = rows]
            none == [sig |-> {}, rows |-> {}]
            read == [sig |-> sig, rows |-> RowsIn(files)]
<1>1. /\ evqRead.at = "days" /\ d \in evqRead.todo
      /\ UNCHANGED <<evqFiles, evqDir, evqIndex, evqMerge, evqPruned, evqRows, evqNames, evqAsked, evqSaid>>
      /\ \/ /\ FromIndex(files, d) /\ Says(evqIndex[d].rows) /\ evqCache' = [evqCache EXCEPT ![d] = none]
         \/ /\ evqCache[d].sig = sig /\ Says(evqCache[d].rows) /\ evqCache' = evqCache
         \/ /\ files \subseteq evqFiles[d] /\ Says(RowsIn(files)) /\ evqCache' = [evqCache EXCEPT ![d] = read]
         \/ /\ evqRead' = NoRead /\ evqCache' = evqCache
  BY DEF EvqReadDay
<1>2. evqRead # NoRead /\ evqRead \in EvqReads /\ d \in DOMAIN evqRead.listed
  BY <1>1 DEF NoRead, EvqInv, EvqTypes, ReadingSound
<1>3. files \subseteq EvqFile /\ EvqListed(d) = files
  <2>1. PICK D \in SUBSET EvqDay : evqRead.listed \in [D -> SUBSET EvqFile]
    BY <1>2 DEF EvqReads
  <2>. QED  BY <1>2, <2>1 DEF EvqListed
<1>4. RowsIn(files) \subseteq Nat
  BY <1>3 DEF RowsIn, EvqFile
<1>5. ASSUME d \notin evqSaid.disturbed, d \notin evqPruned
      PROVE  /\ evqSaid.begun[d] = RowsIn(files)
             /\ Compacted(files) => EvqCounted(d, evqSaid.begun[d])
  BY <1>1, <1>2, <1>5 DEF EvqInv, ReadingSound, ListedSound
<1>6. CacheFits(evqCache)
  BY CacheKept
<1>. HIDE DEF files
<1>7. CASE FromIndex(files, d) /\ Says(evqIndex[d].rows) /\ evqCache' = [evqCache EXCEPT ![d] = none]
  <2>1. evqIndex[d].rows \in SUBSET Nat
    BY DEF EvqInv, EvqTypes, NoIndex
  <2>2. d \notin evqSaid.disturbed /\ d \notin evqPruned => evqSaid.begun[d] \subseteq evqIndex[d].rows
    BY <1>5, <1>7 DEF FromIndex, EvqCounted
  <2>. DEFINE cache == [evqCache EXCEPT ![d] = none]
  <2>3. CacheFits(cache)
    <3>1. none \in [sig : SUBSET (Nat \X {TRUE}), rows : SUBSET Nat] /\ none.sig = {}
      OBVIOUS
    <3>. HIDE DEF none
    <3>2. /\ cache \in [EvqDay -> [sig : SUBSET (Nat \X {TRUE}), rows : SUBSET Nat]]
          /\ cache[d] = none /\ \A x \in EvqDay : x # d => cache[x] = evqCache[x]
      BY <1>6, <3>1 DEF CacheFits
    <3>. HIDE DEF cache
    <3>. QED  BY <1>6, <3>1, <3>2 DEF CacheFits
  <2>. HIDE DEF cache, none
  <2>4. evqRead' \in EvqReads /\ evqRead' # NoRead /\ evqRead'.listed = evqRead.listed /\ ReadingSound'
    BY <1>1, <1>2, <1>7, <2>1, <2>2, DaySaid
  <2>. QED  BY <1>1, <1>2, <1>7, <2>3, <2>4, EvqSummaryInv DEF cache
<1>8. CASE evqCache[d].sig = sig /\ Says(evqCache[d].rows) /\ evqCache' = evqCache
  <2>1. evqCache[d].rows \in SUBSET Nat /\ evqCache[d].sig \subseteq Nat \X {TRUE}
    BY <1>6 DEF CacheFits
  <2>2. RowsIn(files) \subseteq evqCache[d].rows
    <3>. SUFFICES ASSUME NEW f \in files PROVE f.rows \subseteq evqCache[d].rows
      BY DEF RowsIn
    <3>1. <<f.id, f \in evqFiles[d]>> \in evqCache[d].sig
      BY <1>8 DEF Signature
    <3>2. <<f.id, f \in evqFiles[d]>> = <<f.id, TRUE>>
      BY <2>1, <3>1
    <3>3. <<f.id, TRUE>> \in evqCache[d].sig
      BY <3>1, <3>2
    <3>. QED  BY <1>3, <1>6, <3>3 DEF CacheFits
  <2>. HIDE DEF sig
  <2>3. evqRead' \in EvqReads /\ evqRead' # NoRead /\ evqRead'.listed = evqRead.listed /\ ReadingSound'
    BY <1>1, <1>2, <1>5, <1>8, <2>1, <2>2, DaySaid
  <2>. QED  BY <1>1, <1>2, <1>6, <1>8, <2>3, EvqSummaryInv
<1>9. CASE files \subseteq evqFiles[d] /\ Says(RowsIn(files)) /\ evqCache' = [evqCache EXCEPT ![d] = read]
  <2>. DEFINE cache == [evqCache EXCEPT ![d] = read]
  <2>1. \A t \in sig : \E f \in files : t = <<f.id, TRUE>>
    BY <1>9 DEF Signature
  <2>2. read \in [sig : SUBSET (Nat \X {TRUE}), rows : SUBSET Nat] /\ read.sig = sig /\ read.rows = RowsIn(files)
    <3>. HIDE DEF sig
    <3>0. \A f \in files : f.id \in Nat
      BY <1>3 DEF EvqFile
    <3>1. ASSUME NEW t \in sig
          PROVE  t \in Nat \X {TRUE}
      <4>1. PICK f \in files : t = <<f.id, TRUE>>
        BY <2>1
      <4>2. f.id \in Nat
        BY <3>0
      <4>. QED  BY <4>1, <4>2
    <3>. QED  BY <1>4, <3>1
  <2>. HIDE DEF sig, read
  <2>3. CacheFits(cache)
    <3>1. /\ cache \in [EvqDay -> [sig : SUBSET (Nat \X {TRUE}), rows : SUBSET Nat]]
          /\ cache[d] = read /\ \A x \in EvqDay : x # d => cache[x] = evqCache[x]
      BY <1>6, <2>2 DEF CacheFits
    <3>. HIDE DEF cache
    <3>2. \A t \in sig : t[1] <= evqNames
      <4>1. \A f \in files : f.id <= evqNames
        BY <1>3 DEF EvqInv, FilesNamed
      <4>. SUFFICES ASSUME NEW t \in sig PROVE t[1] <= evqNames
        OBVIOUS
      <4>2. PICK f \in files : t = <<f.id, TRUE>>
        BY <2>1
      <4>. QED  BY <4>1, <4>2
    <3>3. ASSUME NEW g \in evqFiles[d] \union EvqListed(d), <<g.id, TRUE>> \in sig
          PROVE  g.rows \subseteq RowsIn(files)
      <4>1. PICK f \in files : <<g.id, TRUE>> = <<f.id, TRUE>>
        BY <2>1, <3>3
      <4>2. g.id = f.id
        BY <4>1
      <4>3. g = f
        BY <1>3, <4>2 DEF EvqInv, FilesNamed
      <4>. QED  BY <4>3 DEF RowsIn
    <3>4. ASSUME NEW x \in EvqDay
          PROVE  /\ \A t \in cache[x].sig : t[1] <= evqNames
                 /\ \A f \in evqFiles[x] \union EvqListed(x) : <<f.id, TRUE>> \in cache[x].sig => f.rows \subseteq cache[x].rows
      <4>1. CASE x = d
        <5>1. cache[x].sig = sig /\ cache[x].rows = RowsIn(files)
          BY <2>2, <3>1, <4>1
        <5>2. \A f \in evqFiles[x] \union EvqListed(x) : <<f.id, TRUE>> \in sig => f.rows \subseteq RowsIn(files)
          BY <3>3, <4>1
        <5>. QED  BY <3>2, <5>1, <5>2
      <4>2. CASE x # d
        BY <1>6, <3>1, <4>2 DEF CacheFits
      <4>. QED  BY <4>1, <4>2
    <3>. QED  BY <3>1, <3>4 DEF CacheFits
  <2>. HIDE DEF cache
  <2>4. evqRead' \in EvqReads /\ evqRead' # NoRead /\ evqRead'.listed = evqRead.listed /\ ReadingSound'
    BY <1>1, <1>2, <1>4, <1>5, <1>9, DaySaid
  <2>. QED  BY <1>1, <1>2, <1>9, <2>3, <2>4, EvqSummaryInv DEF cache
<1>10. CASE evqRead' = NoRead /\ evqCache' = evqCache
  <2>1. SummaryMissesNone'
    BY <1>1 DEF EvqInv, SummaryMissesNone
  <2>. QED  BY <1>1, <1>10, <2>1, EvqEndsInv
<1>. QED  BY <1>1, <1>7, <1>8, <1>9, <1>10

LEMMA EvqReadStoredInv ==
    ASSUME EvqInv, NEW d \in EvqDay, EvqReadStored(d)
    PROVE  EvqInv'
<1>1. /\ evqRead.at = "dates" /\ d \in evqRead.todo
      /\ evqRead' = [evqRead EXCEPT !.todo = @ \ {d}, !.said[d] = evqIndex[d].rows]
      /\ UNCHANGED <<evqFiles, evqDir, evqIndex, evqMerge, evqPruned, evqCache, evqRows, evqNames, evqAsked, evqSaid>>
  BY DEF EvqReadStored
<1>2. evqRead # NoRead /\ d \notin DOMAIN evqRead.listed
  BY <1>1 DEF NoRead, EvqInv, ReadingSound
<1>3. evqIndex[d].rows \in SUBSET Nat
  BY DEF EvqInv, EvqTypes, NoIndex
<1>4. d \notin evqSaid.disturbed => evqSaid.begun[d] \subseteq evqIndex[d].rows
  BY <1>2 DEF EvqInv, ReadingSound, StoredSound
<1>5. evqRead' \in EvqReads /\ evqRead' # NoRead /\ evqRead'.listed = evqRead.listed /\ ReadingSound'
  BY <1>1, <1>2, <1>3, <1>4, DaySaid
<1>. QED  BY <1>1, <1>2, <1>5, CacheKept, EvqSummaryInv

(* Every day listed has been read; the others that have an index come next.     *)
LEMMA EvqDatesInv ==
    ASSUME EvqInv, EvqDates
    PROVE  EvqInv'
<1>. DEFINE rest == {d \in EvqDay : evqIndex[d] # NoIndex} \ DOMAIN evqRead.listed
<1>1. /\ evqRead.at = "days" /\ evqRead.todo = {} /\ evqRead' = [evqRead EXCEPT !.at = "dates", !.todo = rest]
      /\ UNCHANGED <<evqFiles, evqDir, evqIndex, evqMerge, evqPruned, evqCache, evqRows, evqNames, evqAsked, evqSaid>>
  BY DEF EvqDates
<1>2. evqRead # NoRead /\ evqRead \in EvqReads
  BY <1>1 DEF NoRead, EvqInv, EvqTypes
<1>3. rest \subseteq EvqDay /\ rest \intersect DOMAIN evqRead.listed = {}
      /\ \A d \in EvqDay : d \notin DOMAIN evqRead.listed /\ evqIndex[d] # NoIndex => d \in rest
  OBVIOUS
<1>. HIDE DEF rest
<1>4. /\ evqRead' \in EvqReads /\ evqRead'.at = "dates" /\ evqRead'.todo = rest
      /\ evqRead'.listed = evqRead.listed /\ evqRead'.said = evqRead.said
  BY <1>1, <1>2, <1>3 DEF EvqReads
<1>5. evqRead' # NoRead
  BY <1>4 DEF NoRead
<1>6. ASSUME NEW d \in EvqDay \ evqSaid.disturbed
      PROVE  IF d \in DOMAIN evqRead'.listed THEN ListedSound(d)' ELSE StoredSound(d)'
  <2>1. IF d \in DOMAIN evqRead.listed THEN ListedSound(d) ELSE StoredSound(d)
    BY <1>2 DEF EvqInv, ReadingSound
  <2>2. CASE d \in DOMAIN evqRead.listed
    <3>1. /\ d \in evqDir
          /\ d \notin evqPruned =>
               /\ evqRead.listed[d] # {} /\ evqSaid.begun[d] = RowsIn(evqRead.listed[d])
               /\ evqSaid.begun[d] \subseteq evqRead.said[d]
      BY <1>1, <2>1, <2>2 DEF ListedSound
    <3>. QED  BY <1>1, <1>4, <2>2, <3>1 DEF ListedSound
  <2>3. CASE d \notin DOMAIN evqRead.listed
    <3>1. evqSaid.begun[d] # {} => d \in evqPruned /\ ~EvqMerging(d) /\ evqSaid.begun[d] \subseteq evqIndex[d].rows
      BY <2>1, <2>3 DEF StoredSound
    <3>2. evqSaid.begun[d] # {} => d \in rest
      BY <1>3, <2>3, <3>1 DEF NoIndex
    <3>3. EvqMerging(d)' <=> EvqMerging(d)
      BY <1>1 DEF EvqMerging
    <3>. QED  BY <1>1, <1>4, <2>3, <3>1, <3>2, <3>3 DEF StoredSound
  <2>. QED  BY <2>2, <2>3
<1>7. ReadingSound'
  <2>1. evqSaid'.said = <<>> /\ evqSaid'.disturbed = evqSaid.disturbed
    BY <1>1, <1>2 DEF EvqInv, ReadingSound
  <2>. QED  BY <1>3, <1>4, <1>6, <2>1 DEF ReadingSound
<1>. QED  BY <1>1, <1>2, <1>4, <1>5, <1>7, CacheKept, EvqSummaryInv

LEMMA EvqAnswerInv ==
    ASSUME EvqInv, EvqAnswer
    PROVE  EvqInv'
<1>1. /\ evqRead.at = "dates" /\ evqRead.todo = {} /\ evqRead' = NoRead
      /\ evqSaid' = [evqSaid EXCEPT !.said = evqRead.said]
      /\ UNCHANGED <<evqFiles, evqDir, evqIndex, evqMerge, evqPruned, evqCache, evqRows, evqNames, evqAsked>>
  BY DEF EvqAnswer
<1>2. evqRead # NoRead
  BY <1>1 DEF NoRead
<1>3. /\ DOMAIN evqSaid' = DOMAIN evqSaid /\ evqSaid'.disturbed = evqSaid.disturbed
      /\ evqSaid'.begun = evqSaid.begun /\ evqSaid'.said = evqRead.said
  BY <1>1 DEF EvqInv, EvqTypes
<1>4. ASSUME NEW d \in EvqDay \ evqSaid.disturbed, d \notin evqPruned \/ d \notin evqDir
      PROVE  evqSaid.begun[d] \subseteq evqRead.said[d]
  <2>1. IF d \in DOMAIN evqRead.listed THEN ListedSound(d) ELSE StoredSound(d)
    BY <1>2 DEF EvqInv, ReadingSound
  <2>2. CASE d \in DOMAIN evqRead.listed
    BY <1>1, <1>4, <2>1, <2>2 DEF ListedSound
  <2>3. CASE d \notin DOMAIN evqRead.listed
    BY <1>1, <2>1, <2>3 DEF StoredSound
  <2>. QED  BY <2>2, <2>3
<1>5. SummaryMissesNone'
  BY <1>1, <1>3, <1>4 DEF SummaryMissesNone
<1>. QED  BY <1>1, <1>3, <1>5, EvqEndsInv

LEMMA EvqStutter ==
    ASSUME EvqInv, UNCHANGED evqVars
    PROVE  EvqInv'
<1>1. /\ UNCHANGED <<evqFiles, evqDir, evqIndex, evqMerge, evqPruned, evqCache, evqRead, evqNames, evqRows, evqSaid>>
      /\ \A d \in EvqDay : EvqSteady(d)
  BY DEF evqVars, EvqSteady, EvqCounted, EvqLanded, EvqMerging
<1>2. EvqTypes'
  BY <1>1 DEF EvqInv, EvqTypes
<1>3. FilesNamed' /\ EvqCacheTrue'
  BY <1>1, NamesStay
<1>4. DaysKept' /\ DaysCounted'
  BY <1>1, ReaderKeeps
<1>. QED  BY <1>1, <1>2, <1>3, <1>4, EvqWriterInv

(* A summary that answers has counted every event its days held when it       *)
(* began, for any number of days, files and compactions in between            *)
(* (Reader.Summary, index, signatureOf, compactor.merge).                     *)
THEOREM SummaryCountsWhatItBeganWith == EvqSpec => []SummaryMissesNone
<1>1. EvqInv /\ [EvqNext]_evqVars => EvqInv'
  BY EvqAppendInv, EvqMergeReadsInv, EvqMergeLandsInv, EvqMergeSweepsInv, EvqMergeIndexesInv, EvqPruneInv,
     EvqListInv, EvqReadDayInv, EvqReadStoredInv, EvqDatesInv, EvqAnswerInv, EvqStutter, Zenon
  DEF EvqNext
<1>2. EvqInv => SummaryMissesNone
  BY DEF EvqInv
<1>. QED  BY <1>1, <1>2, EvqInitInv, PTL DEF EvqSpec

-------------------------------------------------------------------------------
(* EventFilter.  A term, then a filter, then the indexes of a day, then a     *)
(* funnel, step by step.                                                      *)

(* One term, then one filter, over one row.                                     *)

LEMMA FlNothing == Null # FlNone /\ \A n : Num(n) \notin {Null, FlNone} /\ Text(n) \notin {Null, FlNone}
BY DEF Null, FlNone, Num, Text

LEMMA ComparesNumbers ==
    ASSUME NEW x \in Nat, NEW y \in Nat, NEW op \in {"=", ">", ">=", "<", "<="}
    PROVE  Compares(x, op, y) \in BOOLEAN
<1>1. CASE op = "="
  BY <1>1 DEF Compares
<1>2. CASE op = ">"
  BY <1>2 DEF Compares
<1>3. CASE op = ">="
  BY <1>3 DEF Compares
<1>4. CASE op = "<"
  BY <1>4 DEF Compares
<1>5. CASE op = "<="
  BY <1>5 DEF Compares
<1>. QED  BY <1>1, <1>2, <1>3, <1>4, <1>5

LEMMA TermMeansOne ==
    ASSUME NEW t, FlParsed(t), NEW row \in FlRow
    PROVE  /\ TermMatch(t, row) \in BOOLEAN
           /\ TermSql(t, row) \in {"true", "false", "null"}
           /\ TermMatch(t, row) <=> TermSql(t, row) = "true"
<1>1. CASE t.kind \in {"event", "prefix", "tag", "tagkey"}
  <2>1. Num(0) \notin {Null, FlNone}
    BY FlNothing
  <2>2. CASE t.kind = "event"
    BY <2>1, <2>2 DEF TermMatch, TermSql, OnNull
  <2>3. CASE t.kind = "prefix"
    BY <2>1, <2>3 DEF TermMatch, TermSql, OnNull
  <2>4. CASE t.kind = "tag"
    BY <2>1, <2>4 DEF TermMatch, TermSql, OnNull
  <2>5. CASE t.kind = "tagkey"
    <3>1. (\E tag \in row.tags : Len(tag) = 2 /\ tag[1] = t.field)
            <=> {tag \in row.tags : Len(tag) = 2 /\ tag[1] = t.field} # {}
      OBVIOUS
    <3>. QED  BY <2>1, <2>5, <3>1 DEF TermMatch, TermSql, OnNull
  <2>. QED  BY <1>1, <2>2, <2>3, <2>4, <2>5
<1>2. CASE t.kind = "field"
  <2>1. Null \notin t.values /\ FieldOf(row, t.field) # FlNone
    BY <1>2, FlNothing DEF FlParsed, FieldOf, FlRow, FlNone, Null
  <2>. QED  BY <1>2, <2>1 DEF TermMatch, TermSql, OnNull
<1>3. CASE t.kind = "value"
  <2>1. CASE row.value = Null
    BY <1>3, <2>1 DEF TermMatch, TermSql, OnNull
  <2>2. CASE row.value # Null
    <3>1. row.value.n \in Nat /\ row.value # FlNone
      BY <2>2 DEF FlRow, FlNone
    <3>2. Compares(row.value.n, t.op, t.number) \in BOOLEAN
      BY <1>3, <3>1, ComparesNumbers DEF FlParsed
    <3>. QED  BY <1>3, <2>2, <3>1, <3>2 DEF TermMatch, TermSql, OnNull
  <2>. QED  BY <2>1, <2>2
<1>4. CASE t.kind = "data" /\ t.op = "="
  BY <1>4 DEF TermMatch, TermSql, OnNull
<1>5. CASE t.kind = "data" /\ t.op # "="
  <2>1. CASE row.data.is = "number"
    <3>1. row.data.n \in Nat /\ NumberOf(row.data) = {row.data.n} /\ row.data \notin {Null, FlNone}
      BY <2>1 DEF FlRow, NumberOf, Null, FlNone
    <3>2. Compares(row.data.n, t.op, t.number) \in BOOLEAN
      BY <1>5, <3>1, ComparesNumbers DEF FlParsed
    <3>. QED  BY <1>5, <3>1, <3>2 DEF TermMatch, TermSql, OnNull
  <2>2. CASE row.data.is # "number"
    <3>1. NumberOf(row.data) = {}
      BY <2>2 DEF NumberOf
    <3>. QED  BY <1>5, <3>1 DEF TermMatch, TermSql, OnNull
  <2>. QED  BY <2>1, <2>2
<1>. QED  BY <1>1, <1>2, <1>3, <1>4, <1>5 DEF FlParsed

LEMMA FilterMeansOne ==
    ASSUME NEW f, FlFilterOk(f), NEW row \in FlRow
    PROVE  TermMatches(f, row) <=> Selected(f, row)
<1>1. FlNow \in Nat /\ f.since \in 0 .. FlNow /\ f.from \in Nat /\ f.to \in Nat /\ row.at \in Nat
  BY EventFilterAssumption DEF FlFilterOk, FlRow
<1>2. InRange(f, row) <=> /\ f.since = 0 \/ row.at >= FlNow - f.since
                          /\ row.at >= f.from /\ (f.to = 0 \/ row.at < f.to)
  BY <1>1 DEF InRange, RangeFrom
<1>3. ASSUME NEW i \in DOMAIN f.terms
      PROVE  TermMatch(f.terms[i], row) # f.terms[i].not <=>
                 (LET v == TermSql(f.terms[i], row) IN (IF f.terms[i].not THEN Negated(v) ELSE v) = "true")
  <2>. DEFINE t == f.terms[i]
  <2>1. FlParsed(t)
    BY DEF FlFilterOk
  <2>2. t.not \in BOOLEAN
    BY <2>1 DEF FlParsed
  <2>. HIDE DEF t
  <2>3. TermMatch(t, row) # t.not <=> (IF t.not THEN Negated(TermSql(t, row)) ELSE TermSql(t, row)) = "true"
    BY <2>1, <2>2, TermMeansOne DEF Negated
  <2>. QED  BY <2>3 DEF t
<1>. QED  BY <1>2, <1>3, Zenon DEF TermMatches, Selected

-----------------------------------------------------------------------------
(* The rows an index counts.                                                    *)

LEMMA IndexMeansOne ==
    ASSUME NEW f, FlFilterOk(f), NEW store, store \subseteq FlRow, IndexOnly(f)
    PROVE  {r \in store : TermMatches(f, r)} = {r \in IndexCount(f, store) : InRange(f, r)}
<1>1. ASSUME NEW r \in store
      PROVE  (NsAllowed(f, r.ns) /\ EventAllowed(f, r.event)) <=>
                 \A i \in DOMAIN f.terms : TermMatch(f.terms[i], r) # f.terms[i].not
  <2>1. ASSUME NEW i \in DOMAIN f.terms, f.terms[i].kind = "field"
        PROVE  f.terms[i].field = "ns" /\ (TermMatch(f.terms[i], r) <=> Text(r.ns) \in f.terms[i].values)
    BY <2>1 DEF IndexOnly, TermMatch, FieldOf
  <2>2. ASSUME NEW i \in DOMAIN f.terms, f.terms[i].kind = "event"
        PROVE  TermMatch(f.terms[i], r) <=> r.event \in f.terms[i].values
    BY <2>2 DEF TermMatch
  <2>3. ASSUME NEW i \in DOMAIN f.terms, f.terms[i].kind = "prefix"
        PROVE  TermMatch(f.terms[i], r) <=> \E p \in f.terms[i].values : IsPrefix(p, r.event)
    BY <2>3 DEF TermMatch
  <2>4. \A i \in DOMAIN f.terms : f.terms[i].kind \in {"event", "prefix", "field"} /\ f.terms[i].not \in BOOLEAN
    BY DEF IndexOnly, FlFilterOk, FlParsed
  <2>5. \A i \in DOMAIN f.terms : TermMatch(f.terms[i], r) \in BOOLEAN
    BY TermMeansOne DEF FlFilterOk
  <2>6. NsAllowed(f, r.ns) <=> \A i \in DOMAIN f.terms : f.terms[i].kind = "field" =>
                                   TermMatch(f.terms[i], r) # f.terms[i].not
    BY <2>1, <2>4, <2>5 DEF NsAllowed, Only
  <2>7. EventAllowed(f, r.event) <=> \A i \in DOMAIN f.terms : f.terms[i].kind \in {"event", "prefix"} =>
                                         TermMatch(f.terms[i], r) # f.terms[i].not
    <3>. DEFINE Named(i) == IF f.terms[i].kind = "event" THEN r.event \in f.terms[i].values
                            ELSE \E p \in f.terms[i].values : IsPrefix(p, r.event)
    <3>1. ASSUME NEW i \in DOMAIN f.terms, f.terms[i].kind \in {"event", "prefix"}
          PROVE  Named(i) <=> TermMatch(f.terms[i], r)
      BY <2>2, <2>3, <3>1
    <3>2. ASSUME NEW i
          PROVE  Named(i) \in BOOLEAN
      <4>1. CASE f.terms[i].kind = "event"
        BY <4>1
      <4>2. CASE f.terms[i].kind # "event"
        BY <4>2
      <4>. QED  BY <4>1, <4>2
    <3>3. EventAllowed(f, r.event) <=> \A i \in Only(f, {"event", "prefix"}) : Named(i) # f.terms[i].not
      BY Zenon DEF EventAllowed
    <3>. HIDE DEF Named
    <3>. QED  BY <2>4, <2>5, <3>1, <3>2, <3>3 DEF Only
  <2>. QED  BY <2>4, <2>6, <2>7
<1>2. IndexCount(f, store) = {r \in store : NsAllowed(f, r.ns) /\ EventAllowed(f, r.event)}
  <2>1. ASSUME NEW r \in IndexCount(f, store)
        PROVE  r \in store /\ NsAllowed(f, r.ns) /\ EventAllowed(f, r.event)
    BY DEF IndexCount, IndexRows
  <2>2. ASSUME NEW r \in store, NsAllowed(f, r.ns), EventAllowed(f, r.event)
        PROVE  r \in IndexCount(f, store)
    <3>. DEFINE e == [ns |-> r.ns, event |-> r.event, rows |-> {s \in store : s.ns = r.ns /\ s.event = r.event}]
    <3>1. e \in IndexRows(store)
      BY DEF IndexRows
    <3>2. e.ns = r.ns /\ e.event = r.event /\ r \in e.rows
      OBVIOUS
    <3>. HIDE DEF e
    <3>. QED  BY <2>2, <3>1, <3>2 DEF IndexCount
  <2>. QED  BY <2>1, <2>2
<1>. QED  BY <1>1, <1>2 DEF TermMatches

-----------------------------------------------------------------------------
(* The steps of a funnel, one from the other.                                   *)

FlFirst(funnel, extra, store) ==
    {r \in store : r.user # Null /\ Selected(funnel.steps[1], r) /\ Selected(extra, r)}

FlStep(funnel, extra, store, g, n) ==
    IF n = 1
    THEN {[actor |-> u, t1 |-> Earliest({r \in FlFirst(funnel, extra, store) : r.user = u}),
           t |-> Earliest({r \in FlFirst(funnel, extra, store) : r.user = u})] :
              u \in {r.user : r \in FlFirst(funnel, extra, store)}}
    ELSE {[p EXCEPT !.t = Earliest(FunnelJoin(p, funnel.steps[n], funnel.window, store))] :
            p \in {q \in g[n - 1] : FunnelJoin(q, funnel.steps[n], funnel.window, store) # {}}}

FlSteps(funnel, extra, store, g, k) == g = [n \in 1 .. k |-> FlStep(funnel, extra, store, g, n)]

(* The common table expressions have a result: one more step is one more.       *)
LEMMA StepsEnd ==
    ASSUME NEW funnel, NEW extra, NEW store, NEW k \in Nat
    PROVE  \E g : FlSteps(funnel, extra, store, g, k)
<1>. DEFINE Done == {m \in Nat : \E g : FlSteps(funnel, extra, store, g, m)}
<1>1. 0 \in Done
  <2>. DEFINE g == [n \in 1 .. 0 |-> {}]
  <2>1. FlSteps(funnel, extra, store, g, 0)
    BY DEF FlSteps
  <2>. QED  BY <2>1
<1>2. ASSUME NEW m \in Done
      PROVE  m + 1 \in Done
  <2>1. PICK g : FlSteps(funnel, extra, store, g, m)
    OBVIOUS
  <2>. DEFINE h == [n \in 1 .. m + 1 |-> IF n <= m THEN g[n] ELSE FlStep(funnel, extra, store, g, n)]
  <2>2. \A n \in 1 .. m + 1 : h[n] = FlStep(funnel, extra, store, h, n)
    <3>. TAKE n \in 1 .. m + 1
    <3>1. n # 1 => h[n - 1] = g[n - 1]
      OBVIOUS
    <3>2. h[n] = FlStep(funnel, extra, store, g, n)
      BY <2>1 DEF FlSteps
    <3>. HIDE DEF h
    <3>3. FlStep(funnel, extra, store, g, n) = FlStep(funnel, extra, store, h, n)
      <4>1. CASE n = 1
        BY <4>1 DEF FlStep
      <4>2. CASE n # 1
        BY <3>1, <4>2 DEF FlStep
      <4>. QED  BY <4>1, <4>2
    <3>. QED  BY <3>2, <3>3
  <2>3. h = [n \in 1 .. m + 1 |-> h[n]]
    OBVIOUS
  <2>. HIDE DEF h
  <2>4. FlSteps(funnel, extra, store, h, m + 1)
    BY <2>2, <2>3 DEF FlSteps
  <2>. QED  BY <2>4
<1>. HIDE DEF Done
<1>3. Done = Nat
  <2>1. Done \subseteq Nat
    BY DEF Done
  <2>. QED  BY <1>1, <1>2, <2>1, RankInduction
<1>. QED  BY <1>3 DEF Done

LEMMA ReachedStep ==
    ASSUME NEW funnel, NEW extra, NEW store, Len(funnel.steps) \in Nat,
           NEW n \in 1 .. Len(funnel.steps)
    PROVE  Reached(funnel, extra, store)[n] = FlStep(funnel, extra, store, Reached(funnel, extra, store), n)
<1>. DEFINE k == Len(funnel.steps)
            s == CHOOSE g : FlSteps(funnel, extra, store, g, k)
<1>1. Reached(funnel, extra, store) = s
  BY Zenon DEF Reached, FlSteps, FlStep, FlFirst
<1>2. FlSteps(funnel, extra, store, s, k)
  BY StepsEnd, Zenon
<1>. HIDE DEF s
<1>. QED  BY <1>1, <1>2 DEF FlSteps

LEMMA EarliestIs ==
    ASSUME NEW rows, rows # {}, \A r \in rows : r.at \in Nat
    PROVE  /\ Earliest(rows) \in Nat
           /\ \E r \in rows : r.at = Earliest(rows)
           /\ \A r \in rows : Earliest(rows) <= r.at
<1>. DEFINE T == {r.at : r \in rows}
<1>1. T \subseteq Nat /\ T # {}
  OBVIOUS
<1>2. \E x \in T : \A r \in rows : x <= r.at
  <2>1. PICK x \in T : \A y \in T : x <= y
    <3>. HIDE DEF T
    <3>. QED  BY <1>1, LeastNat
  <2>. QED  BY <2>1
<1>3. Earliest(rows) \in T /\ \A r \in rows : Earliest(rows) <= r.at
  BY <1>2 DEF Earliest
<1>. QED  BY <1>1, <1>3

-----------------------------------------------------------------------------
(* Whoever a funnel counts at a step has a chain of events that long, and the   *)
(* time it keeps for the step is the earliest such a chain can end.             *)

Starts(funnel, extra, store, u) ==
    {r \in store : r.user = u /\ TermMatches(funnel.steps[1], r) /\ TermMatches(extra, r)}
IsChain(funnel, store, u, t1, n, c) ==
    /\ c \in [1 .. n -> {r \in store : r.user = u}]
    /\ c[1].at = t1
    /\ \A i \in 1 .. n : TermMatches(funnel.steps[i], c[i]) /\ c[i].at <= t1 + funnel.window
    /\ \A i \in 1 .. (n - 1) : c[i].at <= c[i + 1].at

ActorOk(funnel, extra, store, p, n) ==
    /\ p \in [actor : {r.user : r \in store} \ {Null}, t1 : Nat, t : Nat]
    /\ Starts(funnel, extra, store, p.actor) # {}
    /\ p.t1 = Earliest(Starts(funnel, extra, store, p.actor))
    /\ \E c : IsChain(funnel, store, p.actor, p.t1, n, c) /\ c[n].at = p.t

StepExact(funnel, extra, store, reached, n) ==
    /\ \A p \in reached : ActorOk(funnel, extra, store, p, n)
    /\ \A u \in {r.user : r \in store} \ {Null} : \A c :
         /\ Starts(funnel, extra, store, u) # {}
         /\ IsChain(funnel, store, u, Earliest(Starts(funnel, extra, store, u)), n, c)
         => \E p \in reached : p.actor = u /\ p.t <= c[n].at

LEMMA FirstExact ==
    ASSUME NEW funnel \in FlFunnels, NEW extra, FlFilterOk(extra), NEW store, store \subseteq FlRow,
           Len(funnel.steps) # 0, NEW g
    PROVE  StepExact(funnel, extra, store, FlStep(funnel, extra, store, g, 1), 1)
<1>. DEFINE first == FlFirst(funnel, extra, store)
            Of(u) == {r \in first : r.user = u}
            users == {r.user : r \in first}
            at(u) == Earliest(Starts(funnel, extra, store, u))
            Step1(u) == [actor |-> u, t1 |-> Earliest(Of(u)), t |-> Earliest(Of(u))]
<1>1. FlFilterOk(funnel.steps[1]) /\ funnel.window \in Nat
  BY EventFilterAssumption
<1>2. \A r \in store : r \in FlRow /\ r.at \in Nat
  BY DEF FlRow
<1>3. FlStep(funnel, extra, store, g, 1) = {Step1(u) : u \in users}
  BY DEF FlStep
<1>4. ASSUME NEW u, u # Null
      PROVE  Of(u) = Starts(funnel, extra, store, u)
  <2>1. \A r \in store : TermMatches(funnel.steps[1], r) <=> Selected(funnel.steps[1], r)
    BY <1>1, <1>2, FilterMeansOne
  <2>2. \A r \in store : TermMatches(extra, r) <=> Selected(extra, r)
    BY <1>2, FilterMeansOne
  <2>. QED  BY <1>4, <2>1, <2>2 DEF Starts, FlFirst
<1>5. users \subseteq {r.user : r \in store} \ {Null}
  BY DEF FlFirst
<1>6. ASSUME NEW u, Starts(funnel, extra, store, u) # {}
      PROVE  /\ at(u) \in Nat
             /\ \E r \in Starts(funnel, extra, store, u) : r.at = at(u)
  <2>1. \A r \in Starts(funnel, extra, store, u) : r.at \in Nat
    BY <1>2 DEF Starts
  <2>. QED  BY <1>6, <2>1, EarliestIs
<1>7. ASSUME NEW u \in users
      PROVE  ActorOk(funnel, extra, store, Step1(u), 1)
  <2>1. u # Null /\ Of(u) = Starts(funnel, extra, store, u) /\ Of(u) # {}
    BY <1>4, <1>5
  <2>2. at(u) \in Nat /\ Step1(u) = [actor |-> u, t1 |-> at(u), t |-> at(u)]
    BY <1>6, <2>1
  <2>3. PICK r \in Starts(funnel, extra, store, u) : r.at = at(u)
    BY <1>6, <2>1
  <2>. DEFINE c == [i \in 1 .. 1 |-> r]
  <2>4. c[1] = r /\ r \in store /\ r.user = u /\ TermMatches(funnel.steps[1], r) /\ c \in [1 .. 1 -> {q \in store : q.user = u}]
    BY DEF Starts
  <2>. HIDE DEF at, c
  <2>5. IsChain(funnel, store, u, at(u), 1, c)
    BY <1>1, <2>2, <2>3, <2>4 DEF IsChain
  <2>6. [actor |-> u, t1 |-> at(u), t |-> at(u)] \in [actor : {q.user : q \in store} \ {Null}, t1 : Nat, t : Nat]
    BY <2>1, <2>2, <2>4
  <2>. DEFINE p == [actor |-> u, t1 |-> at(u), t |-> at(u)]
  <2>7. p.actor = u /\ p.t1 = at(u) /\ p.t = at(u)
    OBVIOUS
  <2>8. p \in [actor : {q.user : q \in store} \ {Null}, t1 : Nat, t : Nat]
    BY <2>6
  <2>. HIDE DEF p
  <2>9. ActorOk(funnel, extra, store, p, 1)
    BY <2>1, <2>3, <2>4, <2>5, <2>7, <2>8 DEF ActorOk, at
  <2>. QED  BY <2>2, <2>9 DEF p
<1>8. ASSUME NEW u \in {r.user : r \in store} \ {Null}, NEW c,
             Starts(funnel, extra, store, u) # {}, IsChain(funnel, store, u, at(u), 1, c)
      PROVE  \E p \in FlStep(funnel, extra, store, g, 1) : p.actor = u /\ p.t <= c[1].at
  <2>1. Of(u) = Starts(funnel, extra, store, u) /\ u \in users
    <3>1. Of(u) = Starts(funnel, extra, store, u)
      BY <1>4
    <3>. QED  BY <1>8, <3>1
  <2>2. Step1(u).actor = u /\ Step1(u).t = at(u) /\ at(u) \in Nat /\ c[1].at = at(u)
    BY <1>6, <1>8, <2>1 DEF IsChain
  <2>3. Step1(u) \in FlStep(funnel, extra, store, g, 1)
    BY <1>3, <2>1
  <2>. HIDE DEF Step1, at
  <2>. QED  BY <2>2, <2>3
<1>. HIDE DEF Step1, users, at
<1>9. \A p \in FlStep(funnel, extra, store, g, 1) : ActorOk(funnel, extra, store, p, 1)
  BY <1>3, <1>7
<1>. QED  BY <1>8, <1>9 DEF StepExact, at

LEMMA NextExact ==
    ASSUME NEW funnel \in FlFunnels, NEW extra, NEW store, store \subseteq FlRow, NEW g,
           NEW n \in Nat, n + 1 \in 1 .. Len(funnel.steps), n # 0, StepExact(funnel, extra, store, g[n], n)
    PROVE  StepExact(funnel, extra, store, FlStep(funnel, extra, store, g, n + 1), n + 1)
<1>. DEFINE step == funnel.steps[n + 1]
            Join(p) == FunnelJoin(p, step, funnel.window, store)
            Moved(p) == [p EXCEPT !.t = Earliest(Join(p))]
            at(u) == Earliest(Starts(funnel, extra, store, u))
<1>1. FlFilterOk(step) /\ funnel.window \in Nat
  BY EventFilterAssumption
<1>2. \A r \in store : r \in FlRow /\ r.at \in Nat
  BY DEF FlRow
<1>3. FlStep(funnel, extra, store, g, n + 1) = {Moved(p) : p \in {q \in g[n] : Join(q) # {}}}
  <2>1. n + 1 # 1 /\ (n + 1) - 1 = n
    OBVIOUS
  <2>. QED  BY <2>1 DEF FlStep
<1>4. ASSUME NEW p \in g[n]
      PROVE  ActorOk(funnel, extra, store, p, n)
  BY DEF StepExact
<1>5. ASSUME NEW p, Join(p) # {}
      PROVE  /\ Earliest(Join(p)) \in Nat
             /\ \E r \in Join(p) : r.at = Earliest(Join(p))
             /\ \A r \in Join(p) : Earliest(Join(p)) <= r.at
  <2>1. \A r \in Join(p) : r.at \in Nat
    BY <1>2 DEF FunnelJoin
  <2>. HIDE DEF Join
  <2>. QED  BY <1>5, <2>1, EarliestIs
<1>6. \A r \in store : TermMatches(step, r) <=> Selected(step, r)
  BY <1>1, <1>2, FilterMeansOne
<1>7. ASSUME NEW p \in g[n], Join(p) # {}
      PROVE  ActorOk(funnel, extra, store, Moved(p), n + 1)
  <2>1. ActorOk(funnel, extra, store, p, n)
    BY <1>4
  <2>2. PICK c : IsChain(funnel, store, p.actor, p.t1, n, c) /\ c[n].at = p.t
    BY <2>1 DEF ActorOk
  <2>3. PICK r \in Join(p) : r.at = Earliest(Join(p))
    BY <1>5, <1>7
  <2>4. /\ r \in store /\ r.user = p.actor /\ r.at >= p.t /\ r.at <= p.t1 + funnel.window
        /\ TermMatches(step, r) /\ r.at \in Nat
    BY <1>2, <1>6, <2>3 DEF FunnelJoin
  <2>. DEFINE d == [i \in 1 .. n + 1 |-> IF i = n + 1 THEN r ELSE c[i]]
              mine == {q \in store : q.user = p.actor}
              m == Moved(p)
  <2>5. c \in [1 .. n -> mine] /\ r \in mine
    BY <2>2, <2>4 DEF IsChain
  <2>6. d \in [1 .. n + 1 -> mine] /\ d[n + 1] = r /\ \A i \in 1 .. n : d[i] = c[i]
    <3>. HIDE DEF mine
    <3>. QED  BY <2>5
  <2>. HIDE DEF d
  <2>7. IsChain(funnel, store, p.actor, p.t1, n + 1, d)
    <3>1. d[1] = c[1]
      BY <2>6
    <3>2. \A i \in 1 .. n + 1 : TermMatches(funnel.steps[i], d[i]) /\ d[i].at <= p.t1 + funnel.window
      BY <2>2, <2>4, <2>6 DEF IsChain
    <3>3. \A i \in 1 .. n : d[i].at <= d[i + 1].at
      <4>. TAKE i \in 1 .. n
      <4>1. CASE i = n
        BY <2>1, <2>2, <2>4, <2>6, <4>1 DEF ActorOk
      <4>2. CASE i # n
        <5>1. i \in 1 .. n - 1 /\ i + 1 \in 1 .. n
          BY <4>2
        <5>. QED  BY <2>2, <2>6, <5>1 DEF IsChain
      <4>. QED  BY <4>1, <4>2
    <3>4. (n + 1) - 1 = n
      OBVIOUS
    <3>. QED  BY <2>2, <2>6, <3>1, <3>2, <3>3, <3>4 DEF IsChain
  <2>8. /\ m \in [actor : {q.user : q \in store} \ {Null}, t1 : Nat, t : Nat]
        /\ m.actor = p.actor /\ m.t1 = p.t1 /\ m.t = r.at
    BY <2>1, <2>3, <2>4 DEF ActorOk
  <2>. HIDE DEF m
  <2>9. ActorOk(funnel, extra, store, m, n + 1)
    BY <2>1, <2>6, <2>7, <2>8 DEF ActorOk
  <2>. QED  BY <2>9 DEF m
<1>8. ASSUME NEW u \in {r.user : r \in store} \ {Null}, NEW c,
             Starts(funnel, extra, store, u) # {}, IsChain(funnel, store, u, at(u), n + 1, c)
      PROVE  \E p \in FlStep(funnel, extra, store, g, n + 1) : p.actor = u /\ p.t <= c[n + 1].at
  <2>. DEFINE b == [i \in 1 .. n |-> c[i]]
              mine == {q \in store : q.user = u}
  <2>1. c \in [1 .. n + 1 -> mine]
    BY <1>8 DEF IsChain
  <2>2. b \in [1 .. n -> mine] /\ \A i \in 1 .. n : b[i] = c[i]
    <3>. HIDE DEF mine
    <3>. QED  BY <2>1
  <2>. HIDE DEF b
  <2>3. (n + 1) - 1 = n
    OBVIOUS
  <2>4. IsChain(funnel, store, u, at(u), n, b)
    <3>1. \A i \in 1 .. n : i \in 1 .. n + 1
      OBVIOUS
    <3>2. \A i \in 1 .. n - 1 : i \in 1 .. n /\ i + 1 \in 1 .. n
      OBVIOUS
    <3>3. 1 \in 1 .. n
      OBVIOUS
    <3>. HIDE DEF at
    <3>. QED  BY <1>8, <2>2, <2>3, <3>1, <3>2, <3>3 DEF IsChain
  <2>5. PICK p \in g[n] : p.actor = u /\ p.t <= b[n].at
    BY <1>8, <2>4 DEF StepExact
  <2>6. ActorOk(funnel, extra, store, p, n)
    BY <1>4
  <2>7. p.t1 = at(u) /\ p.t \in Nat /\ p.t1 \in Nat
    BY <2>5, <2>6 DEF ActorOk
  <2>. DEFINE r == c[n + 1]
  <2>8. /\ r \in store /\ r.user = u /\ r.at \in Nat /\ b[n] \in store /\ b[n].at \in Nat
        /\ TermMatches(step, r) /\ r.at <= at(u) + funnel.window /\ b[n].at <= r.at
    <3>1. r \in mine /\ b[n] \in mine /\ b[n] = c[n]
      BY <2>1, <2>2
    <3>2. n + 1 \in 1 .. n + 1 /\ n \in 1 .. n
      OBVIOUS
    <3>3. TermMatches(step, r) /\ r.at <= at(u) + funnel.window /\ c[n].at <= r.at
      <4>. HIDE DEF at
      <4>. QED  BY <1>8, <2>3, <3>2 DEF IsChain
    <3>. QED  BY <1>2, <3>1, <3>3
  <2>. HIDE DEF at
  <2>9. r \in Join(p)
    BY <1>6, <2>5, <2>7, <2>8 DEF FunnelJoin
  <2>10. Earliest(Join(p)) <= r.at /\ Moved(p) \in FlStep(funnel, extra, store, g, n + 1)
    BY <1>3, <1>5, <2>9
  <2>11. Moved(p).actor = u /\ Moved(p).t = Earliest(Join(p))
    BY <2>5, <2>6 DEF ActorOk
  <2>. HIDE DEF Moved, Join
  <2>. QED  BY <2>10, <2>11
<1>. HIDE DEF Moved, Join, at
<1>9. \A p \in FlStep(funnel, extra, store, g, n + 1) : ActorOk(funnel, extra, store, p, n + 1)
  BY <1>3, <1>7
<1>. QED  BY <1>8, <1>9 DEF StepExact, at

LEMMA FunnelMeansOne ==
    ASSUME NEW funnel \in FlFunnels, NEW extra, FlFilterOk(extra), NEW store, store \subseteq FlRow,
           NEW n \in 1 .. Len(funnel.steps)
    PROVE  {p.actor : p \in Reached(funnel, extra, store)[n]} =
               {u \in {r.user : r \in store} \ {Null} :
                   /\ Starts(funnel, extra, store, u) # {}
                   /\ Chain(funnel, store, u, Earliest(Starts(funnel, extra, store, u)), n)}
<1>. DEFINE s == Reached(funnel, extra, store)
            k == Len(funnel.steps)
            Good == {m \in Nat : m + 1 \in 1 .. k => StepExact(funnel, extra, store, s[m + 1], m + 1)}
<1>1. k \in Nat
  BY EventFilterAssumption
<1>2. \A m \in 1 .. k : s[m] = FlStep(funnel, extra, store, s, m)
  BY <1>1, ReachedStep
<1>. HIDE DEF s
<1>3. 0 \in Good
  <2>. SUFFICES ASSUME 1 \in 1 .. k PROVE StepExact(funnel, extra, store, s[1], 1)
    OBVIOUS
  <2>1. k # 0
    BY <1>1
  <2>. QED  BY <1>2, <2>1, FirstExact
<1>4. ASSUME NEW m \in Good
      PROVE  m + 1 \in Good
  <2>. SUFFICES ASSUME (m + 1) + 1 \in 1 .. k PROVE StepExact(funnel, extra, store, s[(m + 1) + 1], (m + 1) + 1)
    OBVIOUS
  <2>1. m + 1 \in 1 .. k /\ m + 1 \in Nat /\ m + 1 # 0
    BY <1>1
  <2>2. StepExact(funnel, extra, store, s[m + 1], m + 1)
    BY <2>1
  <2>. HIDE DEF Good
  <2>3. StepExact(funnel, extra, store, FlStep(funnel, extra, store, s, (m + 1) + 1), (m + 1) + 1)
    BY <2>1, <2>2, NextExact
  <2>. QED  BY <1>2, <2>3
<1>5. StepExact(funnel, extra, store, s[n], n)
  <2>1. Good = Nat
    <3>1. Good \subseteq Nat
      OBVIOUS
    <3>. HIDE DEF Good
    <3>. QED  BY <1>3, <1>4, <3>1, RankInduction
  <2>2. n - 1 \in Good /\ (n - 1) + 1 = n
    <3>. HIDE DEF Good
    <3>. QED  BY <1>1, <2>1
  <2>. QED  BY <1>1, <2>2
<1>. HIDE DEF Good
<1>6. ASSUME NEW u, NEW t1
      PROVE  Chain(funnel, store, u, t1, n) <=> \E c : IsChain(funnel, store, u, t1, n, c)
  BY DEF Chain, IsChain
<1>7. ASSUME NEW p \in s[n]
      PROVE  /\ p.actor \in {r.user : r \in store} \ {Null}
             /\ Starts(funnel, extra, store, p.actor) # {}
             /\ Chain(funnel, store, p.actor, Earliest(Starts(funnel, extra, store, p.actor)), n)
  <2>1. ActorOk(funnel, extra, store, p, n)
    BY <1>5 DEF StepExact
  <2>. QED  BY <1>6, <2>1 DEF ActorOk
<1>8. ASSUME NEW u \in {r.user : r \in store} \ {Null}, Starts(funnel, extra, store, u) # {},
             Chain(funnel, store, u, Earliest(Starts(funnel, extra, store, u)), n)
      PROVE  \E p \in s[n] : p.actor = u
  BY <1>5, <1>6, <1>8 DEF StepExact
<1>9. {p.actor : p \in s[n]} =
          {u \in {r.user : r \in store} \ {Null} :
              /\ Starts(funnel, extra, store, u) # {}
              /\ Chain(funnel, store, u, Earliest(Starts(funnel, extra, store, u)), n)}
  BY <1>7, <1>8
<1>. QED  BY <1>9 DEF s

(* A filter selects the same rows asked in Go, in SQL and of an index, and a    *)
(* funnel counts whoever has a chain of events that long, for any stored rows,  *)
(* filters, funnels and windows (Match, Where, IndexOnly, FunnelSQL).           *)
THEOREM FiltersMeanOneThing == FlSpec => []OneMeaning
<1>1. FlInit => OneMeaning
  BY DEF FlInit, FlIdle, OneMeaning
<1>2. OneMeaning /\ [FlNext]_flVars => OneMeaning'
  <2>. SUFFICES ASSUME OneMeaning, [FlNext]_flVars PROVE OneMeaning'
    OBVIOUS
  <2>1. CASE FlAsk
    <3>1. PICK store \in FlStores, f \in FlFilters :
            /\ flAsked' = [kind |-> "filter", filter |-> f]
            /\ flAnswer' = [go |-> {r \in store : TermMatches(f, r)}, sql |-> {r \in store : Selected(f, r)},
                            index |-> IF IndexOnly(f) THEN IndexCount(f, store) ELSE {}]
      BY <2>1 DEF FlAsk
    <3>2. store \subseteq FlRow /\ FlFilterOk(f)
      BY EventFilterAssumption
    <3>3. {r \in store : TermMatches(f, r)} = {r \in store : Selected(f, r)}
      BY <3>2, FilterMeansOne
    <3>4. IndexOnly(f) => {r \in store : TermMatches(f, r)} = {r \in IndexCount(f, store) : InRange(f, r)}
      BY <3>2, IndexMeansOne
    <3>5. flAsked'.kind = "filter" /\ flAsked'.filter = f
      BY <3>1
    <3>6. flAnswer'.go = {r \in store : TermMatches(f, r)} /\ flAnswer'.sql = {r \in store : Selected(f, r)}
          /\ (IndexOnly(f) => flAnswer'.index = IndexCount(f, store))
      BY <3>1
    <3>. QED  BY <3>3, <3>4, <3>5, <3>6 DEF OneMeaning
  <2>2. CASE FlAskFunnel
    <3>1. PICK store \in FlStores, funnel \in FlFunnels, f \in FlFilters :
            /\ flStore' = store
            /\ flAsked' = [kind |-> "funnel", funnel |-> funnel, extra |-> f]
            /\ flAnswer' = [reached |-> Reached(funnel, f, store)]
      BY <2>2 DEF FlAskFunnel
    <3>2. store \subseteq FlRow /\ FlFilterOk(f)
      BY EventFilterAssumption
    <3>3. flAsked'.kind = "funnel" /\ flAsked'.funnel = funnel /\ flAsked'.extra = f
          /\ flAnswer'.reached = Reached(funnel, f, store)
      BY <3>1
    <3>4. \A n \in 1 .. Len(funnel.steps) :
            {p.actor : p \in Reached(funnel, f, store)[n]} =
              {u \in {r.user : r \in store} \ {Null} :
                  /\ Starts(funnel, f, store, u) # {}
                  /\ Chain(funnel, store, u, Earliest(Starts(funnel, f, store, u)), n)}
      BY <3>2, FunnelMeansOne
    <3>. QED  BY <3>1, <3>3, <3>4 DEF OneMeaning, Starts
  <2>3. CASE UNCHANGED flVars
    BY <2>3 DEF flVars, OneMeaning
  <2>. QED  BY <2>1, <2>2, <2>3 DEF FlNext
<1>. QED  BY <1>1, <1>2, PTL DEF FlSpec

===============================================================================
