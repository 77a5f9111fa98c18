----------------------------- MODULE ConfigStore -----------------------------
(* The console's editor of one app's config files (apps/store.go): dboss.yaml, *)
(* the dboss.local.yaml that shadows it, the history of replaced contents, and *)
(* the write that goes through one temp file per path (fsutil.WriteFile).      *)
(* Several requests run at once and nothing locks them; a deploy rewrites      *)
(* dboss.yaml under them.  A text is a number, its revision (a hash) is the    *)
(* text itself, 0 is an empty file.                                            *)
EXTENDS Naturals, SequencesExt

CONSTANTS
    Absent,       \* no such file
    NoEditor,     \* nobody
    Editors,      \* console requests: saves, restores, creations of the override
    HistoryKeep,  \* replaced contents kept per file (50 in the code)
    MaxTexts,     \* bound: texts ever written by editors and deploys
    MaxOpens,     \* bound: requests begun
    MaxCfgCrashes \* bound: crashes of the daemon

ASSUME ConfigStoreAssumption ==
    HistoryKeep \in Nat \ {0} /\ Absent \notin Nat /\ NoEditor \notin Editors

VARIABLES
    cfgFiles,    \* path -> its contents, or Absent
    cfgTemps,    \* path -> contents of <path>.tmp, or Absent
    cfgHistory,  \* replaced contents, newest first
    cfgEdits,    \* editor -> the state of its request
    cfgOpened,   \* the editor whose handle is open on the new override, or NoEditor
    cfgTexts,    \* texts handed out so far
    cfgLoaded,   \* the contents the last rescan loaded
    cfgSilent,   \* history variable: a save not overtaken replaced what nobody saw or kept
    cfgOpens,    \* requests begun so far
    cfgTangled,  \* history variable: two saves used one temp file at a time
    cfgCurrent,  \* history variable: since the last rescan no deploy, no stale copy
    cfgCrashes   \* crashes so far

cfgVars == <<cfgFiles, cfgTemps, cfgHistory, cfgEdits, cfgOpened, cfgTexts,
             cfgLoaded, cfgSilent, cfgOpens, cfgTangled, cfgCurrent, cfgCrashes>>

Paths == {"base", "local"}
EmptyFile == 0
IdleEdit == [pc |-> "idle"]

\* The file in force: the override when there is one (config.FindInDir).
ActiveFile == IF cfgFiles["local"] = Absent THEN "base" ELSE "local"
Writing == {"checked", "kept", "truncated", "filled"}

CfgInit ==
    /\ cfgFiles = [p \in Paths |-> IF p = "base" THEN 1 ELSE Absent]
    /\ cfgTemps = [p \in Paths |-> Absent]
    /\ cfgHistory = <<>>
    /\ cfgEdits = [e \in Editors |-> IdleEdit]
    /\ cfgOpened = NoEditor
    /\ cfgTexts = 1
    /\ cfgLoaded = 1
    /\ cfgSilent = FALSE
    /\ cfgOpens = 0
    /\ cfgTangled = FALSE
    /\ cfgCurrent = TRUE
    /\ cfgCrashes = 0

\* Every request but e that is between its check and its rename on p has been
\* overtaken: what it compared is not what it will replace.
Overtake(e, p, edits) ==
    [f \in Editors |->
        IF f # e /\ edits[f].pc \in Writing /\ edits[f].path = p
        THEN [edits[f] EXCEPT !.raced = TRUE] ELSE edits[f]]

\* Where the handle of a temp file leads once the temp file was renamed: into the
\* config file, and nowhere after the next rename.
Follow(p, edits) ==
    [f \in Editors |->
        IF edits[f].pc = "truncated" /\ edits[f].path = p
        THEN [edits[f] EXCEPT !.into = IF @ = "temp" THEN "file" ELSE "gone"] ELSE edits[f]]

-----------------------------------------------------------------------------
(* A save                                                                    *)

\* The editor reads the file in force and prepares a text: a new one, or one of
\* the history (Restore takes the revision it compares from this very read).
CfgOpen(e) ==
    /\ cfgEdits[e].pc = "idle" /\ cfgOpens < MaxOpens
    /\ e = CHOOSE free \in Editors : cfgEdits[free].pc = "idle"
    /\ cfgOpens' = cfgOpens + 1
    /\ \E text \in ToSet(cfgHistory)
                     \union (IF cfgTexts < MaxTexts THEN {cfgTexts + 1} ELSE {}) :
        /\ cfgEdits' = [cfgEdits EXCEPT ![e] =
               [pc |-> "editing", rev |-> cfgFiles[ActiveFile], text |-> text]]
        /\ cfgTexts' = IF text > cfgTexts THEN text ELSE cfgTexts
    /\ UNCHANGED <<cfgFiles, cfgTemps, cfgHistory, cfgOpened, cfgLoaded,
                   cfgSilent, cfgTangled, cfgCurrent, cfgCrashes>>

\* A Write that checks nothing: the file is taken as it is (mutant).
WriteUnchecked(e) ==
    /\ cfgEdits[e].pc = "editing"
    /\ cfgEdits' = [cfgEdits EXCEPT ![e] =
           [pc |-> "checked", rev |-> @.rev, text |-> @.text, path |-> ActiveFile,
            found |-> cfgFiles[ActiveFile], into |-> "temp", raced |-> FALSE]]
    /\ UNCHANGED <<cfgFiles, cfgTemps, cfgHistory, cfgOpened, cfgTexts, cfgLoaded,
                   cfgSilent, cfgTangled, cfgCurrent, cfgCrashes, cfgOpens>>

\* Write reads the file in force again and refuses another revision.
WriteChecks(e) ==
    /\ cfgEdits[e].pc = "editing"
    /\ cfgEdits' = [cfgEdits EXCEPT ![e] =
           IF cfgFiles[ActiveFile] = @.rev
           THEN [pc |-> "checked", rev |-> @.rev, text |-> @.text, path |-> ActiveFile,
                 found |-> cfgFiles[ActiveFile], into |-> "temp", raced |-> FALSE]
           ELSE IdleEdit]
    /\ UNCHANGED <<cfgFiles, cfgTemps, cfgHistory, cfgOpened, cfgTexts, cfgLoaded,
                   cfgSilent, cfgTangled, cfgCurrent, cfgCrashes, cfgOpens>>

\* The history of the two files is one: enough saves of others drop the copy that f
\* has just made.
PrunedUnder(f, history) ==
    /\ cfgEdits[f].pc \in {"kept", "truncated", "filled"}
    /\ cfgEdits[f].found \in ToSet(cfgHistory) \ ToSet(history)

\* snapshot keeps what the check read, and prunes the history; an empty file
\* leaves no entry.
Snapshot(e) ==
    /\ cfgEdits[e].pc = "checked"
    /\ LET longer == <<cfgEdits[e].found>> \o cfgHistory
       IN  cfgHistory' = IF cfgEdits[e].found = EmptyFile THEN cfgHistory
                         ELSE SubSeq(longer, 1, IF Len(longer) < HistoryKeep
                                                THEN Len(longer) ELSE HistoryKeep)
    /\ cfgEdits' = [f \in Editors |->
           CASE f = e -> [cfgEdits[e] EXCEPT !.pc = "kept"]
             [] f # e /\ PrunedUnder(f, cfgHistory') -> [cfgEdits[f] EXCEPT !.raced = TRUE]
             [] OTHER -> cfgEdits[f]]
    /\ UNCHANGED <<cfgFiles, cfgTemps, cfgOpened, cfgTexts, cfgLoaded, cfgSilent,
                   cfgTangled, cfgCurrent, cfgCrashes, cfgOpens>>

\* os.WriteFile truncates <path>.tmp, or creates it ...
TempTruncate(e) ==
    /\ cfgEdits[e].pc = "kept"
    /\ LET p == cfgEdits[e].path
       IN  /\ cfgTemps' = [cfgTemps EXCEPT ![p] = EmptyFile]
           /\ cfgEdits' = Overtake(e, p, [cfgEdits EXCEPT ![e].pc = "truncated"])
           /\ cfgTangled' = (cfgTangled \/ \E f \in Editors \ {e} :
                                 /\ cfgEdits[f].pc \in {"truncated", "filled"}
                                 /\ cfgEdits[f].path = p)
    /\ UNCHANGED <<cfgFiles, cfgHistory, cfgOpened, cfgTexts, cfgLoaded, cfgSilent,
                   cfgCurrent, cfgCrashes, cfgOpens>>

\* ... and fills it: when another save has renamed it meanwhile, the same file
\* is already the config file, or is no file any more.
TempFill(e) ==
    /\ cfgEdits[e].pc = "truncated"
    /\ LET p == cfgEdits[e].path
       IN  /\ cfgTemps' = IF cfgEdits[e].into = "temp"
                          THEN [cfgTemps EXCEPT ![p] = cfgEdits[e].text] ELSE cfgTemps
           /\ cfgFiles' = IF cfgEdits[e].into = "file"
                          THEN [cfgFiles EXCEPT ![p] = cfgEdits[e].text] ELSE cfgFiles
    /\ cfgEdits' = Overtake(e, cfgEdits[e].path, [cfgEdits EXCEPT ![e].pc = "filled"])
    /\ UNCHANGED <<cfgHistory, cfgOpened, cfgTexts, cfgLoaded, cfgSilent, cfgTangled,
                   cfgCurrent, cfgCrashes, cfgOpens>>

\* A rename that nobody overtook, over a text its editor never saw or that is in no
\* history.
ReplacedSilently(e, p) ==
    /\ ~cfgEdits[e].raced
    /\ \/ cfgFiles[p] # cfgEdits[e].rev
       \/ cfgFiles[p] \notin ToSet(cfgHistory) \union {EmptyFile}

\* The rename puts the temp file in place; without one the save answers an error.
TempRename(e) ==
    /\ cfgEdits[e].pc = "filled"
    /\ LET p == cfgEdits[e].path
       IN  IF cfgTemps[p] # Absent
           THEN /\ cfgFiles' = [cfgFiles EXCEPT ![p] = cfgTemps[p]]
                /\ cfgTemps' = [cfgTemps EXCEPT ![p] = Absent]
                /\ cfgOpened' = IF p = "local" THEN NoEditor ELSE cfgOpened
                /\ cfgSilent' = (cfgSilent \/ ReplacedSilently(e, p))
                /\ cfgEdits' = LET saved == [cfgEdits EXCEPT ![e] = [pc |-> "saved"]]
                               IN  Overtake(e, p, Follow(p, saved))
           ELSE /\ cfgEdits' = [cfgEdits EXCEPT ![e] = IdleEdit]
                /\ UNCHANGED <<cfgFiles, cfgTemps, cfgOpened, cfgSilent>>
    /\ UNCHANGED <<cfgHistory, cfgTexts, cfgLoaded, cfgTangled, cfgCurrent,
                   cfgCrashes, cfgOpens>>

\* SaveConfig rescans after the write, so the app runs what the file says.
SaveRescan(e) ==
    /\ cfgEdits[e].pc = "saved"
    /\ cfgLoaded' = cfgFiles[ActiveFile]
    /\ cfgCurrent' = (cfgOpened = NoEditor)
    /\ cfgEdits' = [cfgEdits EXCEPT ![e] = IdleEdit]
    /\ UNCHANGED <<cfgFiles, cfgTemps, cfgHistory, cfgOpened, cfgTexts, cfgSilent,
                   cfgTangled, cfgCrashes, cfgOpens>>

\* A text that does not validate, a history or a temp file that cannot be made:
\* the request ends before the file changed.
SaveFails(e) ==
    /\ cfgEdits[e].pc \in {"checked", "kept"}
    /\ cfgEdits' = [cfgEdits EXCEPT ![e] = IdleEdit]
    /\ UNCHANGED <<cfgFiles, cfgTemps, cfgHistory, cfgOpened, cfgTexts, cfgLoaded,
                   cfgSilent, cfgTangled, cfgCurrent, cfgCrashes, cfgOpens>>

-----------------------------------------------------------------------------
(* The override: CreateLocal, EnsureLocal and copyExclusive                   *)

LocalRead(e) ==
    /\ cfgEdits[e].pc = "idle" /\ cfgOpens < MaxOpens
    /\ e = CHOOSE free \in Editors : cfgEdits[free].pc = "idle"
    /\ cfgOpens' = cfgOpens + 1
    /\ cfgFiles["local"] = Absent
    /\ cfgEdits' = [cfgEdits EXCEPT ![e] = [pc |-> "copying", text |-> cfgFiles["base"]]]
    /\ UNCHANGED <<cfgFiles, cfgTemps, cfgHistory, cfgOpened, cfgTexts, cfgLoaded,
                   cfgSilent, cfgTangled, cfgCurrent, cfgCrashes>>

\* A creation without O_EXCL: the second click empties the override (mutant).
LocalTruncate(e) ==
    /\ cfgEdits[e].pc = "copying"
    /\ cfgFiles' = [cfgFiles EXCEPT !["local"] = EmptyFile]
    /\ cfgOpened' = e
    /\ cfgEdits' = [cfgEdits EXCEPT ![e].pc = "opened"]
    /\ UNCHANGED <<cfgTemps, cfgHistory, cfgTexts, cfgLoaded, cfgSilent, cfgTangled,
                   cfgCurrent, cfgCrashes, cfgOpens>>

\* O_EXCL: of two clicks one creates the file, empty, and the other fails.
LocalCreate(e) ==
    /\ cfgEdits[e].pc = "copying"
    /\ IF cfgFiles["local"] = Absent
       THEN /\ cfgFiles' = [cfgFiles EXCEPT !["local"] = EmptyFile]
            /\ cfgOpened' = e
            /\ cfgEdits' = [cfgEdits EXCEPT ![e].pc = "opened"]
       ELSE /\ cfgEdits' = [cfgEdits EXCEPT ![e] = IdleEdit]
            /\ UNCHANGED <<cfgFiles, cfgOpened>>
    /\ UNCHANGED <<cfgTemps, cfgHistory, cfgTexts, cfgLoaded, cfgSilent, cfgTangled,
                   cfgCurrent, cfgCrashes, cfgOpens>>

\* The bytes land in the file the handle is open on: no longer the override when
\* a save was renamed over it.  A save of dboss.yaml since the read is hidden by
\* the older copy, and no rescan follows.
LocalFill(e) ==
    /\ cfgEdits[e].pc = "opened"
    /\ IF cfgOpened = e
       THEN /\ cfgFiles' = [cfgFiles EXCEPT !["local"] = cfgEdits[e].text]
            /\ cfgOpened' = NoEditor
            /\ cfgEdits' = Overtake(e, "local", [cfgEdits EXCEPT ![e] = IdleEdit])
            /\ cfgCurrent' = (cfgCurrent /\ cfgEdits[e].text = cfgFiles["base"])
       ELSE /\ cfgEdits' = [cfgEdits EXCEPT ![e] = IdleEdit]
            /\ UNCHANGED <<cfgFiles, cfgOpened, cfgCurrent>>
    /\ UNCHANGED <<cfgTemps, cfgHistory, cfgTexts, cfgLoaded, cfgSilent, cfgTangled,
                   cfgCrashes, cfgOpens>>

-----------------------------------------------------------------------------
(* The world: a deploy writes dboss.yaml, the daemon dies                     *)

ConfigDeploy ==
    /\ cfgTexts < MaxTexts
    /\ cfgTexts' = cfgTexts + 1
    /\ cfgFiles' = [cfgFiles EXCEPT !["base"] = cfgTexts + 1]
    /\ cfgEdits' = Overtake(NoEditor, "base", cfgEdits)
    /\ cfgCurrent' = FALSE
    /\ UNCHANGED <<cfgTemps, cfgHistory, cfgOpened, cfgLoaded, cfgSilent, cfgTangled,
                   cfgCrashes, cfgOpens>>

\* Requests are gone, what they wrote stays; the next start loads the files.
ConfigCrash ==
    /\ cfgCrashes < MaxCfgCrashes
    /\ cfgCrashes' = cfgCrashes + 1
    /\ cfgEdits' = [e \in Editors |-> IdleEdit]
    /\ cfgOpened' = NoEditor
    /\ cfgLoaded' = cfgFiles[ActiveFile]
    /\ cfgCurrent' = TRUE
    /\ UNCHANGED <<cfgFiles, cfgTemps, cfgHistory, cfgTexts, cfgSilent, cfgTangled, cfgOpens>>

ConfigEdit(e) ==
    \/ CfgOpen(e) \/ WriteChecks(e) \/ Snapshot(e)
    \/ TempTruncate(e) \/ TempFill(e) \/ TempRename(e) \/ SaveRescan(e) \/ SaveFails(e)
    \/ LocalRead(e) \/ LocalCreate(e) \/ LocalFill(e)

ConfigNext == (\E e \in Editors : ConfigEdit(e)) \/ ConfigDeploy \/ ConfigCrash
ConfigSpec == CfgInit /\ [][ConfigNext]_cfgVars

-----------------------------------------------------------------------------
(* A save nobody overtook replaces exactly the text its editor saw, and that  *)
(* text is then in the history (Write: revision check, snapshot, replace), so *)
(* a text is lost unseen only when another writer came between check and      *)
(* rename.                                                                    *)
OverwritesSeen == ~cfgSilent

(* A config file is empty only while its override is being created, after a   *)
(* crash in that moment, or when two saves shared a temp file: WriteFile never *)
(* leaves half of a file by itself.  Before the first crash and the first such *)
(* meeting, an empty file has its creator at work, and what the manager runs   *)
(* is what the active file says whenever no request is under way.             *)
FilesWhole ==
    ~cfgTangled /\ cfgCrashes = 0 =>
        /\ cfgFiles["base"] # EmptyFile
        /\ cfgFiles["local"] = EmptyFile => cfgOpened # NoEditor
        /\ cfgCurrent /\ (\A e \in Editors : cfgEdits[e].pc = "idle") =>
               cfgLoaded = cfgFiles[ActiveFile]

(* A save through the editor replaces what its user saw, and whole files.     *)
SavesSound == OverwritesSeen /\ FilesWhole
=============================================================================
