----------------------------- MODULE Checkouts ------------------------------
(***************************************************************************)
(* The apps folder and those who change it (ops/preview.go, ops/add.go,    *)
(* console/hooks.go, preview/, git/, apps/discovery.go): a github_pr ping  *)
(* deploys a branch as a preview app or tears it down, an add clones a     *)
(* repository, and each rescans the folder into the app table.  Pings run  *)
(* in goroutines of their own, rescans come from anywhere, and the proxy   *)
(* wakes a stopped app whenever somebody visits it.                        *)
(*                                                                         *)
(* An app file is what its hosts are and where it came from; the app       *)
(* goroutine is listed or not, running or not (AppRuntime, Manager).       *)
(***************************************************************************)
EXTENDS Naturals, FiniteSets

CONSTANTS
  CoJobs,       \* goroutines
  CoNames,      \* app names: numbers, in the order folders are walked
  CoAsks,       \* what may be asked: [op, name, branch, host]
  CoBranches,   \* branches of the repository
  RepoFile,     \* the app file a branch carries, or NoFile
  HookFile,     \* the app file the host's template renders for a name and a branch
  CoFaults,     \* bound: failures of git, of a start
  MaxWakes,     \* bound: visits that wake an app
  MaxCoAsks     \* bound: jobs run

VARIABLES
  coFolder,   \* the folders: [there, git, branch, file, local]
  coApp,      \* the app table: [listed, running, spec, code]
  coJob,      \* where each goroutine is
  coLock,     \* previewLock
  coScan,     \* the rescan under rescanMu: [by, seen]
  coLeft      \* what the bounds leave: [asks, faults, wakes]

coVars == <<coFolder, coApp, coJob, coLock, coScan, coLeft>>

Nobody == 0
NoBranch == "no branch"
NoFile == [by |-> "none", branch |-> NoBranch, host |-> "", ok |-> FALSE]
NoFolder == [there |-> FALSE, git |-> FALSE, branch |-> NoBranch, file |-> NoFile, local |-> NoFile]
NoApp == [listed |-> FALSE, running |-> FALSE, spec |-> NoFile, code |-> NoBranch]
CoIdle == [op |-> "none", name |-> Nobody, branch |-> NoBranch, host |-> "", pc |-> "idle",
          again |-> FALSE]

\* FindInDir: the server's local file wins.
AppFile(n) == IF coFolder[n].local.by # "none" THEN coFolder[n].local ELSE coFolder[n].file

\* Discover and resolveHosts: the valid files in name order; a host belongs to the first.
Discovered ==
  LET fine == {n \in CoNames : coFolder[n].there /\ AppFile(n).ok}
      Keeps[n \in CoNames] ==
        /\ n \in fine
        /\ \A m \in CoNames : m < n /\ AppFile(m).host = AppFile(n).host => ~Keeps[m]
  IN {n \in CoNames : Keeps[n]}

CoAt(j, pc) == coJob[j].pc = pc
CoGo(j, pc) == coJob' = [coJob EXCEPT ![j].pc = pc]
CoEnd(j) ==
  /\ coJob' = [coJob EXCEPT ![j] = CoIdle]
  /\ coLock' = [n \in CoNames |-> IF coLock[n] = j THEN Nobody ELSE coLock[n]]

CoFault == coLeft.faults > 0 /\ coLeft' = [coLeft EXCEPT !.faults = @ - 1]

CoInit ==
  /\ coFolder = [n \in CoNames |-> NoFolder] /\ coApp = [n \in CoNames |-> NoApp]
  /\ coJob = [j \in CoJobs |-> CoIdle] /\ coLock = [n \in CoNames |-> Nobody]
  /\ coScan = [by |-> Nobody, seen |-> {}]
  /\ coLeft = [asks |-> MaxCoAsks, faults |-> CoFaults, wakes |-> MaxWakes]

-----------------------------------------------------------------------------
(* The start of a job and the lock of its app. *)

Ask(j) ==
  /\ CoAt(j, "idle") /\ coLeft.asks > 0
  /\ \E a \in CoAsks :
       coJob' = [coJob EXCEPT ![j] = [op |-> a.op, name |-> a.name, branch |-> a.branch,
                                      host |-> a.host,
                                      pc |-> IF a.op = "rescan" THEN "scan" ELSE "lock",
                                      again |-> FALSE]]
  /\ coLeft' = [coLeft EXCEPT !.asks = @ - 1]
  /\ UNCHANGED <<coFolder, coApp, coLock, coScan>>

CoFirst(op) == CASE op = "deploy" -> "stop" [] op = "close" -> "stat" [] op = "add" -> "lstat"

TakeLock(j) ==
  LET n == coJob[j].name IN
  /\ CoAt(j, "lock") /\ coLock[n] = Nobody
  /\ coLock' = [coLock EXCEPT ![n] = j] /\ CoGo(j, CoFirst(coJob[j].op))
  /\ UNCHANGED <<coFolder, coApp, coScan, coLeft>>

\* runtime.Stop; an unknown app is fine to ignore.
StopApp(j) ==
  LET n == coJob[j].name IN
  /\ CoAt(j, "stop")
  /\ coApp' = [coApp EXCEPT ![n].running = FALSE]
  /\ CoGo(j, IF coJob[j].op = "close" THEN "destroy" ELSE "git")
  /\ UNCHANGED <<coFolder, coLock, coScan, coLeft>>

-----------------------------------------------------------------------------
(* git.Checkout and git.Clone. *)

Tracks(b) == b # NoBranch /\ RepoFile[b].by # "none"

\* A reset brings the branch's file, whatever was written over it, and deletes one that only
\* the branch before it had; an untracked file survives it.
CheckedOut(n, b) ==
  [coFolder[n] EXCEPT !.there = TRUE, !.git = TRUE, !.branch = b,
                      !.file = IF Tracks(b) THEN RepoFile[b]
                               ELSE IF Tracks(coFolder[n].branch) THEN NoFile ELSE @]

\* git rewrites the tree: what runs meanwhile runs on a mix of the branches.
GitRuns(j) ==
  LET n == coJob[j].name IN
  /\ CoAt(j, "git") /\ CoGo(j, "checked")
  /\ coFolder' = [coFolder EXCEPT ![n] = [CheckedOut(n, coJob[j].branch) EXCEPT !.branch = NoBranch]]
  /\ UNCHANGED <<coApp, coLock, coScan, coLeft>>

GitDone(j) ==
  LET n == coJob[j].name IN
  /\ CoAt(j, "checked")
  /\ coFolder' = [coFolder EXCEPT ![n].branch = coJob[j].branch]
  /\ CoGo(j, IF coJob[j].op = "add" THEN "load" ELSE "render")
  /\ UNCHANGED <<coApp, coLock, coScan, coLeft>>

\* A failed clone leaves the folder Checkout made, empty; a failed fetch leaves what was there.
\* An add removes it again.
GitFails(j) ==
  LET n == coJob[j].name IN
  /\ CoAt(j, "git") /\ CoFault
  /\ coFolder' = [coFolder EXCEPT ![n] =
                    IF coJob[j].op = "add" THEN NoFolder ELSE [@ EXCEPT !.there = TRUE]]
  /\ CoEnd(j)
  /\ UNCHANGED <<coApp, coScan>>

-----------------------------------------------------------------------------
(* deployPreview. *)

Rendered(j) == HookFile[coJob[j].name][coJob[j].branch]

\* A deploy that leaves alone the file the branch brought (mutant).
RenderFileOnce(j) ==
  /\ CoAt(j, "render")
  /\ CoGo(j, IF coFolder[coJob[j].name].file.by = "repo" THEN "scan" ELSE "write")
  /\ UNCHANGED <<coFolder, coApp, coLock, coScan, coLeft>>

\* Render and ParseApp: a template that gives no valid file ends the deploy before it writes.
RenderFile(j) ==
  /\ CoAt(j, "render")
  /\ IF Rendered(j).ok THEN CoGo(j, "write") /\ UNCHANGED coLock ELSE CoEnd(j)
  /\ UNCHANGED <<coFolder, coApp, coScan, coLeft>>

\* os.WriteFile empties the file and fills it.
WriteFile(j) ==
  LET n == coJob[j].name IN
  /\ \/ /\ CoAt(j, "write") /\ CoGo(j, "fill")
        /\ coFolder' = [coFolder EXCEPT ![n].file = [Rendered(j) EXCEPT !.ok = FALSE]]
     \/ /\ CoAt(j, "fill") /\ CoGo(j, "scan")
        /\ coFolder' = [coFolder EXCEPT ![n].file = Rendered(j)]
  /\ UNCHANGED <<coApp, coLock, coScan, coLeft>>

\* Snapshot: the app has to be in the table now.
LookUp(j) ==
  /\ CoAt(j, "look")
  /\ IF coApp[coJob[j].name].listed THEN CoGo(j, "start") /\ UNCHANGED coLock
     ELSE IF coJob[j].op = "add" THEN CoGo(j, "undo") /\ UNCHANGED coLock ELSE CoEnd(j)
  /\ UNCHANGED <<coFolder, coApp, coScan, coLeft>>

Running(n) == [coApp EXCEPT ![n].running = TRUE,
                            ![n].code = IF coApp[n].running THEN @ ELSE coFolder[n].branch]

\* Manager.Start: an unknown app is looked for once more; a running one is left as it is.
StartApp(j) ==
  LET n == coJob[j].name IN
  /\ CoAt(j, "start")
  /\ \/ coApp[n].listed /\ coApp' = Running(n) /\ CoEnd(j)
     \/ /\ ~coApp[n].listed /\ ~coJob[j].again /\ UNCHANGED <<coApp, coLock>>
        /\ coJob' = [coJob EXCEPT ![j].pc = "scan", ![j].again = TRUE]
     \/ /\ ~coApp[n].listed /\ coJob[j].again /\ UNCHANGED coApp
        /\ IF coJob[j].op = "add" THEN CoGo(j, "unload") /\ UNCHANGED coLock ELSE CoEnd(j)
  /\ UNCHANGED <<coFolder, coScan, coLeft>>

StartFails(j) ==
  /\ CoAt(j, "start") /\ coApp[coJob[j].name].listed /\ ~coApp[coJob[j].name].running /\ CoFault
  /\ IF coJob[j].op = "add" THEN CoGo(j, "unload") /\ UNCHANGED coLock ELSE CoEnd(j)
  /\ UNCHANGED <<coFolder, coApp, coScan>>

-----------------------------------------------------------------------------
(* teardownPreview and Manager.Destroy, which holds rescanMu until the folder is gone. *)

CloseStat(j) ==
  /\ CoAt(j, "stat")
  /\ IF coFolder[coJob[j].name].there THEN CoGo(j, "stop") /\ UNCHANGED coLock ELSE CoEnd(j)
  /\ UNCHANGED <<coFolder, coApp, coScan, coLeft>>

\* The template makes a preview deletable; a repository's own file does not.
Deletable(n) == coApp[n].listed /\ coApp[n].spec.by = "hook"

Unlist(j) ==
  LET n == coJob[j].name IN
  /\ CoAt(j, "destroy") /\ coScan.by = Nobody
  /\ IF Deletable(n)
     THEN /\ coApp' = [coApp EXCEPT ![n] = NoApp]
          /\ coScan' = [by |-> j, seen |-> {}]
          /\ CoGo(j, "remove") /\ UNCHANGED coLock
     ELSE CoEnd(j) /\ UNCHANGED <<coApp, coScan>>
  /\ UNCHANGED <<coFolder, coLeft>>

RemoveFolder(j) ==
  /\ CoAt(j, "remove")
  /\ coFolder' = [coFolder EXCEPT ![coJob[j].name] = NoFolder]
  /\ coScan' = IF coScan.by = j THEN [by |-> Nobody, seen |-> {}] ELSE coScan
  /\ CoEnd(j)
  /\ UNCHANGED <<coApp, coLeft>>

-----------------------------------------------------------------------------
(* add and loadAdded. *)

AddStat(j) ==
  /\ CoAt(j, "lstat")
  /\ IF coFolder[coJob[j].name].there THEN CoEnd(j) ELSE CoGo(j, "git") /\ UNCHANGED coLock
  /\ UNCHANGED <<coFolder, coApp, coScan, coLeft>>

\* The checkout's own file, or a local copy of it on the host asked for, and no app on that
\* host.
LoadAdded(j) ==
  LET n == coJob[j].name
      copy == [AppFile(n) EXCEPT !.by = "local", !.host = coJob[j].host]
      wanted == IF coJob[j].host = "" THEN AppFile(n) ELSE copy
      clash == \E m \in CoNames : coApp[m].listed /\ coApp[m].spec.host = wanted.host
  IN
  /\ CoAt(j, "load")
  /\ coFolder' = IF wanted.by = "local" /\ wanted.ok
                 THEN [coFolder EXCEPT ![n].local = wanted] ELSE coFolder
  /\ CoGo(j, IF wanted.ok /\ ~clash THEN "scan" ELSE "undo")
  /\ UNCHANGED <<coApp, coLock, coScan, coLeft>>

\* apps.Destroy, and a rescan when its own rescan had loaded the app.
UndoAdd(j) ==
  /\ CoAt(j, "undo") \/ CoAt(j, "unload")
  /\ coFolder' = [coFolder EXCEPT ![coJob[j].name] = NoFolder]
  /\ IF CoAt(j, "undo") THEN CoEnd(j)
     ELSE coJob' = [coJob EXCEPT ![j].pc = "scan", ![j].op = "rescan"] /\ UNCHANGED coLock
  /\ UNCHANGED <<coApp, coScan, coLeft>>

-----------------------------------------------------------------------------
(* Manager.Rescan and the proxy. *)

ScanFolders(j) ==
  /\ CoAt(j, "scan") /\ coScan.by = Nobody
  /\ coScan' = [by |-> j, seen |-> {<<n, AppFile(n)>> : n \in Discovered}]
  /\ CoGo(j, "apply")
  /\ UNCHANGED <<coFolder, coApp, coLock, coLeft>>

\* Known apps get the new file, new ones are added stopped, the rest is stopped and dropped.
ApplyScan(j) ==
  /\ CoAt(j, "apply")
  /\ coApp' = [n \in CoNames |->
       LET found == {p \in coScan.seen : p[1] = n}
       IN IF found = {} THEN NoApp
          ELSE [coApp[n] EXCEPT !.listed = TRUE, !.spec = (CHOOSE p \in found : TRUE)[2]]]
  /\ coScan' = [by |-> Nobody, seen |-> {}]
  /\ IF coJob[j].again THEN CoGo(j, "start") /\ UNCHANGED coLock
     ELSE IF coJob[j].op = "rescan" THEN CoEnd(j) ELSE CoGo(j, "look") /\ UNCHANGED coLock
  /\ UNCHANGED <<coFolder, coLeft>>

\* A visitor of a stopped app.
WakeApp ==
  /\ coLeft.wakes > 0
  /\ \E n \in CoNames : coApp[n].listed /\ ~coApp[n].running /\ coApp' = Running(n)
  /\ coLeft' = [coLeft EXCEPT !.wakes = @ - 1]
  /\ UNCHANGED <<coFolder, coJob, coLock, coScan>>

CoNext ==
  \/ WakeApp
  \/ \E j \in CoJobs :
       \/ Ask(j) \/ TakeLock(j) \/ StopApp(j) \/ GitRuns(j) \/ GitDone(j) \/ GitFails(j)
       \/ RenderFile(j) \/ WriteFile(j) \/ LookUp(j) \/ StartApp(j) \/ StartFails(j)
       \/ CloseStat(j) \/ Unlist(j) \/ RemoveFolder(j)
       \/ AddStat(j) \/ LoadAdded(j) \/ UndoAdd(j) \/ ScanFolders(j) \/ ApplyScan(j)

CoSpec == CoInit /\ [][CoNext]_coVars

-----------------------------------------------------------------------------
(* Properties. *)

\* A deploy that succeeds leaves the app with the file rendered for its own branch over the
\* checkout of that branch, whatever was pinged, scanned or visited meanwhile.
PingDeployed ==
  [][\A j \in CoJobs : LET n == coJob[j].name IN
       CoAt(j, "start") /\ coJob[j].op = "deploy" /\ coApp[n].listed
         /\ coJob'[j].pc = "idle" /\ coLeft' = coLeft =>
       coApp'[n].spec = AppFile(n) /\ coFolder[n].branch = coJob[j].branch
         /\ (coFolder[n].local.by = "none" => coFolder[n].file = Rendered(j))]_coVars

\* A preview that was torn down is in the table no more than on the disk: no rescan that had
\* read its folder before brings it back.
ClosedIsGone ==
  [][\A j \in CoJobs : CoAt(j, "remove") /\ coJob'[j].pc = "idle" =>
       ~coApp'[coJob[j].name].listed /\ \A k \in CoJobs : CoAt(k, "apply") =>
          \A p \in coScan.seen : p[1] # coJob[j].name]_coVars

PreviewsKept == PingDeployed /\ ClosedIsGone

\* "Stop a running preview before resetting its checkout, so git never touches files an Odoo
\* process is reading."
StoppedWhileReset ==
  \A j \in CoJobs : CoAt(j, "checked") => ~coApp[coJob[j].name].running

\* "Anything that fails after the clone removes the folder again, so a retry starts clean."
RetryStartsClean ==
  [][\A j \in CoJobs : CoAt(j, "undo") /\ coJob'[j].pc = "idle" =>
       ~coApp'[coJob[j].name].listed]_coVars
=============================================================================
