-------------------------------- MODULE Jobs --------------------------------
(***************************************************************************)
(* Cron jobs and deploy hooks of one app (internal/supervisor: cron.go,    *)
(* hooks.go).  The app goroutine starts a command, a goroutine waits for   *)
(* it, a timer bounds it, another goroutine restarts the app after a clean *)
(* hook; all of them report by events, in any order.  A rescan removes and *)
(* adds jobs while their commands run.                                     *)
(***************************************************************************)
EXTENDS Naturals, FiniteSets

CONSTANTS
    JobNames,  \* the jobs of the config
    JobHooks,  \* those that are hooks with restart: true
    Overlaps,  \* those with overlap: true
    Timed,     \* those with a timeout; 0, the default, is no limit
    JobRuns,   \* bound: executions
    MaxJobOps  \* bound: rescans and failed starts

ASSUME JobsAssumption ==
    /\ JobHooks \subseteq JobNames /\ Overlaps \subseteq JobNames /\ Timed \subseteq JobNames
    /\ IsFiniteSet(JobRuns) /\ MaxJobOps \in Nat

VARIABLES
    jobState,  \* jobState of each job
    jobChild,  \* the command of each run, as the kernel and its waiter see it
    jobEvents, \* sendEvent: events the app goroutine has not taken
    jobTimers, \* runs whose timeout is armed
    jobRestarts, \* restarts of the app still going, by the run they follow
    jobStop,   \* stopJob: the job being stopped and the run waited for
    jobOps     \* rescans and failed starts so far

jobVars == <<jobState, jobChild, jobEvents, jobTimers, jobRestarts, jobStop, jobOps>>

NoError == ""
FreshJob == [present |-> TRUE, born |-> 0, runs |-> {}, lastExit |-> 0, lastError |-> NoError, restarting |-> FALSE]
NoChild == [job |-> "none", born |-> 0, at |-> "unused", exit |-> 0]
NotStopping == [job |-> "none", killed |-> "none"]

JobInit ==
    /\ jobState = [j \in JobNames |-> FreshJob]
    /\ jobChild = [r \in JobRuns |-> NoChild]
    /\ jobEvents = {} /\ jobTimers = {} /\ jobRestarts = {}
    /\ jobStop = NotStopping /\ jobOps = 0

(* The app goroutine takes one thing at a time, and none while it waits in *)
(* stopJob.                                                                *)
JobLoop == jobStop = NotStopping

Alive(r) == jobChild[r].at = "running"

-----------------------------------------------------------------------------
(* startJob *)

(* Mutant: a hook runs whatever still goes on.                             *)
MayRunHook(j) == jobState[j].runs = {} \/ j \in Overlaps \/ j \in JobHooks

MayRun(j) == jobState[j].runs = {} \/ j \in Overlaps

JobStart(j, r) ==
    /\ JobLoop /\ jobState[j].present
    /\ MayRun(j)
    /\ jobChild[r] = NoChild
    /\ jobChild' = [jobChild EXCEPT ![r] = [job |-> j, born |-> jobState[j].born, at |-> "running", exit |-> 0]]
    /\ jobState' = [jobState EXCEPT ![j].runs = @ \cup {r}, ![j].lastError = NoError]
    /\ jobTimers' = IF j \in Timed THEN jobTimers \cup {r} ELSE jobTimers
    /\ UNCHANGED <<jobEvents, jobRestarts, jobStop, jobOps>>

(* A due cron job that still runs is skipped; to the operator it is an     *)
(* error and nothing changes.                                              *)
JobSkip(j) ==
    /\ JobLoop /\ jobState[j].present /\ j \notin JobHooks
    /\ jobState[j].runs # {} /\ j \notin Overlaps
    /\ jobState' = [jobState EXCEPT ![j].lastError = "skipped"]
    /\ UNCHANGED <<jobChild, jobEvents, jobTimers, jobRestarts, jobStop, jobOps>>

JobStartFails(j) ==
    /\ JobLoop /\ jobState[j].present /\ jobOps < MaxJobOps
    /\ MayRun(j)
    /\ jobOps' = jobOps + 1
    /\ jobState' = [jobState EXCEPT ![j].lastError = "start"]
    /\ UNCHANGED <<jobChild, jobEvents, jobTimers, jobRestarts, jobStop>>

-----------------------------------------------------------------------------
(* the command, its waiter and its timer *)

JobExits(r, exit) ==
    /\ Alive(r)
    /\ jobChild' = [jobChild EXCEPT ![r].at = "reaped", ![r].exit = exit]
    /\ UNCHANGED <<jobState, jobEvents, jobTimers, jobRestarts, jobStop, jobOps>>

(* finished is stored and waited closed; then the event is sent.           *)
JobFinished(r) ==
    /\ jobChild[r].at = "reaped"
    /\ jobChild' = [jobChild EXCEPT ![r].at = "finished"]
    /\ jobEvents' = jobEvents \cup {[kind |-> "job-exit", run |-> r]}
    /\ UNCHANGED <<jobState, jobTimers, jobRestarts, jobStop, jobOps>>

JobTimerFires(r) ==
    /\ r \in jobTimers
    /\ jobTimers' = jobTimers \ {r}
    /\ jobEvents' = jobEvents \cup {[kind |-> "job-timeout", run |-> r]}
    /\ UNCHANGED <<jobState, jobChild, jobRestarts, jobStop, jobOps>>

(* A signal to a command that was reaped finds nobody.                     *)
JobKilled(child, r) == IF child[r].at = "running" THEN [child EXCEPT ![r].at = "reaped", ![r].exit = 137] ELSE child

-----------------------------------------------------------------------------
(* the events *)

Tracked(r) == jobChild[r].job \in JobNames /\ r \in jobState[jobChild[r].job].runs

Taken(kind, r) ==
    /\ JobLoop
    /\ [kind |-> kind, run |-> r] \in jobEvents
    /\ jobEvents' = jobEvents \ {[kind |-> kind, run |-> r]}

(* jobExited: a run the job no longer has is ignored.  A clean restart     *)
(* hook restarts the app from a goroutine of its own.                      *)
JobExitSeen(r) ==
    LET j == jobChild[r].job
        code == jobChild[r].exit
        deploys == j \in JobHooks /\ code = 0
    IN
    /\ Taken("job-exit", r)
    /\ IF ~Tracked(r)
       THEN UNCHANGED <<jobState, jobTimers, jobRestarts>>
       ELSE /\ jobTimers' = jobTimers \ {r}
            /\ jobState' = [jobState EXCEPT
                   ![j].runs = @ \ {r}, ![j].lastExit = code,
                   ![j].lastError = IF code # 0 /\ @ = NoError THEN "exit code" ELSE @,
                   ![j].restarting = @ \/ deploys]
            /\ jobRestarts' = IF deploys THEN jobRestarts \cup {r} ELSE jobRestarts
    /\ UNCHANGED <<jobChild, jobStop, jobOps>>

JobTimeoutSeen(r) ==
    LET j == jobChild[r].job IN
    /\ Taken("job-timeout", r)
    /\ IF Tracked(r) /\ jobChild[r].at # "finished"
       THEN /\ jobState' = [jobState EXCEPT ![j].lastError = "timed out"]
            /\ jobChild' = JobKilled(jobChild, r)
       ELSE UNCHANGED <<jobState, jobChild>>
    /\ UNCHANGED <<jobTimers, jobRestarts, jobStop, jobOps>>

(* Manager.Restart returns.  It may never do so (Manager, CallsReturn).    *)
JobRestarted(r, fails) ==
    /\ r \in jobRestarts
    /\ jobRestarts' = jobRestarts \ {r}
    /\ jobEvents' = jobEvents \cup {[kind |-> IF fails THEN "restart-failed" ELSE "hook-restarted", run |-> r]}
    /\ UNCHANGED <<jobState, jobChild, jobTimers, jobStop, jobOps>>

(* hookRestarted: whichever run it was that asked for a restart.  (The     *)
(* state of a job that was removed meanwhile is nobody's.)                 *)
JobRestartSeen(r) ==
    LET j == jobChild[r].job IN
    \E kind \in {"hook-restarted", "restart-failed"} :
        /\ Taken(kind, r)
        /\ jobState' = IF jobState[j].born # jobChild[r].born THEN jobState
                       ELSE [jobState EXCEPT
                           ![j].restarting = FALSE,
                           ![j].lastError = IF kind = "restart-failed" THEN "restart" ELSE @]
        /\ UNCHANGED <<jobChild, jobTimers, jobRestarts, jobStop, jobOps>>

-----------------------------------------------------------------------------
(* a rescan *)

(* A job that is no longer in the config is stopped and dropped.           *)
JobRemove(j) ==
    /\ JobLoop /\ jobState[j].present /\ jobOps < MaxJobOps
    /\ jobOps' = jobOps + 1
    /\ jobStop' = [job |-> j, killed |-> "none"]
    /\ UNCHANGED <<jobState, jobChild, jobEvents, jobTimers, jobRestarts>>

(* stopJob, one run after the other: the timer is off, the group killed    *)
(* unless its waiter is done, ...                                          *)
JobKill(r) ==
    /\ jobStop.killed = "none" /\ jobStop.job \in JobNames
    /\ r \in jobState[jobStop.job].runs
    /\ jobTimers' = jobTimers \ {r}
    /\ jobChild' = IF jobChild[r].at = "finished" THEN jobChild ELSE JobKilled(jobChild, r)
    /\ jobStop' = [jobStop EXCEPT !.killed = r]
    /\ UNCHANGED <<jobState, jobEvents, jobRestarts, jobOps>>

(* ... and its waiter waited for.                                          *)
JobWaited(r) ==
    /\ jobStop.killed = r
    /\ jobChild[r].at = "finished"
    /\ jobState' = [jobState EXCEPT ![jobStop.job].runs = @ \ {r}]
    /\ jobStop' = [jobStop EXCEPT !.killed = "none"]
    /\ UNCHANGED <<jobChild, jobEvents, jobTimers, jobRestarts, jobOps>>

(* Mutant: a job is dropped while the last of its runs goes on.            *)
JobDropEarly ==
    /\ jobStop.job \in JobNames /\ jobStop.killed = "none"
    /\ Cardinality(jobState[jobStop.job].runs) < 2
    /\ jobState' = [jobState EXCEPT ![jobStop.job] = [FreshJob EXCEPT !.present = FALSE, !.born = jobState[jobStop.job].born + 1]]
    /\ jobStop' = NotStopping
    /\ UNCHANGED <<jobChild, jobEvents, jobTimers, jobRestarts, jobOps>>

JobDrop ==
    /\ jobStop.job \in JobNames /\ jobStop.killed = "none"
    /\ jobState[jobStop.job].runs = {}
    /\ jobState' = [jobState EXCEPT ![jobStop.job] = [FreshJob EXCEPT !.present = FALSE, !.born = jobState[jobStop.job].born + 1]]
    /\ jobStop' = NotStopping
    /\ UNCHANGED <<jobChild, jobEvents, jobTimers, jobRestarts, jobOps>>

JobAdd(j) ==
    /\ JobLoop /\ ~jobState[j].present
    /\ jobState' = [jobState EXCEPT ![j].present = TRUE]
    /\ UNCHANGED <<jobChild, jobEvents, jobTimers, jobRestarts, jobStop, jobOps>>

JobEvent(r) == JobExitSeen(r) \/ JobTimeoutSeen(r) \/ JobRestartSeen(r)
JobStopping(r) == JobKill(r) \/ JobWaited(r)

(* What the daemon does of itself: the goroutine that waits for a command, *)
(* the timers and the app goroutine.  A command does not end of itself,    *)
(* and a restart need not return.                                          *)
JobStep ==
    \/ \E r \in JobRuns : JobFinished(r) \/ JobTimerFires(r) \/ JobEvent(r) \/ JobStopping(r)
    \/ JobDrop

JobNext ==
    \/ \E j \in JobNames :
         \/ \E r \in JobRuns : JobStart(j, r)
         \/ JobSkip(j) \/ JobStartFails(j) \/ JobRemove(j) \/ JobAdd(j)
    \/ \E r \in JobRuns : \/ \E fails \in BOOLEAN : JobRestarted(r, fails)
                         \/ \E exit \in {0, 1} : JobExits(r, exit)
    \/ JobStep

-----------------------------------------------------------------------------
(* properties *)

(* Every live command belongs to a job that is there and knows it, also    *)
(* across a rescan that removes the job and adds it again; and "with       *)
(* overlap false there is at most one".                                    *)
RunsTracked ==
    /\ \A r \in JobRuns : Alive(r) => Tracked(r) /\ jobState[jobChild[r].job].present
    /\ \A j \in JobNames \ Overlaps : Cardinality({r \in JobRuns : Alive(r) /\ jobChild[r].job = j}) <= 1

(* A failure stays visible: an idle job whose last run failed says why.    *)
FailureShown ==
    JobLoop => \A j \in JobNames : jobState[j].runs = {} /\ jobState[j].lastExit # 0 => jobState[j].lastError # NoError

(* A run that hangs is ended by the timeout its job has, or by a rescan    *)
(* that drops the job, whatever it raced with; a job without a timeout may *)
(* run for ever.  Once the restarts after a hook have all come back, the   *)
(* hook is idle in the end.                                                *)
RestartsOf(j) == {r \in jobRestarts : jobChild[r].job = j}
RunsEnd ==
    /\ \A r \in JobRuns : Alive(r) /\ jobChild[r].job \in Timed ~> ~Tracked(r)
    /\ \A j \in JobNames : jobStop.job = j ~> ~jobState[j].present
    /\ \A j \in JobHooks : jobState[j].restarting /\ RestartsOf(j) = {} ~>
                              ~jobState[j].restarting \/ RestartsOf(j) # {}

(* "A caller waiting for the deploy never sees the hook idle between the   *)
(* command and the restart."                                               *)
DeployNeverIdle ==
    \A r \in jobRestarts : LET state == jobState[jobChild[r].job] IN state.born = jobChild[r].born => state.restarting

(* A run belongs to its job, shows its failure and ends (cron.go).         *)
RunsKept == [](RunsTracked /\ FailureShown) /\ RunsEnd
=============================================================================
