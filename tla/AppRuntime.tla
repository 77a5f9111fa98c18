----------------------------- MODULE AppRuntime -----------------------------
(***************************************************************************)
(* The app goroutine of the supervisor (internal/supervisor: runtime.go,   *)
(* process.go, roll.go, instances.go).  One appRuntime owns the processes  *)
(* of one app: it takes requests and process events one at a time and      *)
(* changes its maps only there, while the operating system processes, the  *)
(* health monitors, the retire goroutines, the restart timers and the      *)
(* lifecycle steps run concurrently and report back through events.        *)
(*                                                                         *)
(* A handler that loops or calls a long tail of functions is a chain of    *)
(* steps joined by pc: while pc is not "idle" the goroutine is inside that *)
(* handler and takes no request and no event.  What moves outside it is    *)
(* only seen through events, so a move inside a handler is the same as one *)
(* right after it, and is modelled there.                                  *)
(***************************************************************************)
EXTENDS Naturals, FiniteSets

CONSTANTS
    Procs,        \* procfile entry names
    MaxCount,     \* bound: the largest instance count of an entry
    Specs,        \* app specs
    Restart,      \* restart policy of each entry
    MaxRestarts,  \* max_restarts of each entry
    Pids,         \* bound: process objects alive or still referenced at once
    MaxSlot,      \* bound: the highest slot number
    Updates,      \* the specs a rescan may install in place of each
    Ops,          \* the requests besides start that are made of an app of each spec
    Faults,       \* what goes wrong with its children: "die", "unhealthy"
    Targets,      \* what rolling restarts are asked for: names, or All
    Callers,      \* goroutines that may wait in Manager.Restart for a roll
    None          \* nil

(* An instance name: <<"web", 0>> is the bare name "web", <<"web", 2>> is   *)
(* "web.2".                                                                *)
Names == Procs \X (0..MaxCount)

Slots == 0..MaxSlot

(* What a roll is limited to: one name, or the whole app.                  *)
All == <<>>

Lifecycle == {"create", "start"}

SpecType == [cmds  : SUBSET Procs,            \* entries with a command
             web   : SUBSET Procs,            \* the ones with hosts
             count : [Procs -> 1..MaxCount],
             steps : SUBSET Lifecycle]

ASSUME NamesAssumption ==
    /\ MaxCount \in Nat \ {0}
    /\ MaxSlot \in Nat
    /\ None \notin Pids
    /\ Targets \subseteq Names \cup {All}

ASSUME InputsAssumption ==
    /\ Updates \in [Specs -> SUBSET Specs]
    /\ Ops \in [Specs -> SUBSET {"stop", "restart", "pstart", "pstop", "prestart", "roll"}]
    /\ Faults \in [Specs -> SUBSET {"die", "unhealthy"}]

ASSUME SpecsAssumption ==
    /\ Specs # {}
    /\ Specs \subseteq SpecType
    /\ \A s \in Specs : /\ s.web \subseteq s.cmds
                        /\ \A p \in Procs \ s.cmds : s.count[p] = 1

ASSUME RestartAssumption ==
    /\ Restart \in [Procs -> {"always", "on-failure", "never"}]
    /\ MaxRestarts \in [Procs -> Nat]

VARIABLES
    state,      \* a.state
    spec,       \* a.spec
    created,    \* a.created: the create step has succeeded once
    processes,  \* a.processes
    ready,      \* a.ready
    held,       \* a.held
    retiring,   \* a.retiring
    failures,   \* a.failures
    roll,       \* a.roll
    tab,        \* every process object, with the goroutines that belong to it
    job,        \* the run of each lifecycle step
    waiting,    \* the callers blocked in Manager.roll
    pc,         \* where the app goroutine is
    todo        \* the instances a start loop has yet to spawn

vars == <<state, spec, created, processes, ready, held, retiring, failures,
          roll, tab, job, waiting, pc, todo>>

-----------------------------------------------------------------------------
(* Process objects.  os is the child itself; exitEv says its exit event    *)
(* has not been consumed; mon is its monitor goroutine ("ready" and "fail" *)
(* are an event on its way); drain is its retire goroutine; timer the      *)
(* pending restart.                                                        *)

NoProcess == [inst |-> All, slot |-> 0, os |-> "none", code |-> "ok",
              exitEv |-> FALSE, mon |-> "off", drain |-> FALSE, timer |-> FALSE,
              released |-> FALSE]

(* A process no goroutine refers to any more is garbage.                   *)
Collect(r) ==
    IF r.os = "dead" /\ ~r.exitEv /\ r.mon = "off" /\ ~r.drain /\ ~r.timer
    THEN NoProcess ELSE r

(* release closes p.done, which ends a monitor that has no event underway. *)
(* The slot and the exit code of a released process are not read again.    *)
Released(r) ==
    Collect([r EXCEPT !.mon = IF @ \in {"probe", "live"} THEN "off" ELSE @,
                      !.slot = 0, !.code = "ok", !.released = TRUE])

Killed(r) ==
    IF r.os = "up" THEN [r EXCEPT !.os = "dead", !.code = "err"] ELSE r

(* killProcesses, and the loop of stopProcesses over retiring: every       *)
(* process of S is dead and released when the handler goes on.             *)
KillAndRelease(S) ==
    [p \in Pids |-> IF p \in S THEN Released(Killed(tab[p])) ELSE tab[p]]

Proc(name) == name[1]

(* instancesOf: an entry without a procfile line counts as one instance.   *)
InstancesOf(proc) ==
    IF spec.count[proc] = 1 THEN {<<proc, 0>>}
    ELSE {<<proc, k>> : k \in 1..spec.count[proc]}

wanted(name) == name \in InstancesOf(Proc(name))

Live == {processes[i] : i \in Names} \ {None}

knownInstances ==
    (UNION {InstancesOf(proc) : proc \in spec.cmds})
        \cup {i \in Names : processes[i] # None}

(* tracked: live, retiring, and the copy a roll is booting.                *)
tracked == Live \cup retiring \cup ({roll.current} \ {None})

(* freeSlot(proc) is the least slot of proc no process of T holds.         *)
Unused(proc, k, T) ==
    \A p \in T : Proc(tab[p].inst) = proc => tab[p].slot # k

(* Mutant: a slot is free as soon as no live process holds it.             *)
FreeSlotAmongLive(proc, k, T) ==
    /\ Unused(proc, k, T \cap Live)
    /\ \A j \in Slots : j < k => ~Unused(proc, j, T \cap Live)

FreeSlot(proc, k, T) ==
    /\ Unused(proc, k, T)
    /\ \A j \in Slots : j < k => ~Unused(proc, j, T)

webServing(proc, prs, rdy) ==
    \E i \in Names : Proc(i) = proc /\ prs[i] # None /\ i \in rdy

allWebReady(rdy) == \A w \in spec.web : webServing(w, processes, rdy)

(* resolve: the instances a process request names; {} is its error.        *)
resolve(name) ==
    IF name[2] = 0 /\ Proc(name) \in spec.cmds THEN InstancesOf(Proc(name))
    ELSE IF Proc(name) \in spec.cmds /\ name \in knownInstances THEN {name}
    ELSE {}

(* A spawned process: watched when spawn is followed by watch on a web one. *)
Spawned(name, k, watched) ==
    [NoProcess EXCEPT !.inst = name, !.slot = k, !.os = "up", !.exitEv = TRUE,
                      !.mon = IF watched THEN "probe" ELSE "off"]

(* spawn: the process object p sits in the first free slot of its entry.   *)
(* An unknown command, the port allocator, the port sweep, fork, the       *)
(* cgroup or the pid file may make it fail instead; see the actions.       *)
CanSpawn(name, p, k) ==
    /\ Proc(name) \in spec.cmds
    /\ tab[p] = NoProcess
    /\ FreeSlot(Proc(name), k, tracked)

IsWeb(name) == Proc(name) \in spec.web

-----------------------------------------------------------------------------
NoRoll == [on |-> FALSE, only |-> All, steps |-> {}, current |-> None,
           waiting |-> None, step |-> "none", again |-> FALSE,
           againOnly |-> All, done |-> {}, againDone |-> {}]

NewRoll(only, done) == [NoRoll EXCEPT !.on = TRUE, !.only = only, !.done = done]

Init ==
    /\ state = "stopped"
    /\ spec \in Specs
    /\ created = FALSE
    /\ processes = [i \in Names |-> None]
    /\ ready = {} /\ held = {} /\ retiring = {}
    /\ failures = [i \in Names |-> 0]
    /\ roll = NoRoll
    /\ tab = [p \in Pids |-> NoProcess]
    /\ job = [s \in Lifecycle |-> "idle"]
    /\ waiting = {}
    /\ pc = "idle"
    /\ todo = {}

(* failStart: stopProcesses, then Crashed.  It does not touch the roll.    *)
FailStart ==
    /\ tab' = KillAndRelease(Live \cup retiring)
    /\ processes' = [i \in Names |-> None]
    /\ retiring' = {}
    /\ state' = "crashed"

-----------------------------------------------------------------------------
(* start *)

(* requestStart.                                                           *)
ReqStart ==
    /\ pc = "idle"
    /\ pc' = "launch"
    /\ UNCHANGED <<state, spec, created, processes, ready, held, retiring,
                   failures, roll, tab, job, waiting, todo>>

(* Mutant: the ready marks of the last run survive.                        *)
StartKeepsReady ==
    /\ pc = "launch"
    /\ IF state \in {"running", "starting"}
       THEN pc' = "idle" /\ UNCHANGED <<state, failures, held, retiring>>
       ELSE /\ failures' = [i \in Names |-> 0]
            /\ held' = {} /\ retiring' = {}
            /\ state' = "starting"
            /\ pc' = "create"
    /\ UNCHANGED <<spec, created, processes, ready, roll, tab, job, waiting, todo>>

start ==
    /\ pc = "launch"
    /\ IF state \in {"running", "starting"}
       THEN /\ pc' = "idle"
            /\ UNCHANGED <<state, failures, ready, held, retiring>>
       ELSE /\ failures' = [i \in Names |-> 0]
            /\ ready' = {} /\ held' = {} /\ retiring' = {}
            /\ state' = "starting"
            /\ pc' = "create"
    /\ UNCHANGED <<spec, created, processes, roll, tab, job, waiting, todo>>

(* Mutant: the loop over the instances of an entry runs one too far.       *)
StartSetOneMore == UNION {{<<proc, k>> : k \in 1..(spec.count[proc] + 1)} : proc \in spec.cmds}

(* startOrder, without the order among the instances of one kind.          *)
StartSet == UNION {InstancesOf(proc) : proc \in spec.cmds}

(* continueStart: pc is the next step to consider.  startJob refuses a     *)
(* step whose previous run still goes, and may fail to start it.           *)
StepDue == pc \in spec.steps /\ (pc = "create" => ~created)

continueStart ==
    /\ pc \in Lifecycle
    /\ \/ /\ ~StepDue
          /\ pc' = IF pc = "create" THEN "start" ELSE "spawn"
          /\ todo' = IF pc = "create" THEN {} ELSE StartSet
          /\ UNCHANGED <<job, tab, processes, retiring, state>>
       \/ /\ StepDue
          /\ job[pc] = "idle"
          /\ job' = [job EXCEPT ![pc] = "run"]
          /\ pc' = "idle"
          /\ UNCHANGED <<tab, processes, retiring, state, todo>>
       \/ /\ StepDue
          /\ FailStart
          /\ pc' = "idle"
          /\ UNCHANGED <<job, todo>>
    /\ UNCHANGED <<spec, created, ready, held, failures, roll, waiting>>

(* jobExited and stepExited: a create or start step has exited.            *)
StepExit(s) ==
    /\ pc = "idle"
    /\ job[s] \in {"ok", "err"}
    /\ job' = [job EXCEPT ![s] = "idle"]
    /\ IF s = "start" /\ roll.step = "runs"
       THEN \* rollStepDone
            /\ roll' = [roll EXCEPT !.step = "none"]
            /\ pc' = IF job[s] = "ok" THEN "plan" ELSE "abort"
            /\ UNCHANGED <<state, created, processes, retiring, tab, todo>>
       ELSE /\ UNCHANGED roll
            /\ IF state # "starting"
               THEN /\ pc' = pc
                    /\ UNCHANGED <<state, created, processes, retiring, tab, todo>>
               ELSE IF job[s] = "err"
               THEN FailStart /\ pc' = pc /\ UNCHANGED <<created, todo>>
               ELSE /\ created' = (created \/ s = "create")
                    /\ pc' = IF s = "create" THEN "start" ELSE "spawn"
                    /\ todo' = IF s = "create" THEN {} ELSE StartSet
                    /\ UNCHANGED <<state, processes, retiring, tab>>
    /\ UNCHANGED <<spec, ready, held, failures, waiting>>

(* spawnAll, one instance at a time, every web process first.              *)
spawnAll ==
    /\ pc = "spawn"
    /\ \E i \in todo :
        /\ IsWeb(i) \/ \A j \in todo : ~IsWeb(j)
        /\ \/ \E p \in Pids, k \in Slots :
                /\ CanSpawn(i, p, k)
                /\ tab' = [tab EXCEPT ![p] = Spawned(i, k, FALSE)]
                /\ processes' = [processes EXCEPT ![i] = p]
                /\ todo' = todo \ {i}
                /\ UNCHANGED <<state, retiring, pc>>
           \/ FailStart /\ todo' = {} /\ pc' = "idle"
    /\ UNCHANGED <<spec, created, ready, held, failures, roll, job, waiting>>

(* spawnAll's tail: a workers-only app runs; web processes are watched.    *)
(* A copy left from before the start gets a second monitor: it is probed   *)
(* again.                                                                  *)
spawnedAll ==
    /\ pc = "spawn" /\ todo = {}
    /\ state' = IF spec.web = {} THEN "running" ELSE state
    /\ tab' = [p \in Pids |-> IF p \in Live /\ IsWeb(tab[p].inst)
                              THEN [tab[p] EXCEPT !.mon = "probe"] ELSE tab[p]]
    /\ pc' = "idle"
    /\ UNCHANGED <<spec, created, processes, ready, held, retiring, failures,
                   roll, job, waiting, todo>>

-----------------------------------------------------------------------------
(* stop *)

(* stop(): kill the lifecycle steps, abort the roll, kill every process.   *)
(* Stopping is only held inside this handler, where no one can see it.     *)
Stop ==
    IF state = "stopped"
    THEN UNCHANGED <<state, processes, retiring, roll, tab, job, waiting>>
    ELSE /\ state' = "stopped"
         /\ job' = [s \in Lifecycle |-> "idle"]
         /\ roll' = NoRoll
         /\ waiting' = waiting \ (roll.done \cup roll.againDone)
         /\ tab' = KillAndRelease(tracked)
         /\ processes' = [i \in Names |-> None]
         /\ retiring' = {}

(* requestStop, and requestIdle once idle_stop has passed.                 *)
ReqStop ==
    /\ pc = "idle"
    /\ Stop
    /\ UNCHANGED <<spec, created, ready, held, failures, pc, todo>>

(* requestRestart: stop, then start.                                       *)
ReqRestart ==
    /\ pc = "idle"
    /\ Stop
    /\ pc' = "launch"
    /\ UNCHANGED <<spec, created, ready, held, failures, todo>>

-----------------------------------------------------------------------------
(* one process *)

(* Mutant: the app reads as stopped although others of its processes run.  *)
StopProcessStopsApp(S, hold) ==
    /\ held' = IF hold THEN held \cup S ELSE held
    /\ ready' = ready \ S
    /\ tab' = KillAndRelease({processes[i] : i \in S} \ {None})
    /\ processes' = [i \in Names |-> IF i \in S THEN None ELSE processes[i]]
    /\ state' = IF hold /\ state \in {"running", "starting"} THEN "stopped" ELSE state

(* stopProcess(name, hold) *)
StopProcess(S, hold) ==
    /\ held' = IF hold THEN held \cup S ELSE held
    /\ ready' = ready \ S
    /\ tab' = KillAndRelease({processes[i] : i \in S} \ {None})
    /\ processes' = [i \in Names |-> IF i \in S THEN None ELSE processes[i]]
    /\ state' = IF /\ hold
                   /\ \A i \in Names : processes'[i] = None
                   /\ state \in {"running", "starting"}
                THEN "stopped" ELSE state

ReqProcessStop(name) ==
    /\ pc = "idle"
    /\ resolve(name) # {}
    /\ StopProcess(resolve(name), TRUE)
    /\ UNCHANGED <<spec, created, retiring, failures, roll, job, waiting, pc, todo>>

ReqProcessStart(name) ==
    /\ pc = "idle"
    /\ resolve(name) # {}
    /\ state \in {"running", "starting"}
    /\ todo' = resolve(name)
    /\ pc' = "pstart"
    /\ UNCHANGED <<state, spec, created, processes, ready, held, retiring,
                   failures, roll, tab, job, waiting>>

(* Manager.RestartProcess falls back to this when a roll does not apply.   *)
ReqProcessRestart(name) ==
    /\ pc = "idle"
    /\ resolve(name) # {}
    /\ StopProcess(resolve(name), FALSE)
    /\ IF state \in {"running", "starting"}
       THEN todo' = resolve(name) /\ pc' = "pstart"
       ELSE UNCHANGED <<todo, pc>>
    /\ UNCHANGED <<spec, created, retiring, failures, roll, job, waiting>>

(* startProcess, one instance at a time.                                   *)
startProcess ==
    /\ pc = "pstart"
    /\ \E i \in todo :
        /\ held' = held \ {i}
        /\ \/ /\ processes[i] # None
              /\ todo' = todo \ {i}
              /\ UNCHANGED <<state, processes, retiring, failures, tab>>
           \/ /\ processes[i] = None
              /\ failures' = [failures EXCEPT ![i] = 0]
              /\ \/ \E p \in Pids, k \in Slots :
                      /\ CanSpawn(i, p, k)
                      /\ tab' = [tab EXCEPT ![p] = Spawned(i, k, IsWeb(i))]
                      /\ processes' = [processes EXCEPT ![i] = p]
                      /\ todo' = todo \ {i}
                      /\ UNCHANGED <<state, retiring>>
                 \/ FailStart /\ todo' = {}
    /\ pc' = IF todo' = {} THEN "idle" ELSE pc
    /\ UNCHANGED <<spec, created, ready, roll, job, waiting>>

(* requestUpdate: a rescan installs a new spec; syncLifecycle kills the    *)
(* run of a step the new spec no longer has and forgets the step, also the *)
(* one a roll waits for.                                                   *)
ReqUpdate(s) ==
    /\ pc = "idle"
    /\ spec' = s
    /\ job' = [x \in Lifecycle |-> IF x \in s.steps THEN job[x] ELSE "idle"]
    /\ roll' = IF roll.step = "runs" /\ "start" \notin s.steps
               THEN [roll EXCEPT !.step = "lost"] ELSE roll
    /\ UNCHANGED <<state, created, processes, ready, held, retiring, failures,
                   tab, waiting, pc, todo>>

-----------------------------------------------------------------------------
(* rolling restart *)

(* requestRoll from Manager.roll: caller c waits for the outcome.  A roll  *)
(* in flight runs once more afterwards.                                    *)
CanRoll(only) ==
    /\ state = "running"
    /\ spec.web # {}
    /\ only # All => /\ resolve(only) # {}
                     /\ Proc(only) \in spec.web

beginRoll(c, only) ==
    /\ pc = "idle"
    /\ c \notin waiting
    /\ CanRoll(only)
    /\ waiting' = waiting \cup {c}
    /\ IF roll.on
       THEN /\ roll' = [roll EXCEPT
                          !.againOnly = IF ~roll.again \/ @ = only THEN only ELSE All,
                          !.again = TRUE,
                          !.againDone = @ \cup {c}]
            /\ UNCHANGED pc
       ELSE /\ roll' = NewRoll(only, {c})
            /\ pc' = "begin"
    /\ UNCHANGED <<state, spec, created, processes, ready, held, retiring,
                   failures, tab, job, todo>>

(* Mutant: the roll forgets that it waits for the start step.              *)
RunRollForgetsStep ==
    /\ pc = "begin"
    /\ IF "start" \in spec.steps /\ roll.only = All
       THEN /\ job["start"] = "idle"
            /\ job' = [job EXCEPT !["start"] = "run"]
            /\ pc' = "idle"
       ELSE pc' = "plan" /\ UNCHANGED job
    /\ UNCHANGED <<state, spec, created, processes, ready, held, retiring,
                   failures, roll, tab, waiting, todo>>

(* runRoll: the start step first when the whole app rolls.                 *)
runRoll ==
    /\ pc = "begin"
    /\ IF "start" \in spec.steps /\ roll.only = All
       THEN \/ /\ job["start"] = "idle"
               /\ job' = [job EXCEPT !["start"] = "run"]
               /\ roll' = [roll EXCEPT !.step = "runs"]
               /\ pc' = "idle"
            \/ pc' = "abort" /\ UNCHANGED <<job, roll>>
       ELSE pc' = "plan" /\ UNCHANGED <<job, roll>>
    /\ UNCHANGED <<state, spec, created, processes, ready, held, retiring,
                   failures, tab, waiting, todo>>

(* planRoll *)
Matches(name) ==
    \/ roll.only = All
    \/ roll.only = name
    \/ roll.only = <<Proc(name), 0>>

ReplaceSet == {i \in UNION {InstancesOf(w) : w \in spec.web} : Matches(i)}
WorkerSet  == IF roll.only = All
              THEN UNION {InstancesOf(q) : q \in spec.cmds \ spec.web} ELSE {}
RetireSet  == {i \in knownInstances : processes[i] # None /\ ~wanted(i) /\ Matches(i)}

planRoll ==
    /\ pc = "plan"
    /\ held' = held \ (ReplaceSet \cup WorkerSet)
    /\ roll' = [roll EXCEPT !.steps = (ReplaceSet \X {"replace"})
                                 \cup (WorkerSet \X {"worker"})
                                 \cup (RetireSet \X {"retire"})]
    /\ pc' = "advance"
    /\ UNCHANGED <<state, spec, created, processes, ready, retiring, failures,
                   tab, job, waiting, todo>>

(* Mutant: surplus copies are retired before their replacements are up.    *)
RankRetireFirst(kind) == IF kind = "retire" THEN 1 ELSE IF kind = "replace" THEN 2 ELSE 3

(* Replacements come before workers, workers before surplus copies.        *)
Rank(kind) == IF kind = "replace" THEN 1 ELSE IF kind = "worker" THEN 2 ELSE 3

NextSteps == {s \in roll.steps : \A t \in roll.steps : Rank(s[2]) <= Rank(t[2])}

(* retire: p leaves the route and its drain goroutine takes over.          *)
Retiring(r) == [r EXCEPT !.drain = TRUE]

(* Mutant: the retired process stays in the map.                           *)
RetireKeepsEntry(i) ==
    /\ tab' = [tab EXCEPT ![processes[i]] = Retiring(@)]
    /\ retiring' = retiring \cup {processes[i]}
    /\ ready' = ready \ {i}
    /\ UNCHANGED processes

retire(i) ==
    /\ tab' = [tab EXCEPT ![processes[i]] = Retiring(@)]
    /\ retiring' = retiring \cup {processes[i]}
    /\ processes' = [processes EXCEPT ![i] = None]
    /\ ready' = ready \ {i}

(* advanceRoll: one iteration of its loop.                                 *)
stepRetire(s) ==
    /\ s[2] = "retire"
    /\ roll' = [roll EXCEPT !.steps = @ \ {s}]
    /\ IF processes[s[1]] # None
       THEN retire(s[1])
       ELSE UNCHANGED <<tab, retiring, processes, ready>>
    /\ UNCHANGED <<state, pc>>

stepWorker(s) ==
    /\ s[2] = "worker"
    /\ \/ /\ processes[s[1]] # None
          /\ retire(s[1])
          /\ roll' = [roll EXCEPT !.steps = @ \ {s}, !.waiting = processes[s[1]]]
          /\ pc' = "idle"
          /\ UNCHANGED state
       \/ /\ processes[s[1]] = None
          /\ \E p \in Pids, k \in Slots :
               /\ CanSpawn(s[1], p, k)
               /\ tab' = [tab EXCEPT ![p] = Spawned(s[1], k, FALSE)]
               /\ processes' = [processes EXCEPT ![s[1]] = p]
          /\ roll' = [roll EXCEPT !.steps = @ \ {s}]
          /\ UNCHANGED <<state, retiring, ready, pc>>
       \/ /\ processes[s[1]] = None
          /\ FailStart
          /\ roll' = [roll EXCEPT !.steps = @ \ {s}]
          /\ pc' = "finish"
          /\ UNCHANGED ready

(* Mutant: the new copy is not handed to its monitor.                      *)
StepReplaceUnwatched(s) ==
    /\ s[2] = "replace"
    /\ \E p \in Pids, k \in Slots :
         /\ CanSpawn(s[1], p, k)
         /\ tab' = [tab EXCEPT ![p] = Spawned(s[1], k, FALSE)]
         /\ roll' = [roll EXCEPT !.steps = @ \ {s}, !.current = p]
         /\ pc' = "idle"
    /\ UNCHANGED <<state, processes, retiring, ready>>

stepReplace(s) ==
    /\ s[2] = "replace"
    /\ \/ \E p \in Pids, k \in Slots :
            /\ CanSpawn(s[1], p, k)
            /\ tab' = [tab EXCEPT ![p] = Spawned(s[1], k, IsWeb(s[1]))]
            /\ roll' = [roll EXCEPT !.steps = @ \ {s}, !.current = p]
            /\ pc' = "idle"
       \/ /\ roll' = [roll EXCEPT !.steps = @ \ {s}]
          /\ pc' = "abort"
          /\ UNCHANGED tab
    /\ UNCHANGED <<state, processes, retiring, ready>>

advanceRoll ==
    /\ pc = "advance"
    /\ \/ \E s \in NextSteps : stepRetire(s) \/ stepWorker(s) \/ stepReplace(s)
       \/ /\ roll.steps = {}
          /\ pc' = "finish"
          /\ UNCHANGED <<state, processes, ready, retiring, roll, tab>>
    /\ UNCHANGED <<spec, created, held, failures, job, waiting, todo>>

(* abortRoll: kill the copy still booting, drop the restart asked for      *)
(* meanwhile; the old copies keep serving.                                 *)
abortRoll ==
    /\ pc = "abort"
    /\ tab' = KillAndRelease({roll.current} \ {None})
    /\ roll' = [roll EXCEPT !.current = None, !.again = FALSE]
    /\ pc' = "finish"
    /\ UNCHANGED <<state, spec, created, processes, ready, held, retiring,
                   failures, job, waiting, todo>>

(* Mutant: a roll that does not run again leaves its callers waiting.      *)
FinishForgets ==
    /\ pc = "finish"
    /\ waiting' = waiting \ roll.done
    /\ IF roll.again /\ state = "running"
       THEN roll' = NewRoll(roll.againOnly, roll.againDone) /\ pc' = "begin"
       ELSE roll' = NoRoll /\ pc' = "idle"
    /\ UNCHANGED <<state, spec, created, processes, ready, held, retiring,
                   failures, tab, job, todo>>

(* finishRoll: answer the callers; run the restart asked for meanwhile.    *)
finishRoll ==
    /\ pc = "finish"
    /\ IF roll.again /\ state = "running"
       THEN /\ waiting' = waiting \ roll.done
            /\ roll' = NewRoll(roll.againOnly, roll.againDone)
            /\ pc' = "begin"
       ELSE /\ waiting' = waiting \ (roll.done \cup roll.againDone)
            /\ roll' = NoRoll
            /\ pc' = "idle"
    /\ UNCHANGED <<state, spec, created, processes, ready, held, retiring,
                   failures, tab, job, todo>>

-----------------------------------------------------------------------------
(* events *)

(* "ready", for the copy a roll boots (rollEvent) or a live process; one   *)
(* from a process no longer tracked is dropped.                            *)
Ready(p) ==
    LET i == tab[p].inst IN
    /\ pc = "idle"
    /\ tab[p].mon = "ready"
    /\ \/ /\ roll.current = p
          /\ tab' = [q \in Pids |->
                       IF q = p THEN Collect([tab[p] EXCEPT !.mon = "live"])
                       ELSE IF q = processes[i] THEN Retiring(tab[q]) ELSE tab[q]]
          /\ retiring' = retiring \cup ({processes[i]} \ {None})
          /\ processes' = [processes EXCEPT ![i] = p]
          /\ ready' = ready \cup {i}
          /\ failures' = [failures EXCEPT ![i] = 0]
          /\ roll' = [roll EXCEPT !.current = None]
          /\ pc' = "advance"
          /\ UNCHANGED state
       \/ /\ roll.current # p
          /\ IF processes[i] = p
             THEN /\ tab' = [tab EXCEPT ![p].mon = "live"]
                  /\ ready' = ready \cup {i}
                  /\ state' = IF state = "starting" /\ allWebReady(ready')
                              THEN "running" ELSE state
             ELSE /\ tab' = [tab EXCEPT ![p] =
                       Collect([@ EXCEPT !.mon = IF tab[p].released THEN "off" ELSE "live"])]
                  /\ UNCHANGED <<state, ready>>
          /\ UNCHANGED <<processes, retiring, failures, roll, pc>>
    /\ UNCHANGED <<spec, created, held, job, waiting, todo>>

(* "health-failed": the process is killed, and its exit follows.           *)
HealthFailed(p) ==
    /\ pc = "idle"
    /\ tab[p].mon = "fail"
    /\ tab' = [tab EXCEPT ![p] =
                 IF p \in Live \/ roll.current = p
                 THEN Killed([@ EXCEPT !.mon = "off"])
                 ELSE Collect([@ EXCEPT !.mon = "off"])]
    /\ UNCHANGED <<state, spec, created, processes, ready, held, retiring,
                   failures, roll, job, waiting, pc, todo>>

shouldRestart(p) ==
    \/ Restart[Proc(tab[p].inst)] = "always"
    \/ Restart[Proc(tab[p].inst)] = "on-failure" /\ tab[p].code = "err"

(* processExited: long says it had been up for restartReset or more.  The  *)
(* failure count is only compared with max_restarts, so it stops there.    *)
processExited(p, long) ==
    LET i     == tab[p].inst
        gone  == [processes EXCEPT ![i] = None]
        idle  == state = "stopped" \/ i \in held
        again == ~idle /\ shouldRestart(p)
        web   == IsWeb(i)
        last  == web /\ ~webServing(Proc(i), gone, ready \ {i})
        base  == IF long THEN 0 ELSE failures[i]
        count == IF base < MaxRestarts[Proc(i)] THEN base + 1 ELSE base
        over  == again /\ count >= MaxRestarts[Proc(i)]
        away  == Released([tab[p] EXCEPT !.exitEv = FALSE, !.timer = again /\ ~over])
    IN
    /\ ready' = ready \ {i}
    /\ failures' = IF idle THEN failures
                   ELSE [failures EXCEPT ![i] = IF again THEN count
                                                ELSE IF long THEN 0 ELSE @]
    /\ IF over
       THEN \* failStart
            /\ tab' = [KillAndRelease((Live \cup retiring) \ {p}) EXCEPT ![p] = away]
            /\ processes' = [n \in Names |-> None]
            /\ retiring' = {}
            /\ state' = "crashed"
       ELSE /\ tab' = [tab EXCEPT ![p] = away]
            /\ processes' = gone
            /\ UNCHANGED retiring
            /\ state' = IF idle THEN state
                        ELSE IF again THEN (IF last THEN "starting" ELSE state)
                        ELSE IF web THEN (IF last THEN "crashed" ELSE state)
                        ELSE IF \A n \in Names : gone[n] = None THEN "stopped" ELSE state

(* "exit" of the copy a roll boots: rollEvent aborts the roll.             *)
RollExit(p) ==
    /\ tab' = [tab EXCEPT ![p] = Released([@ EXCEPT !.exitEv = FALSE])]
    /\ roll' = [roll EXCEPT !.current = None]
    /\ pc' = "abort"
    /\ UNCHANGED <<state, processes, ready, retiring, failures>>

Exit(p) ==
    /\ pc = "idle"
    /\ tab[p].os = "dead" /\ tab[p].exitEv
    /\ \/ roll.current = p /\ RollExit(p)
       \/ /\ roll.current # p /\ p \in Live
          /\ \E long \in BOOLEAN : processExited(p, long)
          /\ UNCHANGED <<roll, pc>>
       \/ /\ roll.current # p /\ p \notin Live
          /\ tab' = [tab EXCEPT ![p] = Collect([@ EXCEPT !.exitEv = FALSE])]
          /\ UNCHANGED <<state, processes, ready, retiring, failures, roll, pc>>
    /\ UNCHANGED <<spec, created, held, job, waiting, todo>>

(* Mutant: the last web copy to exit, which left the app starting, is not  *)
(* brought back.                                                           *)
ReplaceableWhenRunning(i) ==
    state = "running" /\ processes[i] = None /\ i \notin held /\ wanted(i)

(* An exited instance is started again unless the app went down, someone   *)
(* else started it, or it was stopped by hand or scaled away meanwhile.    *)
Replaceable(i) ==
    /\ state \in {"running", "starting"}
    /\ processes[i] = None /\ i \notin held /\ wanted(i)

(* "restart": the backoff of an exited process is over.                    *)
RestartDue(p) ==
    LET i == tab[p].inst
        after == [tab EXCEPT ![p] = Collect([@ EXCEPT !.timer = FALSE])]
        due == Replaceable(i)
    IN
    /\ pc = "idle"
    /\ tab[p].timer
    /\ \/ /\ ~due
          /\ tab' = after
          /\ UNCHANGED <<state, processes, retiring>>
       \/ /\ due
          /\ \E q \in Pids \ {p}, k \in Slots :
               /\ CanSpawn(i, q, k)
               /\ tab' = [after EXCEPT ![q] = Spawned(i, k, IsWeb(i))]
               /\ processes' = [processes EXCEPT ![i] = q]
          /\ UNCHANGED <<state, retiring>>
       \/ /\ due
          /\ tab' = [q \in Pids |-> IF q \in Live \cup retiring
                                    THEN Released(Killed(after[q])) ELSE after[q]]
          /\ processes' = [n \in Names |-> None]
          /\ retiring' = {}
          /\ state' = "crashed"
    /\ UNCHANGED <<spec, created, ready, held, failures, roll, job, waiting, pc, todo>>

(* "retired": release the process; the worker a roll waited for comes back. *)
Retired(p) ==
    LET i == tab[p].inst
        after == [tab EXCEPT ![p] = Released([@ EXCEPT !.drain = FALSE])]
        mine == roll.on /\ roll.waiting = p
        respawn == mine /\ processes[i] = None /\ wanted(i)
    IN
    /\ pc = "idle"
    /\ tab[p].os = "dead" /\ tab[p].drain
    /\ \/ /\ ~respawn
          /\ tab' = after
          /\ retiring' = retiring \ {p}
          /\ roll' = IF mine THEN [roll EXCEPT !.waiting = None] ELSE roll
          /\ pc' = IF mine THEN "advance" ELSE "idle"
          /\ UNCHANGED <<state, processes>>
       \/ /\ respawn
          /\ \E q \in Pids \ {p}, k \in Slots :
               /\ Proc(i) \in spec.cmds
               /\ tab[q] = NoProcess
               /\ FreeSlot(Proc(i), k, tracked \ {p})
               /\ tab' = [after EXCEPT ![q] = Spawned(i, k, FALSE)]
               /\ processes' = [processes EXCEPT ![i] = q]
          /\ retiring' = retiring \ {p}
          /\ roll' = [roll EXCEPT !.waiting = None]
          /\ pc' = "advance"
          /\ UNCHANGED state
       \/ /\ respawn
          /\ tab' = [q \in Pids |-> IF q \in (Live \cup retiring) \ {p}
                                    THEN Released(Killed(after[q])) ELSE after[q]]
          /\ processes' = [n \in Names |-> None]
          /\ retiring' = {}
          /\ state' = "crashed"
          /\ roll' = [roll EXCEPT !.waiting = None]
          /\ pc' = "finish"
    /\ UNCHANGED <<spec, created, ready, held, failures, job, waiting, todo>>

-----------------------------------------------------------------------------
(* outside the app goroutine; see above for pc *)

(* A child exits, with success or failure or killed by the system; only    *)
(* the policy on-failure tells them apart.                                 *)
Die(p) ==
    /\ pc = "idle"
    /\ "die" \in Faults[spec]
    /\ tab[p].os = "up"
    /\ \E c \in {"ok", "err"} :
         /\ c = "err" \/ Restart[Proc(tab[p].inst)] = "on-failure"
         /\ tab' = [tab EXCEPT ![p].os = "dead", ![p].code = c]
    /\ UNCHANGED <<state, spec, created, processes, ready, held, retiring,
                   failures, roll, job, waiting, pc, todo>>

(* The goroutine retire started signals the process, and kills it.         *)
RetireKill(p) ==
    /\ pc = "idle"
    /\ tab[p].drain /\ tab[p].os = "up"
    /\ tab' = [tab EXCEPT ![p] = Killed(@)]
    /\ UNCHANGED <<state, spec, created, processes, ready, held, retiring,
                   failures, roll, job, waiting, pc, todo>>

(* monitor, before readiness: the check passes, or health_timeout is over. *)
Probe(p) ==
    /\ pc = "idle"
    /\ tab[p].mon = "probe"
    /\ \/ tab[p].os = "up" /\ tab' = [tab EXCEPT ![p].mon = "ready"]
       \/ "unhealthy" \in Faults[spec] /\ tab' = [tab EXCEPT ![p].mon = "fail"]
    /\ UNCHANGED <<state, spec, created, processes, ready, held, retiring,
                   failures, roll, job, waiting, pc, todo>>

(* monitor, after readiness: unhealthy_threshold checks in a row failed.   *)
Unhealthy(p) ==
    /\ pc = "idle"
    /\ "unhealthy" \in Faults[spec]
    /\ tab[p].mon = "live"
    /\ tab' = [tab EXCEPT ![p].mon = "fail"]
    /\ UNCHANGED <<state, spec, created, processes, ready, held, retiring,
                   failures, roll, job, waiting, pc, todo>>

(* A lifecycle step exits or is killed by its timeout.                     *)
JobExit(s) ==
    /\ pc = "idle"
    /\ job[s] = "run"
    /\ \E r \in {"ok", "err"} : job' = [job EXCEPT ![s] = r]
    /\ UNCHANGED <<state, spec, created, processes, ready, held, retiring,
                   failures, roll, tab, waiting, pc, todo>>

-----------------------------------------------------------------------------
Request ==
    \/ ReqStart
    \/ "stop" \in Ops[spec] /\ ReqStop
    \/ "restart" \in Ops[spec] /\ ReqRestart
    \/ \E n \in Names :
          \/ "pstart" \in Ops[spec] /\ ReqProcessStart(n)
          \/ "pstop" \in Ops[spec] /\ ReqProcessStop(n)
          \/ "prestart" \in Ops[spec] /\ ReqProcessRestart(n)
    \/ \E c \in Callers, o \in Targets : "roll" \in Ops[spec] /\ beginRoll(c, o)
    \/ \E s \in Updates[spec] : ReqUpdate(s)

(* The goroutine goes on with the handler it is in.                        *)
Continue ==
    \/ start \/ continueStart \/ spawnAll \/ spawnedAll \/ startProcess
    \/ runRoll \/ planRoll \/ advanceRoll \/ abortRoll \/ finishRoll

Event ==
    \/ \E s \in Lifecycle : StepExit(s)
    \/ \E p \in Pids : Ready(p) \/ HealthFailed(p) \/ Exit(p) \/ RestartDue(p) \/ Retired(p)

World ==
    \/ \E p \in Pids : Die(p) \/ RetireKill(p) \/ Probe(p) \/ Unhealthy(p)
    \/ \E s \in Lifecycle : JobExit(s)

Next == Request \/ Continue \/ Event \/ World

Spec == Init /\ [][Next]_vars

(* The goroutine goes on with its handler.  Monitors, retire goroutines    *)
(* and lifecycle steps have timeouts, and select takes a ready channel at  *)
(* random, so none of them and no event is put off for ever; only the ones *)
(* a roll waits for matter here, and nothing obliges a user to ask.        *)
Fairness ==
    /\ WF_vars(Continue)
    /\ SF_vars(\E p \in Pids \cap {roll.current} :
                  Probe(p) \/ Ready(p) \/ HealthFailed(p) \/ Exit(p))
    /\ SF_vars(\E p \in Pids \cap {roll.waiting} : RetireKill(p) \/ Retired(p))
    /\ SF_vars(JobExit("start") \/ StepExit("start"))

FairSpec == Spec /\ Fairness

-----------------------------------------------------------------------------
(* properties *)

RollType ==
    [on : BOOLEAN, only : Names \cup {All},
     steps : SUBSET (Names \X {"replace", "worker", "retire"}),
     current : Pids \cup {None}, waiting : Pids \cup {None},
     step : {"none", "runs", "lost"},
     again : BOOLEAN, againOnly : Names \cup {All},
     done : SUBSET Callers, againDone : SUBSET Callers]

ProcessType ==
    [inst : Names \cup {All}, slot : Slots, os : {"none", "up", "dead"},
     code : {"ok", "err"}, exitEv : BOOLEAN,
     mon : {"off", "probe", "ready", "live", "fail"},
     drain : BOOLEAN, timer : BOOLEAN, released : BOOLEAN]

FailureType == {f \in [Names -> Nat] : \A i \in Names : f[i] <= MaxRestarts[Proc(i)]}

(* The runtime's maps hold what their declarations say.                    *)
TypeOK ==
    /\ state \in {"stopped", "starting", "running", "crashed"}
    /\ spec \in Specs
    /\ created \in BOOLEAN
    /\ processes \in [Names -> Pids \cup {None}]
    /\ ready \subseteq Names /\ held \subseteq Names
    /\ retiring \subseteq Pids
    /\ failures \in FailureType
    /\ roll \in RollType
    /\ tab \in [Pids -> ProcessType]
    /\ job \in [Lifecycle -> {"idle", "run", "ok", "err"}]
    /\ waiting \subseteq Callers
    /\ pc \in {"idle", "launch", "create", "start", "spawn", "pstart",
               "begin", "plan", "advance", "abort", "finish"}
    /\ todo \subseteq Names

(* Two processes the runtime tracks never sit in the same slot, which owns *)
(* the port, the cgroup and the pid file: freeSlot must see every copy a   *)
(* roll boots or drains next to the live ones.                             *)
SlotsDistinct ==
    \A p, q \in Live \cup retiring \cup ({roll.current} \ {None}) :
        /\ p # q
        /\ Proc(tab[p].inst) = Proc(tab[q].inst)
        => tab[p].slot # tab[q].slot

(* A process is live under its own name, retiring, or the booting copy of  *)
(* the roll, never two of these: the swap of a roll hands it over whole,   *)
(* so release drops it from the one place it is in.                        *)
TrackedOnce ==
    /\ \A i \in Names : processes[i] # None => tab[processes[i]].inst = i
    /\ Live \cap retiring = {}
    /\ roll.current # None => roll.current \notin Live \cup retiring

(* A caller blocked in Manager.roll is in a done list of the roll in       *)
(* flight, and only such callers are: no path out of a roll (finish, abort, *)
(* stop, the roll asked for meanwhile) forgets one or answers it twice.    *)
WaitersHeld ==
    /\ roll.done \cap roll.againDone = {}
    /\ roll.done \cup roll.againDone = waiting

(* No path of a roll leaves it waiting for nothing: while the goroutine is *)
(* idle, what the roll waits for is still going to report, be it the start *)
(* step, the copy that boots and is monitored, or the retire goroutine of  *)
(* a worker.  This is why a caller of Manager.Restart gets its answer.  It *)
(* is stated for apps whose rescans keep the set of web entries and of     *)
(* lifecycle steps.                                                        *)
SteadyShape ==
    \A s \in Specs : \A t \in Updates[s] : s.web = t.web /\ s.steps = t.steps

RollWaitsForEvent ==
    \/ roll.step = "runs" /\ job["start"] # "idle"
    \/ /\ roll.current # None
       /\ tab[roll.current].exitEv
       /\ tab[roll.current].os = "dead" \/ tab[roll.current].mon # "off"
    \/ roll.waiting # None /\ tab[roll.waiting].drain

RollDriven ==
    SteadyShape /\ roll.on /\ pc = "idle" => RollWaitsForEvent

(* Every caller of Manager.Restart is answered: by the end of the roll,    *)
(* its abort, a stop, or the roll asked for meanwhile.                     *)
RollAnswered ==
    \A c \in Callers : c \in waiting ~> c \notin waiting

(* A copy counts as ready, and publishRoutes routes requests to it, only   *)
(* after its own readiness check: the mark of a copy that died or was      *)
(* replaced is never inherited by its successor, whatever late events are  *)
(* still on their way.  That takes two things the code does not see to     *)
(* (ReadyPassed, below, leaves them out): no roll goes on in an app that   *)
(* is down, and a start whose steps are through finds no copy serving.     *)
ProbedMarks ==
    \A i \in ready : processes[i] # None => tab[processes[i]].mon \notin {"probe", "ready"}

RollsEndWithApp ==
    roll.on /\ pc = "idle" => state \in {"running", "starting"}

StartsFindNoneServing ==
    pc = "spawn" /\ todo = StartSet => \A i \in ready : processes[i] = None

ReadyWasProbed ==
    [](RollsEndWithApp /\ StartsFindNoneServing) => []ProbedMarks

(* A running app's instance that should be up is up, or something pending  *)
(* brings it back: its restart timer, the start underway or the roll.      *)
PendingStart ==
    \/ pc # "idle"
    \/ state = "starting" /\ \E s \in Lifecycle : job[s] # "idle"

Supervised ==
    \A i \in Names :
        /\ state \in {"running", "starting"}
        /\ wanted(i) /\ Proc(i) \in spec.cmds
        /\ i \notin held
        /\ Restart[Proc(i)] = "always"
        => \/ processes[i] # None
           \/ \E p \in Pids : tab[p].timer /\ tab[p].inst = i
           \/ PendingStart
           \/ roll.waiting # None /\ tab[roll.waiting].inst = i

(* The app never sits in starting with every web process served: whichever *)
(* event makes the last one ready also flips the app to running.           *)
StartingFlips ==
    ~ (pc = "idle" /\ state = "starting" /\ spec.web # {} /\ allWebReady(ready))

(* Nothing of a stopped app is alive.                                      *)
NothingOutlivesStop ==
    state = "stopped" /\ pc = "idle" => \A p \in Pids : tab[p].os # "up"

(* An app whose processes are only handled by hand: it has no lifecycle    *)
(* steps, is not rolled, no rescan changes its spec, and its web processes *)
(* are always restarted.  Each of these is needed: a rescan that scales an *)
(* app up leaves the new copies to the next roll, a roll goes on in an app *)
(* that crashes under it (runtime.go failStart, requestStop), and the exit *)
(* of a web process that is not restarted leaves the app crashed with its  *)
(* other processes up (process.go processExited).                          *)
ByHand ==
    /\ spec.steps = {} /\ "roll" \notin Ops[spec]
    /\ \A s \in Specs : s \in Updates[spec] \/ spec \in Updates[s] => s = spec
    /\ \A w \in spec.web : Restart[w] = "always"

(* There, what should run is supervised, and nothing outlives a stop: for  *)
(* any order of starts and stops of the app and of its processes, exits,   *)
(* failed checks, restart timers and late events of earlier copies.        *)
SupervisedByHand == ByHand => Supervised
StoppedByHand == ByHand => NothingOutlivesStop

(* A worker instance is never alive twice.                                 *)
WorkersNotDoubled ==
    \A p, q \in Pids :
        p # q /\ tab[p].os = "up" /\ tab[q].os = "up" /\ tab[p].inst = tab[q].inst
        => IsWeb(tab[p].inst)

-----------------------------------------------------------------------------
(* What comments and the README say that the code does not do.             *)

(* A held process is down (supervisor.go: "A stopped process stays down    *)
(* until it is started again or the whole app starts").  The copy a roll   *)
(* is booting is not in the map stopProcess looks at, and its swap brings  *)
(* the process back.                                                       *)
HeldStaysDown ==
    pc = "idle" => \A i \in held : processes[i] = None

(* RollDriven without the restriction on rescans (supervisor.go: "the call *)
(* returns once the roll is done or has been aborted").  A rescan that     *)
(* drops the start step while a roll runs it leaves the roll, and every    *)
(* caller of Restart, waiting for an event that cannot come.               *)
RollReturns ==
    roll.on /\ pc = "idle" => RollWaitsForEvent

(* ReadyWasProbed without its conditions (README: the health path "gates   *)
(* startup readiness").  A process started by hand while the start step    *)
(* runs becomes ready; the step exits, spawnAll puts another copy in its   *)
(* place without clearing the mark, and that one is routed unprobed.       *)
ReadyPassed == ProbedMarks

(* The spare slot of a web process is enough for its rolls (instances.go:  *)
(* "a web process has one slot more than instances").  A copy that still   *)
(* drains holds its slot when the next copy boots.                         *)
SlotsAssignedUpFront ==
    \A p \in tracked : IsWeb(tab[p].inst) =>
        tab[p].slot < spec.count[Proc(tab[p].inst)] + 1

(* A restart timer of an entry the spec dropped does nothing               *)
(* (instances.go: wanted "reports whether the spec still asks for the      *)
(* instance").  instancesOf counts a missing entry as one instance, so     *)
(* wanted holds, the spawn fails and failStart stops the whole app.        *)
DroppedEntryIgnored ==
    [][ \A p \in Pids :
          /\ tab[p].timer /\ ~tab'[p].timer
          /\ Proc(tab[p].inst) \notin spec.cmds
          => state' = state ]_vars

(* A roll keeps a web process serving whatever happens meanwhile (roll.go: *)
(* beginRoll "restarts a running app, or one of its web processes, without *)
(* dropping a request"; RollWatch states what it does keep).  Its steps    *)
(* are set when it is planned: a new copy that dies while the roll waits   *)
(* for a worker is not waited for, and the old one is retired all the same. *)
AlwaysKeepsServing ==
    [][ /\ pc = "advance" \/ pc' = "advance"
        /\ roll.only \in {All} \cup (Procs \X {0})
        /\ state' # "crashed"
        => \A w \in spec.web :
              webServing(w, processes, ready) => webServing(w, processes', ready') ]_vars

(* The same of a roll limited to one copy the new count no longer has,     *)
(* which only retires it, even when no other copy is ready.                *)
CopyRollKeepsServing ==
    [][ (pc = "advance" \/ pc' = "advance") /\ state' # "crashed"
        => \A w \in spec.web :
              webServing(w, processes, ready) => webServing(w, processes', ready') ]_vars
=============================================================================
