------------------------------ MODULE Manager ------------------------------
(***************************************************************************)
(* The manager of the app goroutines (internal/supervisor: supervisor.go,  *)
(* state.go, drain.go), seen from one app name.  Control-socket, console,  *)
(* hook and proxy goroutines call it concurrently; it keeps the app table, *)
(* the lists in state_dir, and creates and ends the app goroutines.  The   *)
(* daemon may close, or the host may go down between any two steps, and    *)
(* start again from the files.                                             *)
(*                                                                         *)
(* An app goroutine is reduced to what the manager sees of it: whether it  *)
(* takes requests, whether something of the app is alive, and its flags;   *)
(* AppRuntime is that goroutine in detail.                                 *)
(***************************************************************************)
EXTENDS Naturals, FiniteSets

CONSTANTS
    Callers,    \* goroutines that call the manager
    Runtimes,   \* bound: appRuntime objects alive or referenced at once
    Ops,        \* the calls that are made
    Faults,     \* what may go wrong: "disk", "spawn", "exit", "crash", "folder"
    Autostart,  \* spec.Config.Autostart.Starts()
    None        \* nil

ASSUME CallersAssumption ==
    /\ IsFiniteSet(Callers) /\ IsFiniteSet(Runtimes)
    /\ Cardinality(Runtimes) > Cardinality(Callers)
    /\ None \notin Runtimes \cup Callers
    /\ Autostart \in BOOLEAN

AllOps == {"start", "wake", "stop", "restart", "destroy", "rescan", "idle",
           "on", "off", "boot", "close"}

ASSUME OpsAssumption == Ops \subseteq AllOps

VARIABLES
    life,    \* the daemon: "down", "up", or "closing" once m.cancel was called
    disk,    \* the app folder, running.json, maintenance.json, created.json
    mem,     \* m.desired, m.maintenance, m.created, m.booted
    listed,  \* m.apps[name]
    rt,      \* the app goroutines
    lock,    \* holder of m.rescanMu
    cs,      \* where each caller is
    word     \* what the last caller was told: see the intents below

vars == <<life, disk, mem, listed, rt, lock, cs, word>>

NoRuntime == [st |-> "new", run |-> FALSE, draining |-> FALSE,
              maint |-> FALSE, created |-> FALSE]

(* add: the goroutine copies the lists; a closing manager hands it a       *)
(* context that is already cancelled.                                      *)
NewRuntime(m, st) == [NoRuntime EXCEPT !.st = st, !.maint = m.maint, !.created = m.created]

Away == [op |-> "none", at |-> "none", r |-> None, clean |-> FALSE]

NoMemory == [desired |-> FALSE, maint |-> FALSE, created |-> FALSE, booted |-> FALSE]

(* A runtime object nothing refers to is garbage.                          *)
Unreferenced(r) ==
    /\ rt[r].st \in {"new", "closed"}
    /\ listed # r
    /\ \A c \in Callers : cs[c].r # r

(* What a call is about, for the overlaps: the running list, the           *)
(* maintenance list.                                                       *)
Kinds(op) ==
    CASE op \in {"start", "wake", "stop", "restart", "idle", "boot", "close"} -> {"run"}
      [] op \in {"on", "off"} -> {"maint"}
      [] op = "destroy" -> {"run", "maint"}
      [] OTHER -> {}

First(op) == IF op \in {"rescan", "destroy"} THEN "lock"
             ELSE IF op = "boot" THEN "list" ELSE "lookup"

Init ==
    /\ life = "down"
    /\ disk = [dir |-> TRUE, running |-> "absent", maint |-> FALSE, created |-> FALSE]
    /\ mem = NoMemory
    /\ listed = None
    /\ rt = [r \in Runtimes |-> NoRuntime]
    /\ lock = None
    /\ cs = [c \in Callers |-> Away]
    /\ word = [run |-> "unknown", maint |-> "unknown"]

-----------------------------------------------------------------------------
(* the daemon *)

(* Mutant: autostart apps are added even though the list exists.           *)
NewIgnoresList ==
    LET m == [desired |-> disk.running = "on" \/ (disk.dir /\ Autostart),
              maint |-> disk.maint, created |-> disk.created, booted |-> FALSE]
    IN
    /\ life = "down"
    /\ life' = "up"
    /\ mem' = m
    /\ LET r == CHOOSE r \in Runtimes : TRUE IN
         /\ listed' = IF disk.dir THEN r ELSE None
         /\ rt' = IF disk.dir THEN [rt EXCEPT ![r] = NewRuntime(m, "open")] ELSE rt
    /\ UNCHANGED <<disk, lock, cs, word>>

(* New reads the lists and creates a goroutine per folder.  Without a      *)
(* running list every autostart app is wanted.                             *)
New ==
    LET m == [desired |-> \/ disk.running = "on"
                          \/ disk.running = "absent" /\ disk.dir /\ Autostart,
              maint |-> disk.maint, created |-> disk.created, booted |-> FALSE]
    IN
    /\ life = "down"
    /\ life' = "up"
    /\ mem' = m
    /\ LET r == CHOOSE r \in Runtimes : TRUE IN
         /\ listed' = IF disk.dir THEN r ELSE None
         /\ rt' = IF disk.dir THEN [rt EXCEPT ![r] = NewRuntime(m, "open")] ELSE rt
    /\ UNCHANGED <<disk, lock, cs, word>>

(* Everything but the files is gone.                                       *)
Vanish ==
    /\ life' = "down"
    /\ mem' = NoMemory
    /\ listed' = None
    /\ rt' = [r \in Runtimes |-> NoRuntime]
    /\ lock' = None
    /\ cs' = [c \in Callers |-> Away]

(* The files clearAppState leaves when it gets through n of its writes.    *)
Cleared(d, n) ==
    [d EXCEPT !.running = IF n >= 1 THEN "off" ELSE @,
              !.created = IF n >= 2 THEN FALSE ELSE @,
              !.maint = IF n >= 3 THEN FALSE ELSE @]

(* The host goes down.  Every list is written to a temporary file and      *)
(* renamed, so a write is either there or not.                             *)
Crash ==
    /\ "crash" \in Faults
    /\ life # "down"
    /\ Vanish
    /\ \/ UNCHANGED disk
       \/ /\ \E c \in Callers : cs[c].at = "clear"
          /\ \E n \in 1..2 : disk' = Cleared(disk, n)
    /\ UNCHANGED word

(* A deploy adds or removes the app folder; the next rescan sees it.       *)
FolderChanges ==
    /\ "folder" \in Faults
    /\ disk' = [disk EXCEPT !.dir = ~@]
    /\ word' = [k \in DOMAIN word |-> IF word[k] = "gone" THEN "unknown" ELSE word[k]]
    /\ UNCHANGED <<life, mem, listed, rt, lock, cs>>

-----------------------------------------------------------------------------
(* the app goroutine *)

(* query: an open goroutine takes the request, a closed one does not, and  *)
(* one that was cancelled does either.                                     *)
Accepts(r) == rt[r].st \in {"open", "cancelled"}
Refuses(r) == rt[r].st \in {"cancelled", "closed"}

(* loop ends on ctx.Done; until it has looked, select may still take a     *)
(* request.  Only the jobs are stopped then.                               *)
LoopEnds(r) ==
    /\ rt[r].st = "cancelled"
    /\ rt' = [rt EXCEPT ![r] = [NoRuntime EXCEPT !.st = "closed", !.run = rt[r].run]]
    /\ UNCHANGED <<life, disk, mem, listed, lock, cs, word>>

(* The last process exits, or the start step fails.                        *)
AppExits(r) ==
    /\ "exit" \in Faults
    /\ Accepts(r) /\ rt[r].run
    /\ rt' = [rt EXCEPT ![r].run = FALSE]
    /\ UNCHANGED <<life, disk, mem, listed, lock, cs, word>>

(* The create step succeeds: markCreated, from the app goroutine.          *)
markCreated(r) ==
    /\ Accepts(r) /\ rt[r].run /\ ~rt[r].created
    /\ rt' = [rt EXCEPT ![r].created = TRUE]
    /\ mem' = [mem EXCEPT !.created = TRUE]
    /\ \/ disk' = [disk EXCEPT !.created = TRUE]
       \/ "disk" \in Faults /\ UNCHANGED disk
    /\ UNCHANGED <<life, listed, lock, cs, word>>

-----------------------------------------------------------------------------
(* A call begins.  Calls of the same kind that overlap spoil each other's  *)
(* promise: clean is the one of a call that had the list for itself.       *)

Begin(c, op) ==
    LET peers == {d \in Callers : Kinds(cs[d].op) \cap Kinds(op) # {}} IN
    /\ life = "up"
    /\ cs[c].op = "none"
    /\ op \in {"wake", "idle"} => mem.booted
    /\ op = "boot" => ~mem.booted
    /\ op = "close" => \A d \in Callers : cs[d].op # "close"
    /\ mem' = IF op = "boot" THEN [mem EXCEPT !.booted = TRUE] ELSE mem
    /\ cs' = [d \in Callers |->
                IF d = c THEN [Away EXCEPT !.op = op, !.at = First(op), !.clean = peers = {}]
                ELSE IF d \in peers THEN [cs[d] EXCEPT !.clean = FALSE] ELSE cs[d]]
    /\ word' = [k \in DOMAIN word |->
                  IF k \in Kinds(op) /\ op \notin {"boot", "close"} THEN "unknown" ELSE word[k]]
    /\ UNCHANGED <<life, disk, listed, rt, lock>>

At(c, ops, a) == cs[c].op \in ops /\ cs[c].at = a

Goto(c, a) == cs' = [cs EXCEPT ![c].at = a]

(* Mutant: an error path forgets the rescan lock.                          *)
ReturnLocked(c) ==
    /\ cs' = [cs EXCEPT ![c] = Away]
    /\ UNCHANGED lock

(* The caller returns; whatever lock it holds is released by its defer.    *)
Return(c) ==
    /\ cs' = [cs EXCEPT ![c] = Away]
    /\ lock' = IF lock = c THEN None ELSE lock

(* It returns without an error, and what it was told is kept from here on. *)
Told(c, k, w) == word' = IF cs[c].clean THEN [word EXCEPT ![k] = w] ELSE word

(* m.runtime(name), or the copy of the table that Close and idleLoop make. *)
(* Start scans for an app it does not know, and looks once more.           *)
lookup(c) ==
    /\ cs[c].at \in {"lookup", "retry"}
    /\ \/ /\ listed # None
          /\ cs' = [cs EXCEPT ![c].r = listed,
                       ![c].at = IF cs[c].op \in {"stop", "destroy"} THEN "drain"
                                 ELSE IF cs[c].op = "restart" THEN "roll" ELSE "call"]
          /\ UNCHANGED lock
       \/ /\ listed = None
          /\ \/ At(c, {"start", "wake"}, "lookup") /\ Goto(c, "lock") /\ UNCHANGED lock
             \/ cs[c].op = "close" /\ Goto(c, "cancel") /\ UNCHANGED lock
             \/ ~ (At(c, {"start", "wake"}, "lookup") \/ cs[c].op = "close") /\ Return(c)
    /\ UNCHANGED <<life, disk, mem, listed, rt, word>>

-----------------------------------------------------------------------------
(* Requests to the app goroutine.  Each either is handled, or fails since  *)
(* the goroutine is shut down.                                             *)

Handled(c, flags) ==
    /\ Accepts(cs[c].r)
    /\ rt' = [rt EXCEPT ![cs[c].r] = [f \in DOMAIN @ |->
                IF f \in DOMAIN flags THEN flags[f] ELSE @[f]]]

Refused(c) == Refuses(cs[c].r) /\ UNCHANGED rt

Running == [run |-> TRUE]
Stopped == [run |-> FALSE, draining |-> FALSE]

(* Start, Wake and Boot: requestStart, which a spawn that fails ends.      *)
StartCall(c) ==
    /\ At(c, {"start", "wake", "boot"}, "call")
    /\ \/ /\ Handled(c, Running)
          /\ IF cs[c].op = "boot" THEN Return(c) ELSE Goto(c, "save") /\ UNCHANGED lock
       \/ /\ "spawn" \in Faults
          /\ ~rt[cs[c].r].run
          /\ Handled(c, <<>>)
          /\ Return(c)
       \/ Refused(c) /\ Return(c)
    /\ UNCHANGED <<life, disk, mem, listed, word>>

(* Boot reads the running list, then starts what is listed.                *)
BootList(c) ==
    /\ At(c, {"boot"}, "list")
    /\ IF mem.desired /\ Autostart THEN Goto(c, "lookup") /\ UNCHANGED lock ELSE Return(c)
    /\ UNCHANGED <<life, disk, mem, listed, rt, word>>

(* drain: mark the app, then wait for its requests or for stop_timeout,    *)
(* which ends when the caller goes on.                                     *)
drain(c) ==
    /\ cs[c].at = "drain"
    /\ Handled(c, [draining |-> TRUE]) \/ Refused(c)
    /\ Goto(c, "call")
    /\ UNCHANGED <<life, disk, mem, listed, lock, word>>

(* Mutant: requestStop leaves the draining mark.                           *)
StopCallKeepsDraining(c) ==
    /\ At(c, {"stop", "destroy"}, "call")
    /\ \/ /\ Handled(c, [run |-> FALSE])
          /\ Goto(c, IF cs[c].op = "stop" THEN "save" ELSE "clear") /\ UNCHANGED lock
       \/ Refused(c) /\ Return(c)
    /\ UNCHANGED <<life, disk, mem, listed, word>>

(* requestStop from Stop, Destroy and Close.                               *)
StopCall(c) ==
    LET next == IF cs[c].op = "stop" THEN "save"
                ELSE IF cs[c].op = "destroy" THEN "clear" ELSE "cancel" IN
    /\ At(c, {"stop", "destroy", "close"}, "call")
    /\ \/ Handled(c, Stopped) /\ Goto(c, next) /\ UNCHANGED lock
       \/ cs[c].op # "close" /\ Refused(c) /\ Return(c)
       \/ cs[c].op = "close" /\ Refused(c) /\ Goto(c, next) /\ UNCHANGED lock
    /\ UNCHANGED <<life, disk, mem, listed, word>>

(* Restart: a running app with a web process rolls, and the caller waits   *)
(* for the outcome; anything else drains, stops and starts.                *)
RollCall(c) ==
    /\ At(c, {"restart"}, "roll")
    /\ \/ /\ rt[cs[c].r].run
          /\ Handled(c, <<>>)
          /\ Goto(c, "rolling") /\ UNCHANGED lock
       \/ Handled(c, <<>>) /\ Goto(c, "drain") /\ UNCHANGED lock
       \/ Refused(c) /\ Return(c)
    /\ UNCHANGED <<life, disk, mem, listed, word>>

(* <-done: the roll is over or was aborted.  Nothing says that it ever is: *)
(* a rescan may drop what the roll waits for (AppRuntime, RollReturns).    *)
Rolled(c) ==
    /\ At(c, {"restart"}, "rolling")
    /\ \/ Goto(c, "save") /\ UNCHANGED lock
       \/ Return(c)
    /\ UNCHANGED <<life, disk, mem, listed, rt, word>>

(* Mutant: the caller waits for the outcome alone.                         *)
RollEndsNever(c) == FALSE

(* <-runtime.ctx.Done(): the goroutine was cancelled under the roll.       *)
RollEnds(c) ==
    /\ At(c, {"restart"}, "rolling")
    /\ rt[cs[c].r].st # "open"
    /\ Return(c)
    /\ UNCHANGED <<life, disk, mem, listed, rt, word>>

RestartCall(c) ==
    /\ At(c, {"restart"}, "call")
    /\ \/ /\ Handled(c, [run |-> TRUE, draining |-> FALSE])
          /\ Goto(c, "save") /\ UNCHANGED lock
       \/ "spawn" \in Faults /\ Handled(c, Stopped) /\ Return(c)
       \/ Refused(c) /\ Return(c)
    /\ UNCHANGED <<life, disk, mem, listed, word>>

(* idleLoop: requestIdle stops an app nobody has used for idle_stop.       *)
IdleCall(c) ==
    /\ At(c, {"idle"}, "call")
    /\ \/ /\ rt[cs[c].r].run
          /\ Handled(c, [run |-> FALSE])
          /\ Goto(c, "save") /\ UNCHANGED lock
       \/ UNCHANGED rt /\ Return(c)
    /\ UNCHANGED <<life, disk, mem, listed, word>>

(* SetMaintenance: the goroutine's flag first, then the list.              *)
MaintenanceCall(c) ==
    /\ At(c, {"on", "off"}, "call")
    /\ \/ /\ Handled(c, [maint |-> cs[c].op = "on"])
          /\ Goto(c, "savemaint") /\ UNCHANGED lock
       \/ Refused(c) /\ Return(c)
    /\ UNCHANGED <<life, disk, mem, listed, word>>

-----------------------------------------------------------------------------
(* the lists: desiredMu makes each of these one step *)

setDesired(c) ==
    LET on == cs[c].op \notin {"stop", "idle"} IN
    /\ cs[c].at = "save"
    /\ mem' = [mem EXCEPT !.desired = on]
    /\ \/ /\ disk' = [disk EXCEPT !.running = IF on THEN "on" ELSE "off"]
          /\ Told(c, "run", IF on THEN "on" ELSE "off")
       \/ "disk" \in Faults /\ UNCHANGED <<disk, word>>
    /\ Return(c)
    /\ UNCHANGED <<life, listed, rt>>

(* Mutant: clearing the flag forgets the file.                             *)
SaveMaintenanceOnOnly(c) ==
    /\ cs[c].at = "savemaint"
    /\ mem' = [mem EXCEPT !.maint = cs[c].op = "on"]
    /\ disk' = [disk EXCEPT !.maint = @ \/ cs[c].op = "on"]
    /\ Told(c, "maint", cs[c].op)
    /\ Return(c)
    /\ UNCHANGED <<life, listed, rt>>

saveMaintenance(c) ==
    /\ cs[c].at = "savemaint"
    /\ mem' = [mem EXCEPT !.maint = cs[c].op = "on"]
    /\ \/ /\ disk' = [disk EXCEPT !.maint = cs[c].op = "on"]
          /\ Told(c, "maint", cs[c].op)
       \/ "disk" \in Faults /\ UNCHANGED <<disk, word>>
    /\ Return(c)
    /\ UNCHANGED <<life, listed, rt>>

(* Mutant: the create mark is kept.                                        *)
ClearKeepsCreated(c) ==
    /\ cs[c].at = "clear"
    /\ disk' = [disk EXCEPT !.running = "off", !.maint = FALSE]
    /\ mem' = [mem EXCEPT !.desired = FALSE, !.maint = FALSE]
    /\ Goto(c, "unlist")
    /\ UNCHANGED <<life, listed, rt, lock, word>>

clearAppState(c) ==
    /\ cs[c].at = "clear"
    /\ \/ /\ disk' = Cleared(disk, 3)
          /\ mem' = [mem EXCEPT !.desired = FALSE, !.created = FALSE, !.maint = FALSE]
          /\ Goto(c, "unlist") /\ UNCHANGED lock
       \/ /\ "disk" \in Faults
          /\ \E n \in 0..2 :
               /\ disk' = Cleared(disk, n)
               /\ mem' = [mem EXCEPT !.desired = FALSE,
                                     !.created = IF n >= 1 THEN FALSE ELSE @,
                                     !.maint = IF n = 2 THEN FALSE ELSE @]
          /\ Return(c)
    /\ UNCHANGED <<life, listed, rt, word>>

-----------------------------------------------------------------------------
(* Rescan, and the end of Destroy *)

Lock(c) ==
    /\ cs[c].at = "lock"
    /\ lock = None
    /\ lock' = c
    /\ Goto(c, IF cs[c].op = "destroy" THEN "lookup" ELSE "scan")
    /\ UNCHANGED <<life, disk, mem, listed, rt, word>>

(* The end of Rescan for the one who called it.                            *)
Rescanned(c, others) ==
    /\ cs' = [others EXCEPT ![c] =
                IF cs[c].op = "rescan" THEN Away
                ELSE [@ EXCEPT !.at = "retry", !.r = None]]
    /\ lock' = None

(* A maintenance call in flight while the goroutine is created may be      *)
(* missed by it.                                                           *)
Missed == [d \in Callers |-> IF "maint" \in Kinds(cs[d].op)
                             THEN [cs[d] EXCEPT !.clean = FALSE] ELSE cs[d]]

(* config.Load and apps.Discover, which may fail, then the app table under *)
(* m.mu.  The new spec of a known app is AppRuntime's ReqUpdate.           *)
RescanTable(c) ==
    /\ cs[c].at = "scan"
    /\ \/ disk.dir /\ listed # None /\ Rescanned(c, cs) /\ UNCHANGED <<listed, rt>>
       \/ /\ disk.dir /\ listed = None
          /\ \/ LET r == CHOOSE r \in Runtimes : Unreferenced(r) IN
                  /\ listed' = r
                  /\ rt' = [rt EXCEPT ![r] =
                              NewRuntime(mem, IF life = "closing" THEN "cancelled" ELSE "open")]
             \/ "spawn" \in Faults /\ UNCHANGED <<listed, rt>>  \* assignPorts
          /\ Rescanned(c, Missed)
       \/ /\ ~disk.dir /\ listed # None
          /\ cs' = [cs EXCEPT ![c].r = listed, ![c].at = "remove"]
          /\ listed' = None
          /\ UNCHANGED <<rt, lock>>
       \/ ~disk.dir /\ listed = None /\ Rescanned(c, cs) /\ UNCHANGED <<listed, rt>>
       \/ "disk" \in Faults /\ Return(c) /\ UNCHANGED <<listed, rt>>
    /\ UNCHANGED <<life, disk, mem, word>>

(* The app's folder is gone: requestStop, then cancel.                     *)
RemoveCall(c) ==
    /\ cs[c].at = "remove"
    /\ Handled(c, Stopped) \/ Refused(c)
    /\ Goto(c, "cancel")
    /\ UNCHANGED <<life, disk, mem, listed, lock, word>>

(* Destroy takes the app off the table.                                    *)
Unlist(c) ==
    /\ cs[c].at = "unlist"
    /\ listed' = None
    /\ Goto(c, "cancel")
    /\ UNCHANGED <<life, disk, mem, rt, lock, word>>

(* Mutant: nobody waits for the goroutine to end.                          *)
CancelNoWait(c) ==
    /\ cs[c].at = "cancel" /\ cs[c].op # "close"
    /\ rt' = [rt EXCEPT ![cs[c].r].st = IF @ = "open" THEN "cancelled" ELSE @]
    /\ IF cs[c].op = "destroy" THEN Goto(c, "delete") /\ UNCHANGED lock
                               ELSE Rescanned(c, cs)
    /\ UNCHANGED <<life, disk, mem, listed, word>>

(* runtime.cancel(), and m.cancel() of Close, which ends every goroutine.  *)
Cancel(c) ==
    /\ cs[c].at = "cancel"
    /\ rt' = [r \in Runtimes |->
                IF rt[r].st = "open" /\ (cs[c].op = "close" \/ r = cs[c].r)
                THEN [rt[r] EXCEPT !.st = "cancelled"] ELSE rt[r]]
    /\ life' = IF cs[c].op = "close" THEN "closing" ELSE life
    /\ Goto(c, "closed")
    /\ UNCHANGED <<disk, mem, listed, lock, word>>

(* <-runtime.closed.  The daemon exits when Close is through.              *)
Closed(c) ==
    /\ cs[c].at = "closed"
    /\ cs[c].r # None => rt[cs[c].r].st = "closed"
    /\ \/ /\ cs[c].op = "destroy"
          /\ Goto(c, "delete")
          /\ UNCHANGED <<life, mem, listed, rt, lock>>
       \/ /\ cs[c].op \in {"rescan", "start", "wake"}
          /\ Rescanned(c, cs)
          /\ UNCHANGED <<life, mem, listed, rt>>
       \/ cs[c].op = "close" /\ Vanish
    /\ UNCHANGED <<disk, word>>

(* The destroy step has run, or failed; apps.Destroy removes the folder,   *)
(* or fails.                                                               *)
Delete(c) ==
    /\ cs[c].at = "delete"
    /\ \/ /\ disk' = [disk EXCEPT !.dir = FALSE]
          /\ word' = IF cs[c].clean THEN [k \in DOMAIN word |-> "gone"] ELSE word
       \/ "disk" \in Faults /\ UNCHANGED <<disk, word>>
    /\ Return(c)
    /\ UNCHANGED <<life, mem, listed, rt>>

-----------------------------------------------------------------------------
Step(c) ==
    \/ lookup(c) \/ StartCall(c) \/ BootList(c) \/ drain(c)
    \/ StopCall(c) \/ RollCall(c) \/ RollEnds(c) \/ RestartCall(c) \/ IdleCall(c)
    \/ MaintenanceCall(c) \/ setDesired(c) \/ saveMaintenance(c) \/ clearAppState(c)
    \/ RescanTable(c) \/ RemoveCall(c)
    \/ Unlist(c) \/ Cancel(c) \/ Closed(c) \/ Delete(c)

Next ==
    \/ New \/ Crash \/ FolderChanges
    \/ \E r \in Runtimes : LoopEnds(r) \/ AppExits(r) \/ markCreated(r)
    \/ \E c \in Callers : Step(c) \/ Rolled(c) \/ Lock(c) \/ \E op \in Ops : Begin(c, op)

Spec == Init /\ [][Next]_vars

(* Goroutines run: a caller goes on, an app goroutine notices that it was  *)
(* cancelled, and a mutex that is released again and again is granted      *)
(* (sync.Mutex hands over after a millisecond of waiting).  The answer of  *)
(* a roll (Rolled) is nobody's duty.                                       *)
Fairness ==
    /\ \A c \in Callers : WF_vars(Step(c)) /\ SF_vars(Lock(c))
    /\ \A r \in Runtimes : WF_vars(LoopEnds(r))

FairSpec == Spec /\ Fairness

-----------------------------------------------------------------------------
(* properties *)

(* The state of the manager, the files and the callers is well typed.      *)
TypeOK ==
    /\ life \in {"down", "up", "closing"}
    /\ disk \in [dir : BOOLEAN, running : {"absent", "on", "off"},
                 maint : BOOLEAN, created : BOOLEAN]
    /\ mem \in [desired : BOOLEAN, maint : BOOLEAN, created : BOOLEAN, booted : BOOLEAN]
    /\ listed \in Runtimes \cup {None}
    /\ rt \in [Runtimes -> [st : {"new", "open", "cancelled", "closed"}, run : BOOLEAN,
                            draining : BOOLEAN, maint : BOOLEAN, created : BOOLEAN]]
    /\ lock \in Callers \cup {None}
    /\ cs \in [Callers ->
                 [op : AllOps \cup {"none"},
                  at : {"none", "lookup", "retry", "list", "lock", "scan",
                        "remove", "drain", "call", "roll", "rolling", "save",
                        "savemaint", "clear", "unlist", "cancel", "closed",
                        "delete"},
                  r : Runtimes \cup {None}, clean : BOOLEAN]]
    /\ word \in [run : {"unknown", "on", "off", "gone"},
                 maint : {"unknown", "on", "off", "gone"}]

(* One app goroutine at a time owns the app's ports, cgroups, pid files    *)
(* and logs: a rescan that adds the app again waits for the end of the one *)
(* that Rescan or Destroy cancelled, however late it notices.              *)
OneLoop ==
    \A r, s \in Runtimes : Accepts(r) /\ Accepts(s) => r = s

(* An app answers 503 as draining only while somebody is about to stop it, *)
(* so two overlapping stops, a restart that fails or a destroy never leave *)
(* a live app refusing its requests.                                       *)
DrainingOwned ==
    \A r \in Runtimes : rt[r].st = "open" /\ rt[r].draining =>
        \E c \in Callers : cs[c].r = r /\ cs[c].at = "call"

(* A start or stop that was answered, and that no other one overlapped, is *)
(* what the running list says from then on, also after the host went down  *)
(* in the middle of anything and came back; a stopped app does not run.    *)
RunIntentKept ==
    /\ word.run = "on" => disk.running = "on"
    /\ word.run = "off" => /\ disk.running = "off"
                           /\ \A r \in Runtimes : Accepts(r) => ~rt[r].run

(* The same for the maintenance flag, which the goroutine and the list     *)
(* hold each for itself.                                                   *)
MaintenanceKept ==
    word.maint \in {"on", "off"} =>
        /\ disk.maint = (word.maint = "on")
        /\ listed # None /\ Accepts(listed) => rt[listed].maint = (word.maint = "on")

(* A destroyed app leaves nothing that an app of the same name would       *)
(* inherit: no folder, no mark in any list, so its create step will run.   *)
DestroyLeavesNothing ==
    word.run = "gone" /\ word.maint = "gone" =>
        /\ ~disk.dir /\ disk.running = "off" /\ ~disk.maint /\ ~disk.created
        /\ \A r \in Runtimes : Accepts(r) => ~rt[r].run

(* Every call returns, but for a restart whose roll is never answered by   *)
(* an app goroutine that goes on: no caller waits for ever for the rescan  *)
(* lock, for an app goroutine that is gone, for its end, or behind such a  *)
(* restart (roll, Rescan, Destroy, Close).                                 *)
CallsReturn ==
    \A c \in Callers : cs[c].op # "none" ~>
        \/ cs[c].op = "none"
        \/ cs[c].at = "rolling" /\ rt[cs[c].r].st = "open"

-----------------------------------------------------------------------------
(* An app goroutine ends only when nothing of its app is alive             *)
(* (supervisor.go: Destroy "shuts down every process and job before        *)
(* removing the apps-directory entry").  A start that reaches the          *)
(* goroutine between the stop and the cancel of Destroy, Rescan or Close   *)
(* leaves its processes running without an owner.                          *)
NoOrphans ==
    \A r \in Runtimes : rt[r].st = "closed" => ~rt[r].run

(* What the operator was told last survives (startApp, stopApp,            *)
(* SetMaintenance and the lists they save).                                *)
IntentKept == RunIntentKept /\ MaintenanceKept

(* Of an app there is one goroutine, and it drains only for a caller that  *)
(* waits (Rescan, cancel, stopApp).                                        *)
LoopsOwned == OneLoop /\ DrainingOwned
=============================================================================
