----------------------------- MODULE RollWatch ------------------------------
(***************************************************************************)
(* A rolling restart (internal/supervisor/roll.go), watched.  A roll takes *)
(* minutes, in which processes die, are stopped by hand and are rescanned; *)
(* what it promises of an entry it can only promise while nothing of the   *)
(* kind happens to it.  The module adds to AppRuntime the record of that.  *)
(***************************************************************************)
EXTENDS AppRuntime

VARIABLE
    disturbed   \* the entries the roll underway cannot answer for any more

watchVars == <<state, spec, created, processes, ready, held, retiring, failures,
               roll, tab, job, waiting, pc, todo, disturbed>>

WatchInit == Init /\ disturbed = {}

Serving(i) == processes[i] # None /\ i \in ready

(* The entries of which a copy ceases to serve in this step.               *)
Losing == {w \in Procs : \E i \in Names : Proc(i) = w /\ Serving(i) /\ ~Serving(i)'}

(* From the plan of a roll on, an entry is disturbed by what happens to it *)
(* outside the steps of the roll: a copy dies, fails its checks or is      *)
(* stopped, the app starts or goes down, a rescan brings another spec.     *)
Disturbing ==
    IF spec' # spec THEN Procs ELSE IF pc = "advance" THEN {} ELSE Losing

WatchNext ==
    /\ Next
    /\ disturbed' = IF pc = "plan" THEN {} ELSE disturbed \cup Disturbing

WatchSpec == WatchInit /\ [][WatchNext]_watchVars

-----------------------------------------------------------------------------
(* A rolling restart of the app or of one entry does not take the last     *)
(* ready copy of a web process away: whatever a step of the roll retires,  *)
(* a ready copy remains (roll.go: beginRoll restarts "without dropping a   *)
(* request"), unless the entry was disturbed since the roll was planned or *)
(* the step takes the whole app down.                                      *)
RollKeepsServing ==
    [][ /\ pc = "advance" \/ pc' = "advance"
        /\ roll.only \in {All} \cup (Procs \X {0})
        /\ state' # "crashed"
        => \A w \in spec.web \ disturbed :
              webServing(w, processes, ready) => webServing(w, processes', ready')
      ]_watchVars
=============================================================================
