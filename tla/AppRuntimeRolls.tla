-------------------------- MODULE AppRuntimeRolls --------------------------
(* What AppRuntime promises of its ready marks and of a roll in flight,    *)
(* for every set of entries, specs, process objects, slots and callers.    *)
EXTENDS AppRuntimeProofs, RollWatch

-----------------------------------------------------------------------------
(* The inductive invariant behind ReadyWasProbed.                          *)

(* An app that is down as far as its maps tell.                            *)
Down ==
    /\ state \in {"crashed", "stopped"}
    /\ \A i \in Names : processes[i] = None

(* failStart and stop leave the marks of what they kill; nothing of such   *)
(* an app comes back before start clears them.                             *)
StaleDown == \A i \in ready : processes[i] = None => Down

Marks == ProbedMarks /\ StaleDown

(* Where the goroutine is in a handler of several steps.                   *)
Chained ==
    /\ pc \in {"create", "start", "spawn"} => state = "starting"
    /\ pc = "spawn" => ready = {}
    /\ pc \in {"pstart", "begin", "plan", "advance", "abort"} => state \in {"running", "starting"}
    /\ pc \in {"begin", "plan", "advance", "abort", "finish"} => roll.on
    /\ roll.step = "runs" \/ roll.current # None => roll.on

-----------------------------------------------------------------------------
(* What the helpers do to a monitor.                                       *)

(* A process past its check does not go back before it.                    *)
Heard(r, s) ==
    r.mon \notin {"probe", "ready"} => s.mon \notin {"probe", "ready"}

LEMMA CollectHeard ==
    ASSUME NEW r \in ProcessType
    PROVE  Heard(r, Collect(r))
BY DEF Collect, NoProcess, Heard

LEMMA KilledHeard ==
    ASSUME NEW r \in ProcessType
    PROVE  Heard(r, Killed(r)) /\ Heard(r, Retiring(r))
BY DEF Killed, Retiring, Heard, ProcessType

LEMMA ReleasedHeard ==
    ASSUME NEW r \in ProcessType
    PROVE  Heard(r, Released(r))
<1> DEFINE m == IF r.mon \in {"probe", "live"} THEN "off" ELSE r.mon
           x == [r EXCEPT !.mon = m, !.slot = 0, !.code = "ok", !.released = TRUE]
<1>1. x.mon = m /\ Heard(r, x)
  BY DEF ProcessType, Heard
<1>2. Released(r) = Collect(x)
  BY DEF Released
<1>3. Collect(x) = x \/ Collect(x) = NoProcess
  BY DEF Collect
<1> HIDE DEF x
<1> QED
  BY <1>1, <1>2, <1>3 DEF Heard, NoProcess

LEMMA FieldHeard ==
    ASSUME NEW r \in ProcessType, NEW b
    PROVE  /\ Heard(r, [r EXCEPT !.exitEv = b]) /\ Heard(r, [r EXCEPT !.drain = b])
           /\ Heard(r, [r EXCEPT !.timer = b])
           /\ Heard(r, [r EXCEPT !.mon = "off"]) /\ Heard(r, [r EXCEPT !.mon = "live"])
           /\ [r EXCEPT !.mon = "live"].mon = "live"
BY DEF Heard, ProcessType

LEMMA KillHeard ==
    ASSUME TypeOK, NEW S, NEW p \in Pids
    PROVE  Heard(tab[p], KillAndRelease(S)[p])
<1>1. tab[p] \in ProcessType /\ Killed(tab[p]) \in ProcessType
  BY HelperTypes DEF TypeOK
<1>2. Heard(tab[p], Released(Killed(tab[p])))
  BY <1>1, KilledHeard, ReleasedHeard DEF Heard
<1> QED
  BY <1>2 DEF KillAndRelease, Heard

-----------------------------------------------------------------------------
(* Three ways a step treats the marks.                                     *)

LEMMA MarksDown ==
    ASSUME TypeOK', Down'
    PROVE  Marks'
BY DEF TypeOK, Down, Marks, ProbedMarks, StaleDown

LEMMA MarksCleared == ready' = {} => Marks'
BY DEF Marks, ProbedMarks, StaleDown

(* The marks that stay are those of copies that stay.                      *)
LEMMA MarksKept ==
    ASSUME TypeOK, Marks, ready' \subseteq ready,
           \A i \in ready' : processes'[i] = processes[i],
           Down => Down',
           \A p \in Pids : p \in Live => Heard(tab[p], tab'[p])
    PROVE  Marks'
<1>1. ASSUME NEW i \in ready', processes'[i] # None
      PROVE  tab'[processes'[i]].mon \notin {"probe", "ready"}
  <2>1. i \in ready /\ i \in Names /\ processes'[i] = processes[i]
    BY DEF TypeOK
  <2>2. processes[i] \in Live /\ processes[i] \in Pids
    BY <1>1, <2>1 DEF TypeOK, Live
  <2>3. tab[processes[i]].mon \notin {"probe", "ready"}
    BY <1>1, <2>1 DEF Marks, ProbedMarks
  <2> QED
    BY <2>1, <2>2, <2>3 DEF Heard
<1>2. ASSUME NEW i \in ready', processes'[i] = None
      PROVE  Down'
  BY <1>2 DEF Marks, StaleDown
<1> QED
  BY <1>1, <1>2 DEF Marks, ProbedMarks, StaleDown

LEMMA MarksSame ==
    ASSUME TypeOK, Marks, UNCHANGED <<ready, processes, tab, state>>
    PROVE  Marks'
BY DEF Marks, ProbedMarks, StaleDown, Down

LEMMA FailIsDown == FailStart => Down'
BY DEF FailStart, Down

(* A process takes an empty place in an app that is up, or in one whose    *)
(* start has cleared the marks.                                            *)
LEMMA MarksSpawned ==
    ASSUME TypeOK, Table, Marks, state \in {"running", "starting"},
           NEW i \in Names, processes[i] = None, NEW q \in Pids, tab[q] = NoProcess,
           ready' = ready, processes' = [processes EXCEPT ![i] = q],
           \A p \in Pids : p # q => Heard(tab[p], tab'[p])
    PROVE  Marks'
<1>1. ~Down /\ i \notin ready
  BY DEF Down, Marks, StaleDown
<1>2. \A j \in ready' : processes'[j] = processes[j]
  BY <1>1 DEF TypeOK
<1>3. q \notin Live
  BY TrackedInUse DEF tracked
<1> QED
  BY <1>1, <1>2, <1>3, MarksKept

-----------------------------------------------------------------------------
(* Every action keeps the marks.                                           *)

LEMMA MarksStop ==
    ASSUME TypeOK, TypeOK', Marks, Stop, ready' = ready
    PROVE  Marks'
<1>1. CASE state = "stopped"
  BY <1>1, MarksSame DEF Stop
<1>2. CASE state # "stopped"
  BY <1>2, MarksDown DEF Stop, Down
<1> QED
  BY <1>1, <1>2

LEMMA MarksStopProcess ==
    ASSUME TypeOK, TypeOK', Marks, NEW S, NEW hold, S \subseteq Names, StopProcess(S, hold)
    PROVE  Marks'
<1>1. /\ ready' = ready \ S
      /\ \A i \in Names : processes'[i] = IF i \in S THEN None ELSE processes[i]
      /\ tab' = KillAndRelease({processes[i] : i \in S} \ {None})
  BY DEF StopProcess
<1>2. Down => Down'
  BY <1>1 DEF StopProcess, Down
<1>3. \A i \in ready' : processes'[i] = processes[i]
  BY <1>1 DEF TypeOK
<1> QED
  BY <1>1, <1>2, <1>3, KillHeard, MarksKept

LEMMA MarksRequest ==
    ASSUME TypeOK, TypeOK', Marks, Request
    PROVE  Marks'
<1>1. CASE ReqStart \/ \E s \in Updates[spec] : ReqUpdate(s)
  BY <1>1, MarksSame DEF ReqStart, ReqUpdate
<1>2. CASE ReqStop \/ ReqRestart
  BY <1>2, MarksStop DEF ReqStop, ReqRestart
<1>3. ASSUME NEW n \in Names, ReqProcessStart(n) PROVE Marks'
  BY <1>3, MarksSame DEF ReqProcessStart
<1>4. ASSUME NEW n \in Names, ReqProcessStop(n) \/ ReqProcessRestart(n) PROVE Marks'
  <2>1. resolve(n) \subseteq Names
    BY SetTypes
  <2>2. StopProcess(resolve(n), TRUE) \/ StopProcess(resolve(n), FALSE)
    BY <1>4 DEF ReqProcessStop, ReqProcessRestart
  <2> QED
    BY <2>1, <2>2, MarksStopProcess
<1>5. ASSUME NEW c \in Callers, NEW o \in Targets, beginRoll(c, o) PROVE Marks'
  BY <1>5, MarksSame DEF beginRoll
<1> QED
  BY <1>1, <1>2, <1>3, <1>4, <1>5 DEF Request

LEMMA MarksStart ==
    ASSUME TypeOK, TypeOK', Table, Marks, Chained, start \/ continueStart \/ spawnAll \/ spawnedAll
    PROVE  Marks'
<1>1. CASE start
  BY <1>1, MarksSame, MarksCleared DEF start
<1>2. CASE continueStart
  BY <1>2, MarksSame, MarksDown, FailIsDown DEF continueStart
<1>3. CASE spawnAll \/ spawnedAll
  BY <1>3, MarksCleared DEF spawnAll, spawnedAll, Chained
<1> QED
  BY <1>1, <1>2, <1>3

LEMMA MarksStartProcess ==
    ASSUME TypeOK, TypeOK', Table, Marks, Chained, startProcess
    PROVE  Marks'
<1>1. PICK i \in todo :
        \/ UNCHANGED <<state, processes, tab>>
        \/ /\ processes[i] = None
           /\ \/ \E p \in Pids, k \in Slots :
                   /\ CanSpawn(i, p, k)
                   /\ tab' = [tab EXCEPT ![p] = Spawned(i, k, IsWeb(i))]
                   /\ processes' = [processes EXCEPT ![i] = p]
              \/ FailStart
  BY Zenon DEF startProcess
<1>2. i \in Names /\ ready' = ready /\ state \in {"running", "starting"}
  BY DEF startProcess, TypeOK, Chained
<1>3. ASSUME NEW p \in Pids, NEW k \in Slots, CanSpawn(i, p, k), processes[i] = None,
             tab' = [tab EXCEPT ![p] = Spawned(i, k, IsWeb(i))],
             processes' = [processes EXCEPT ![i] = p]
      PROVE  Marks'
  <2>1. tab[p] = NoProcess
    BY <1>3 DEF CanSpawn
  <2>2. \A x \in Pids : x # p => Heard(tab[x], tab'[x])
    BY <1>3 DEF TypeOK, Heard
  <2> QED
    BY <1>2, <1>3, <2>1, <2>2, MarksSpawned
<1> QED
  BY <1>1, <1>2, <1>3, MarksSame, MarksDown, FailIsDown

(* retire takes the mark away with the copy.                               *)
LEMMA MarksRetire ==
    ASSUME TypeOK, TypeOK', Table, Marks, NEW i \in Names, processes[i] # None, retire(i)
    PROVE  Marks'
<1>1. /\ ready' = ready \ {i} /\ processes' = [processes EXCEPT ![i] = None]
      /\ tab' = [tab EXCEPT ![processes[i]] = Retiring(@)]
  BY DEF retire
<1>2. ~Down /\ \A j \in ready' : processes'[j] = processes[j]
  BY <1>1 DEF TypeOK, Down
<1>3. \A p \in Pids : Heard(tab[p], tab'[p])
  BY <1>1, KilledHeard DEF TypeOK, Heard
<1> QED
  BY <1>1, <1>2, <1>3, MarksKept

LEMMA MarksAdvance ==
    ASSUME TypeOK, TypeOK', Table, Marks, Chained, advanceRoll
    PROVE  Marks'
<1>0. state \in {"running", "starting"}
  BY DEF advanceRoll, Chained
<1>1. ASSUME NEW s \in NextSteps, stepRetire(s) PROVE Marks'
  <2>1. s[1] \in Names
    BY DEF NextSteps, TypeOK, RollType
  <2> QED
    BY <1>1, <2>1, MarksRetire, MarksSame DEF stepRetire
<1>2. ASSUME NEW s \in NextSteps, stepWorker(s) PROVE Marks'
  <2>1. s[1] \in Names
    BY DEF NextSteps, TypeOK, RollType
  <2>2. \/ processes[s[1]] # None /\ retire(s[1])
        \/ /\ processes[s[1]] = None /\ ready' = ready
           /\ \E p \in Pids, k \in Slots :
                /\ CanSpawn(s[1], p, k)
                /\ tab' = [tab EXCEPT ![p] = Spawned(s[1], k, FALSE)]
                /\ processes' = [processes EXCEPT ![s[1]] = p]
        \/ FailStart
    BY <1>2, Zenon DEF stepWorker
  <2>3. ASSUME NEW p \in Pids, NEW k \in Slots, CanSpawn(s[1], p, k),
               processes[s[1]] = None, ready' = ready,
               tab' = [tab EXCEPT ![p] = Spawned(s[1], k, FALSE)],
               processes' = [processes EXCEPT ![s[1]] = p]
        PROVE  Marks'
    <3>1. tab[p] = NoProcess
      BY <2>3 DEF CanSpawn
    <3>2. \A x \in Pids : x # p => Heard(tab[x], tab'[x])
      BY <2>3 DEF TypeOK, Heard
    <3> QED
      BY <1>0, <2>1, <2>3, <3>1, <3>2, MarksSpawned
  <2> QED
    BY <2>1, <2>2, <2>3, MarksRetire, MarksDown, FailIsDown
<1>3. ASSUME NEW s \in NextSteps, stepReplace(s) PROVE Marks'
  <2>1. UNCHANGED <<state, processes, ready>>
    BY <1>3 DEF stepReplace
  <2>2. \/ tab' = tab
        \/ \E p \in Pids, k \in Slots :
             /\ tab[p] = NoProcess
             /\ tab' = [tab EXCEPT ![p] = Spawned(s[1], k, IsWeb(s[1]))]
    BY <1>3, Zenon DEF stepReplace, CanSpawn
  <2>3. ASSUME NEW p \in Pids, NEW k \in Slots, tab[p] = NoProcess,
               tab' = [tab EXCEPT ![p] = Spawned(s[1], k, IsWeb(s[1]))]
        PROVE  Marks'
    <3>1. p \notin Live
      BY <2>3, TrackedInUse DEF tracked
    <3>2. \A x \in Pids : x # p => Heard(tab[x], tab'[x])
      BY <2>3 DEF TypeOK, Heard
    <3> QED
      BY <2>1, <3>1, <3>2, MarksKept DEF Down
  <2> QED
    BY <2>1, <2>2, <2>3, MarksSame
<1>4. CASE UNCHANGED <<state, processes, ready, tab>>
  BY <1>4, MarksSame
<1> QED
  BY <1>1, <1>2, <1>3, <1>4, Zenon DEF advanceRoll

LEMMA MarksContinue ==
    ASSUME TypeOK, TypeOK', Table, Marks, Chained, Continue
    PROVE  Marks'
<1>1. CASE runRoll \/ planRoll \/ finishRoll
  BY <1>1, MarksSame DEF runRoll, planRoll, finishRoll
<1>2. CASE abortRoll
  <2>1. UNCHANGED <<state, processes, ready>> /\ tab' = KillAndRelease({roll.current} \ {None})
    BY <1>2 DEF abortRoll
  <2> QED
    BY <2>1, KillHeard, MarksKept DEF Down
<1> QED
  BY <1>1, <1>2, MarksStart, MarksStartProcess, MarksAdvance DEF Continue

(* One process object changes and nothing else.                            *)
LEMMA MarksTouched ==
    ASSUME TypeOK, TypeOK', Marks, NEW p \in Pids, NEW r,
           UNCHANGED <<ready, processes, state>>, tab' = [tab EXCEPT ![p] = r],
           p \in Live => Heard(tab[p], r)
    PROVE  Marks'
<1>1. \A x \in Pids : x \in Live => Heard(tab[x], tab'[x])
  BY DEF TypeOK, Heard
<1> QED
  BY <1>1, MarksKept DEF Down

LEMMA MarksHealthFailed ==
    ASSUME TypeOK, TypeOK', Marks, NEW p \in Pids, HealthFailed(p)
    PROVE  Marks'
<1> DEFINE r == [tab[p] EXCEPT !.mon = "off"]
<1>1. r \in ProcessType /\ Heard(tab[p], r)
  BY FieldTypes, FieldHeard DEF TypeOK
<1>2. tab' = [tab EXCEPT ![p] = Killed(r)] \/ tab' = [tab EXCEPT ![p] = Collect(r)]
  BY Zenon DEF HealthFailed
<1>3. UNCHANGED <<ready, processes, state>>
  BY DEF HealthFailed
<1> HIDE DEF r
<1>4. Heard(tab[p], Killed(r)) /\ Heard(tab[p], Collect(r))
  BY <1>1, KilledHeard, CollectHeard DEF Heard
<1> QED
  BY <1>2, <1>3, <1>4, MarksTouched

(* A copy that has reported is marked, and its monitor has moved on.       *)
LEMMA MarksMade ==
    ASSUME TypeOK, TypeOK', Marks, ~Down, NEW i \in Names, NEW p \in Pids, p # None,
           ready' = ready \cup {i}, processes'[i] = p,
           \A j \in Names : j # i => processes'[j] = processes[j],
           tab'[p].mon \notin {"probe", "ready"},
           \A x \in Pids : x \in Live /\ x # p => Heard(tab[x], tab'[x])
    PROVE  Marks'
<1>1. \A j \in ready : processes[j] # None
  BY DEF Marks, StaleDown
<1>2. ASSUME NEW j \in ready'
      PROVE  processes'[j] # None /\ tab'[processes'[j]].mon \notin {"probe", "ready"}
  <2>1. CASE j = i
    BY <2>1
  <2>2. CASE j # i
    <3>1. j \in ready /\ j \in Names /\ processes'[j] = processes[j]
      BY <1>2, <2>2 DEF TypeOK
    <3>2. processes[j] \in Live /\ processes[j] \in Pids
      BY <1>1, <3>1 DEF Live, TypeOK
    <3>3. tab[processes[j]].mon \notin {"probe", "ready"}
      BY <1>1, <3>1 DEF Marks, ProbedMarks
    <3> QED
      BY <1>1, <3>1, <3>2, <3>3 DEF Heard
  <2> QED
    BY <2>1, <2>2
<1> QED
  BY <1>2 DEF Marks, ProbedMarks, StaleDown

LEMMA MarksReady ==
    ASSUME TypeOK, TypeOK', Table, Marks, Chained, RollsEndWithApp, NEW p \in Pids, Ready(p)
    PROVE  Marks'
<1> DEFINE i == tab[p].inst
           r == [tab[p] EXCEPT !.mon = "live"]
           s == [tab[p] EXCEPT !.mon = "off"]
<1>0. tab[p] \in ProcessType /\ i \in Names /\ p # None
  BY TypeParts, InUse, NamesAssumption DEF Ready, Table
<1>1. /\ r \in ProcessType /\ s \in ProcessType /\ r.mon = "live"
      /\ Heard(tab[p], r) /\ Heard(tab[p], s)
  BY <1>0, FieldTypes, FieldHeard
<1> HIDE DEF r, s
<1>2. /\ Collect(r).mon \notin {"probe", "ready"}
      /\ Heard(tab[p], Collect(r)) /\ Heard(tab[p], Collect(s))
  BY <1>1, CollectHeard DEF Heard
<1>3. CASE roll.current = p
  <2> DEFINE q == processes[i]
  <2>1. /\ tab' = [x \in Pids |-> IF x = p THEN Collect(r)
                                  ELSE IF x = q THEN Retiring(tab[x]) ELSE tab[x]]
        /\ processes' = [processes EXCEPT ![i] = p]
        /\ ready' = ready \cup {i} /\ pc = "idle"
    BY <1>3, Zenon DEF Ready, r
  <2>2. ~Down
    BY <1>0, <1>3, <2>1 DEF Chained, RollsEndWithApp, Down
  <2>3. \A x \in Pids : x # p => Heard(tab[x], tab'[x])
    BY <2>1, KilledHeard DEF TypeOK, Heard
  <2>4. processes'[i] = p /\ \A j \in Names : j # i => processes'[j] = processes[j]
    BY <1>0, <2>1 DEF TypeOK
  <2>5. tab'[p].mon \notin {"probe", "ready"}
    BY <1>2, <2>1
  <2> HIDE DEF q, i
  <2> QED
    BY <1>0, <2>1, <2>2, <2>3, <2>4, <2>5, MarksMade
<1>4. CASE roll.current # p /\ processes[i] = p
  <2>1. tab' = [tab EXCEPT ![p] = r] /\ ready' = ready \cup {i} /\ processes' = processes
    BY <1>4, Zenon DEF Ready, r
  <2>2. ~Down
    BY <1>0, <1>4 DEF Down
  <2>3. tab'[p] = r /\ \A x \in Pids : x # p => Heard(tab[x], tab'[x])
    BY <2>1 DEF TypeOK, Heard
  <2> HIDE DEF i
  <2> QED
    BY <1>0, <1>1, <1>4, <2>1, <2>2, <2>3, MarksMade
<1>5. CASE roll.current # p /\ processes[i] # p
  <2>1. tab' = [tab EXCEPT ![p] = Collect(r)] \/ tab' = [tab EXCEPT ![p] = Collect(s)]
    BY <1>5, Zenon DEF Ready, r, s
  <2>2. UNCHANGED <<ready, processes, state>>
    BY <1>5 DEF Ready
  <2> QED
    BY <1>2, <2>1, <2>2, MarksTouched
<1> QED
  BY <1>3, <1>4, <1>5

(* What Exit makes of the process object that exited.                      *)
LEMMA ExitedHeard ==
    ASSUME NEW r \in ProcessType, NEW b \in BOOLEAN
    PROVE  Heard(r, Released([r EXCEPT !.exitEv = FALSE, !.timer = b]))
<1> DEFINE x == [r EXCEPT !.exitEv = FALSE, !.timer = b]
<1>1. x \in ProcessType /\ x.mon = r.mon
  BY DEF ProcessType
<1> HIDE DEF x
<1> QED
  BY <1>1, ReleasedHeard DEF Heard, x

LEMMA MarksExited ==
    ASSUME TypeOK, TypeOK', Table, Marks, NEW p \in Pids, NEW long \in BOOLEAN,
           p \in Live, processExited(p, long)
    PROVE  Marks'
<1> DEFINE i     == tab[p].inst
           base  == IF long THEN 0 ELSE failures[i]
           count == IF base < MaxRestarts[Proc(i)] THEN base + 1 ELSE base
           gone  == [processes EXCEPT ![i] = None]
           again == ~(state = "stopped" \/ i \in held) /\ shouldRestart(p)
           over  == again /\ count >= MaxRestarts[Proc(i)]
           flag  == again /\ ~over
           r     == [tab[p] EXCEPT !.exitEv = FALSE, !.timer = flag]
           away  == Released(r)
<1>1. /\ ready' = ready \ {i}
      /\ \/ /\ processes' = [n \in Names |-> None]
            /\ state' = "crashed"
         \/ /\ tab' = [tab EXCEPT ![p] = away]
            /\ processes' = gone
  BY Zenon DEF processExited
<1>2. i \in Names /\ processes[i] = p /\ p # None
  BY NamesAssumption DEF Live, Table, LiveOK
<1>3. CASE processes' = [n \in Names |-> None] /\ state' = "crashed"
  BY <1>3, MarksDown DEF Down
<1>4. CASE tab' = [tab EXCEPT ![p] = away] /\ processes' = gone
  <2>1. flag \in BOOLEAN /\ tab[p] \in ProcessType
    BY TypeParts
  <2> HIDE DEF flag
  <2>2. Heard(tab[p], away)
    BY <2>1, ExitedHeard
  <2> HIDE DEF away
  <2>3. ~Down /\ \A j \in ready' : processes'[j] = processes[j]
    BY <1>1, <1>2, <1>4 DEF TypeOK, Down
  <2>4. \A x \in Pids : Heard(tab[x], tab'[x])
    BY <1>4, <2>2 DEF TypeOK, Heard
  <2> QED
    BY <1>1, <2>3, <2>4, MarksKept
<1> QED
  BY <1>1, <1>3, <1>4

LEMMA MarksExit ==
    ASSUME TypeOK, TypeOK', Table, Marks, NEW p \in Pids, Exit(p)
    PROVE  Marks'
<1> DEFINE r == [tab[p] EXCEPT !.exitEv = FALSE]
<1>1. r \in ProcessType /\ Heard(tab[p], r)
  BY FieldTypes, FieldHeard DEF TypeOK
<1>2. CASE \E long \in BOOLEAN : p \in Live /\ processExited(p, long)
  BY <1>2, MarksExited
<1> HIDE DEF r
<1>3. CASE /\ tab' = [tab EXCEPT ![p] = Released(r)] \/ tab' = [tab EXCEPT ![p] = Collect(r)]
           /\ UNCHANGED <<ready, processes, state>>
  BY <1>1, <1>3, ReleasedHeard, CollectHeard, MarksTouched DEF Heard
<1>4. \/ \E long \in BOOLEAN : p \in Live /\ processExited(p, long)
      \/ /\ tab' = [tab EXCEPT ![p] = Released(r)] \/ tab' = [tab EXCEPT ![p] = Collect(r)]
         /\ UNCHANGED <<ready, processes, state>>
  BY Zenon DEF Exit, RollExit, r
<1> QED
  BY <1>2, <1>3, <1>4

(* A restart timer finds the place empty, in an app that is up.            *)
LEMMA MarksRestartDue ==
    ASSUME TypeOK, TypeOK', Table, Marks, NEW p \in Pids, RestartDue(p)
    PROVE  Marks'
<1> DEFINE i == tab[p].inst
           c == Collect([tab[p] EXCEPT !.timer = FALSE])
           after == [tab EXCEPT ![p] = c]
<1>1. i \in Names
  BY InUse DEF RestartDue, Table
<1>2. Heard(tab[p], c)
  BY TypeParts, FieldTypes, FieldHeard, CollectHeard DEF Heard
<1>3. \/ tab' = after /\ UNCHANGED <<processes, state>>
      \/ /\ Replaceable(i)
         /\ \E q \in Pids \ {p}, k \in Slots :
              /\ CanSpawn(i, q, k)
              /\ tab' = [after EXCEPT ![q] = Spawned(i, k, IsWeb(i))]
              /\ processes' = [processes EXCEPT ![i] = q]
      \/ processes' = [n \in Names |-> None] /\ state' = "crashed"
  BY Zenon DEF RestartDue
<1>4. ready' = ready
  BY DEF RestartDue
<1> HIDE DEF c
<1>5. ASSUME NEW q \in Pids \ {p}, NEW k \in Slots, CanSpawn(i, q, k), Replaceable(i),
             tab' = [after EXCEPT ![q] = Spawned(i, k, IsWeb(i))],
             processes' = [processes EXCEPT ![i] = q]
      PROVE  Marks'
  <2>1. tab[q] = NoProcess /\ processes[i] = None /\ state \in {"running", "starting"}
    BY <1>5 DEF CanSpawn, Replaceable
  <2>2. \A x \in Pids : x # q => Heard(tab[x], tab'[x])
    BY <1>2, <1>5 DEF TypeOK, Heard
  <2> HIDE DEF i
  <2> QED
    BY <1>1, <1>4, <1>5, <2>1, <2>2, MarksSpawned
<1>6. CASE tab' = after /\ UNCHANGED <<processes, state>>
  BY <1>2, <1>4, <1>6, MarksTouched
<1>7. CASE processes' = [n \in Names |-> None] /\ state' = "crashed"
  BY <1>7, MarksDown DEF Down
<1> QED
  BY <1>3, <1>5, <1>6, <1>7

(* So does the retire goroutine of a worker a roll waits for.              *)
LEMMA MarksRetired ==
    ASSUME TypeOK, TypeOK', Table, Marks, RollsEndWithApp, NEW p \in Pids, Retired(p)
    PROVE  Marks'
<1> DEFINE i == tab[p].inst
           c == Released([tab[p] EXCEPT !.drain = FALSE])
           after == [tab EXCEPT ![p] = c]
<1>1. i \in Names
  BY InUse DEF Retired, Table
<1>2. Heard(tab[p], c)
  BY TypeParts, FieldTypes, FieldHeard, ReleasedHeard DEF Heard
<1>3. \/ tab' = after /\ UNCHANGED <<processes, state>>
      \/ /\ roll.on /\ processes[i] = None
         /\ \E q \in Pids \ {p}, k \in Slots :
              /\ tab[q] = NoProcess
              /\ tab' = [after EXCEPT ![q] = Spawned(i, k, FALSE)]
              /\ processes' = [processes EXCEPT ![i] = q]
      \/ processes' = [n \in Names |-> None] /\ state' = "crashed"
  BY Zenon DEF Retired
<1>4. ready' = ready /\ pc = "idle"
  BY DEF Retired
<1> HIDE DEF c
<1>5. ASSUME NEW q \in Pids \ {p}, NEW k \in Slots, roll.on, processes[i] = None,
             tab[q] = NoProcess,
             tab' = [after EXCEPT ![q] = Spawned(i, k, FALSE)],
             processes' = [processes EXCEPT ![i] = q]
      PROVE  Marks'
  <2>1. state \in {"running", "starting"}
    BY <1>4, <1>5 DEF RollsEndWithApp
  <2>2. \A x \in Pids : x # q => Heard(tab[x], tab'[x])
    BY <1>2, <1>5 DEF TypeOK, Heard
  <2> HIDE DEF i
  <2> QED
    BY <1>1, <1>4, <1>5, <2>1, <2>2, MarksSpawned
<1>6. CASE tab' = after /\ UNCHANGED <<processes, state>>
  BY <1>2, <1>4, <1>6, MarksTouched
<1>7. CASE processes' = [n \in Names |-> None] /\ state' = "crashed"
  BY <1>7, MarksDown DEF Down
<1> QED
  BY <1>3, <1>5, <1>6, <1>7

LEMMA MarksStepExit ==
    ASSUME TypeOK, TypeOK', Marks, NEW s \in Lifecycle, StepExit(s)
    PROVE  Marks'
<1>1. ready' = ready /\ (FailStart \/ UNCHANGED <<state, processes, tab>>)
  BY Zenon DEF StepExit
<1> QED
  BY <1>1, MarksDown, FailIsDown, MarksSame

LEMMA MarksWorld ==
    ASSUME TypeOK, TypeOK', Marks, World
    PROVE  Marks'
<1>1. UNCHANGED <<ready, processes, state>>
  BY DEF World, Die, RetireKill, Probe, Unhealthy, JobExit
<1>2. ASSUME NEW p \in Pids, Die(p) PROVE Marks'
  <2>1. PICK c : tab' = [tab EXCEPT ![p].os = "dead", ![p].code = c]
    BY <1>2 DEF Die
  <2>2. \A x \in Pids : Heard(tab[x], tab'[x])
    BY <2>1 DEF TypeOK, ProcessType, Heard
  <2> QED
    BY <1>1, <2>2, MarksKept DEF Down
<1>3. ASSUME NEW p \in Pids, RetireKill(p) PROVE Marks'
  <2>1. tab' = [tab EXCEPT ![p] = Killed(tab[p])]
    BY <1>3 DEF RetireKill
  <2> QED
    BY <1>1, <2>1, TypeParts, KilledHeard, MarksTouched
<1>4. ASSUME NEW p \in Pids, Probe(p) PROVE Marks'
  <2>1. tab[p].mon = "probe" /\ \A x \in Pids : x # p => tab'[x] = tab[x]
    BY <1>4 DEF Probe, TypeOK
  <2>2. \A x \in Pids : Heard(tab[x], tab'[x])
    BY <2>1 DEF Heard
  <2> QED
    BY <1>1, <2>2, MarksKept DEF Down
<1>5. ASSUME NEW p \in Pids, Unhealthy(p) PROVE Marks'
  <2>1. tab' = [tab EXCEPT ![p].mon = "fail"]
    BY <1>5 DEF Unhealthy
  <2>2. \A x \in Pids : Heard(tab[x], tab'[x])
    BY <2>1 DEF TypeOK, ProcessType, Heard
  <2> QED
    BY <1>1, <2>2, MarksKept DEF Down
<1>6. ASSUME NEW s \in Lifecycle, JobExit(s) PROVE Marks'
  BY <1>6, MarksSame DEF JobExit
<1> QED
  BY <1>2, <1>3, <1>4, <1>5, <1>6 DEF World

LEMMA MarksNext ==
    ASSUME TypeOK, TypeOK', Table, Marks, Chained, RollsEndWithApp, [Next]_vars
    PROVE  Marks'
<1>1. CASE UNCHANGED vars
  BY <1>1, MarksSame DEF vars
<1>2. CASE Event
  BY <1>2, MarksStepExit, MarksReady, MarksHealthFailed, MarksExit, MarksRestartDue,
     MarksRetired DEF Event
<1> QED
  BY <1>1, <1>2, MarksRequest, MarksContinue, MarksWorld DEF Next

-----------------------------------------------------------------------------
(* Every action keeps its place in a handler.                              *)

(* A step of an idle goroutine that stays idle and leaves the roll.        *)
LEMMA ChainedStays ==
    ASSUME Chained, pc' \in {"idle", "launch"}, UNCHANGED roll
    PROVE  Chained'
BY DEF Chained

LEMMA ChainedStop ==
    ASSUME Chained, Stop, pc' \in {"idle", "launch"}
    PROVE  Chained'
<1>1. UNCHANGED roll \/ roll' = NoRoll
  BY DEF Stop
<1> QED
  BY <1>1, ChainedStays DEF Chained, NoRoll

LEMMA ChainedRequest ==
    ASSUME TypeOK, Chained, Request
    PROVE  Chained'
<1>1. CASE ReqStart
  BY <1>1, ChainedStays DEF ReqStart
<1>2. CASE ReqStop \/ ReqRestart
  BY <1>2, ChainedStop DEF ReqStop, ReqRestart
<1>3. ASSUME NEW n \in Names, ReqProcessStart(n) PROVE Chained'
  BY <1>3 DEF ReqProcessStart, Chained
<1>4. ASSUME NEW n \in Names, ReqProcessStop(n) PROVE Chained'
  BY <1>4, ChainedStays DEF ReqProcessStop
<1>5. ASSUME NEW n \in Names, ReqProcessRestart(n) PROVE Chained'
  <2>1. state' = state /\ UNCHANGED roll
    BY <1>5 DEF ReqProcessRestart, StopProcess
  <2>2. pc' = "idle" \/ (pc' = "pstart" /\ state \in {"running", "starting"})
    BY <1>5 DEF ReqProcessRestart
  <2> QED
    BY <2>1, <2>2 DEF Chained
<1>6. ASSUME NEW c \in Callers, NEW o \in Targets, beginRoll(c, o) PROVE Chained'
  <2>1. CASE roll.on
    <3>1. pc' = "idle" /\ roll' = [roll EXCEPT !.againOnly = roll'.againOnly,
                                   !.again = TRUE, !.againDone = roll'.againDone]
      BY <1>6, <2>1 DEF beginRoll, TypeOK, RollType
    <3>2. roll'.on = roll.on
      BY <3>1 DEF TypeOK, RollType
    <3> QED
      BY <2>1, <3>1, <3>2 DEF Chained
  <2>2. CASE ~roll.on
    <3>1. pc' = "begin" /\ roll'.on /\ state' = "running"
      BY <1>6, <2>2 DEF beginRoll, NewRoll, NoRoll, CanRoll
    <3> QED
      BY <3>1 DEF Chained
  <2> QED
    BY <2>1, <2>2
<1>7. ASSUME NEW s \in Updates[spec], ReqUpdate(s) PROVE Chained'
  <2>1. pc' = "idle"
    BY <1>7 DEF ReqUpdate
  <2>2. roll'.on = roll.on /\ roll'.current = roll.current
        /\ (roll'.step = "runs" => roll.step = "runs")
    BY <1>7 DEF ReqUpdate, TypeOK, RollType
  <2> QED
    BY <2>1, <2>2 DEF Chained
<1> QED
  BY <1>1, <1>2, <1>3, <1>4, <1>5, <1>6, <1>7 DEF Request

(* spawnAll begins with no ready mark: what is marked is down, and the     *)
(* app is starting.                                                        *)
LEMMA SpawnsUnmarked ==
    ASSUME TypeOK', Marks', StartsFindNoneServing', pc' = "spawn",
           todo' = StartSet', state' = "starting"
    PROVE  ready' = {}
<1>1. \A i \in ready' : processes'[i] = None
  BY DEF StartsFindNoneServing
<1> QED
  BY <1>1 DEF Marks, StaleDown, Down

LEMMA ChainedStart ==
    ASSUME TypeOK, TypeOK', Marks', Chained, StartsFindNoneServing',
           start \/ continueStart \/ spawnAll \/ spawnedAll \/ startProcess
    PROVE  Chained'
<1>0. UNCHANGED <<roll, spec>>
  BY DEF start, continueStart, spawnAll, spawnedAll, startProcess
<1>1. CASE start
  BY <1>0, <1>1 DEF start, Chained
<1>2. CASE continueStart
  <2>1. CASE pc' = "idle"
    BY <1>0, <2>1, ChainedStays
  <2>2. CASE pc' # "idle"
    <3>1. /\ pc' = "start" \/ (pc' = "spawn" /\ todo' = StartSet)
          /\ UNCHANGED state /\ pc \in {"create", "start"}
      BY <1>2, <2>2 DEF continueStart, Lifecycle
    <3>2. StartSet' = StartSet
      BY <1>0 DEF StartSet, InstancesOf
    <3> QED
      BY <1>0, <3>1, <3>2, SpawnsUnmarked DEF Chained
  <2> QED
    BY <2>1, <2>2
<1>3. CASE spawnAll
  <2>1. pc = "spawn" /\ (pc' = "idle" \/ UNCHANGED <<pc, state, ready>>)
    BY <1>3 DEF spawnAll
  <2> QED
    BY <1>0, <2>1, ChainedStays DEF Chained
<1>4. CASE spawnedAll
  BY <1>0, <1>4, ChainedStays DEF spawnedAll
<1>5. CASE startProcess
  <2>1. pc = "pstart" /\ (pc' = "idle" \/ (pc' = "pstart" /\ todo' # {}))
    BY <1>5 DEF startProcess
  <2>2. todo' # {} => UNCHANGED state
    BY <1>5 DEF startProcess
  <2> QED
    BY <1>0, <2>1, <2>2, ChainedStays DEF Chained
<1> QED
  BY <1>1, <1>2, <1>3, <1>4, <1>5

(* A handler that goes on with its roll in an app that is up.              *)
LEMMA ChainedOn ==
    ASSUME pc' \in {"begin", "plan", "advance", "abort", "finish"}, roll'.on,
           pc' # "finish" => state' \in {"running", "starting"}
    PROVE  Chained'
BY DEF Chained

LEMMA ChainedRoll ==
    ASSUME TypeOK, Chained, runRoll \/ planRoll \/ advanceRoll \/ abortRoll \/ finishRoll
    PROVE  Chained'
<1>0. roll.on /\ roll \in RollType
  BY DEF runRoll, planRoll, advanceRoll, abortRoll, finishRoll, Chained, TypeOK
<1>1. CASE runRoll
  <2>1. pc' \in {"idle", "abort", "plan"} /\ UNCHANGED state /\ pc = "begin"
    BY <1>1 DEF runRoll
  <2>2. roll' = [roll EXCEPT !.step = "runs"] \/ UNCHANGED roll
    BY <1>1 DEF runRoll
  <2>3. roll'.on
    BY <1>0, <2>2 DEF RollType
  <2> QED
    BY <2>1, <2>3 DEF Chained
<1>2. CASE planRoll
  <2>1. roll'.on
    BY <1>0, <1>2 DEF planRoll, RollType
  <2> QED
    BY <1>2, <2>1 DEF planRoll, Chained
<1>3. CASE advanceRoll
  <2>1. roll'.on
    BY <1>0, <1>3 DEF advanceRoll, stepRetire, stepWorker, stepReplace, RollType
  <2>2. pc' \in {"idle", "finish"} \/ (UNCHANGED state /\ pc' \in {"advance", "abort"})
    BY <1>3 DEF advanceRoll, stepRetire, stepWorker, stepReplace
  <2> QED
    BY <1>3, <2>1, <2>2 DEF Chained, advanceRoll
<1>4. CASE abortRoll
  BY <1>0, <1>4, ChainedOn DEF abortRoll, RollType
<1>5. CASE finishRoll
  <2>1. \/ pc' = "begin" /\ roll'.on /\ state' = "running"
        \/ pc' = "idle" /\ roll' = NoRoll
    BY <1>5 DEF finishRoll, NewRoll, NoRoll
  <2> QED
    BY <2>1 DEF Chained, NoRoll
<1> QED
  BY <1>1, <1>2, <1>3, <1>4, <1>5

(* The events a roll waits for find it on, and the app up.                 *)
LEMMA ChainedEvent ==
    ASSUME TypeOK, TypeOK', Marks', Chained, RollsEndWithApp, StartsFindNoneServing', Event
    PROVE  Chained'
<1>0. roll \in RollType /\ roll' \in RollType
  BY DEF TypeOK
<1>1. ASSUME NEW s \in Lifecycle, StepExit(s) PROVE Chained'
  <2>1. CASE s = "start" /\ roll.step = "runs"
    <3>1. /\ roll' = [roll EXCEPT !.step = "none"] /\ pc = "idle" /\ UNCHANGED state
          /\ pc' \in {"plan", "abort"}
      BY <1>1, <2>1 DEF StepExit
    <3>2. roll.on /\ state \in {"running", "starting"}
      BY <2>1, <3>1 DEF Chained, RollsEndWithApp
    <3>3. roll'.on
      BY <1>0, <3>1, <3>2 DEF RollType
    <3> QED
      BY <3>1, <3>2, <3>3, ChainedOn
  <2>2. CASE ~(s = "start" /\ roll.step = "runs")
    <3>1. /\ UNCHANGED <<roll, spec>>
          /\ \/ pc' = "idle"
             \/ /\ state = "starting" /\ UNCHANGED state
                /\ pc' = "start" \/ (pc' = "spawn" /\ todo' = StartSet)
      BY <1>1, <2>2 DEF StepExit
    <3>2. StartSet' = StartSet
      BY <3>1 DEF StartSet, InstancesOf
    <3> QED
      BY <3>1, <3>2, SpawnsUnmarked, ChainedStays DEF Chained
  <2> QED
    BY <2>1, <2>2
<1>2. ASSUME NEW p \in Pids, Ready(p) \/ Exit(p) PROVE Chained'
  <2>1. \/ pc' = "idle" /\ UNCHANGED roll
        \/ /\ roll.current = p /\ roll' = [roll EXCEPT !.current = None]
           /\ pc' \in {"advance", "abort"} /\ UNCHANGED state
    BY <1>2, Zenon DEF Ready, Exit, RollExit
  <2>2. CASE pc' = "idle" /\ UNCHANGED roll
    BY <2>2, ChainedStays
  <2>3. CASE /\ roll.current = p /\ roll' = [roll EXCEPT !.current = None]
             /\ pc' \in {"advance", "abort"} /\ UNCHANGED state
    <3>1. pc = "idle" /\ p # None
      BY <1>2, NamesAssumption DEF Ready, Exit
    <3>2. roll.on /\ state \in {"running", "starting"}
      BY <2>3, <3>1 DEF Chained, RollsEndWithApp
    <3>3. roll'.on
      BY <1>0, <2>3, <3>2 DEF RollType
    <3> QED
      BY <2>3, <3>2, <3>3, ChainedOn
  <2> QED
    BY <2>1, <2>2, <2>3
<1>3. ASSUME NEW p \in Pids, HealthFailed(p) \/ RestartDue(p) PROVE Chained'
  BY <1>3, ChainedStays DEF HealthFailed, RestartDue
<1>4. ASSUME NEW p \in Pids, Retired(p) PROVE Chained'
  <2>1. \/ pc' = "idle" /\ UNCHANGED roll
        \/ /\ roll.on /\ roll' = [roll EXCEPT !.waiting = None]
           /\ pc' = "finish" \/ (pc' = "advance" /\ UNCHANGED state)
    BY <1>4, Zenon DEF Retired
  <2>2. CASE pc' = "idle" /\ UNCHANGED roll
    BY <2>2, ChainedStays
  <2>3. CASE /\ roll.on /\ roll' = [roll EXCEPT !.waiting = None]
             /\ pc' = "finish" \/ (pc' = "advance" /\ UNCHANGED state)
    <3>1. state \in {"running", "starting"}
      BY <1>4, <2>3 DEF RollsEndWithApp, Retired
    <3>2. roll'.on
      BY <1>0, <2>3 DEF RollType
    <3> QED
      BY <2>3, <3>1, <3>2, ChainedOn
  <2> QED
    BY <2>1, <2>2, <2>3
<1> QED
  BY <1>1, <1>2, <1>3, <1>4 DEF Event

LEMMA ChainedNext ==
    ASSUME TypeOK, TypeOK', Marks', Chained, RollsEndWithApp, StartsFindNoneServing',
           [Next]_vars
    PROVE  Chained'
<1>1. CASE UNCHANGED vars
  BY <1>1 DEF vars, Chained
<1>2. CASE World
  BY <1>2, ChainedStays DEF World, Die, RetireKill, Probe, Unhealthy, JobExit
<1>3. CASE Continue
  BY <1>3, ChainedStart, ChainedRoll DEF Continue
<1> QED
  BY <1>1, <1>2, <1>3, ChainedRequest, ChainedEvent DEF Next

LEMMA RollsInit == Init => Marks /\ Chained
BY DEF Init, Marks, ProbedMarks, StaleDown, Chained, NoRoll

(* A ready mark is always the mark of a copy that passed its own check     *)
(* (runtime.go, startProcess, spawnAll and processExited; roll.go,         *)
(* rollEvent), in every run where no roll outlives its app and no start    *)
(* finds a copy serving.                                                   *)
THEOREM ReadyAfterProbe == Spec => ReadyWasProbed
<1>1. Init => TypeOK /\ Table /\ Marks /\ Chained
  BY TypeInit, TableInit, RollsInit
<1>2. /\ TypeOK /\ Table /\ Marks /\ Chained
      /\ RollsEndWithApp /\ StartsFindNoneServing'
      /\ [Next]_vars
      => (TypeOK /\ Table /\ Marks /\ Chained)'
  BY TableNext, MarksNext, ChainedNext
<1>3. Marks => ProbedMarks
  BY DEF Marks
<1> QED
  BY <1>1, <1>2, <1>3, PTL DEF Spec, ReadyWasProbed

-----------------------------------------------------------------------------
(* The inductive invariant behind RollDriven.                              *)

RollHandlers == {"begin", "plan", "advance", "abort", "finish"}

(* The process object still has an exit to report, or a check.             *)
Reports(r) == r.exitEv /\ r.os # "none" /\ (r.os = "dead" \/ r.mon # "off")

(* RollWaitsForEvent, with what killing the booting copy needs.            *)
StepReports == roll.step = "runs" /\ job["start"] # "idle"
CopyReports == roll.current # None /\ Reports(tab[roll.current])
WorkerReports == roll.waiting # None /\ tab[roll.waiting].drain

AnyReports == StepReports \/ CopyReports \/ WorkerReports

(* Outside its own handlers a roll waits for something that reports; the   *)
(* step it waits for is one of the spec, and what it replaces are web      *)
(* processes, which are watched.                                           *)
Driven ==
    /\ roll.on /\ pc \notin RollHandlers => AnyReports
    /\ roll.step = "runs" => "start" \in spec.steps
    /\ \A s \in roll.steps : s[2] = "replace" => IsWeb(s[1])

(* What a process object has yet to report is not taken away.              *)
Awaits(r, s) ==
    /\ Reports(r) => Reports(s)
    /\ r.drain => s.drain

LEMMA CollectAwaits ==
    ASSUME NEW r \in ProcessType
    PROVE  Awaits(r, Collect(r))
BY DEF Collect, Awaits, Reports

LEMMA KilledAwaits ==
    ASSUME NEW r \in ProcessType
    PROVE  /\ Awaits(r, Killed(r)) /\ Awaits(r, Retiring(r))
           /\ Reports(r) => Killed(r).os = "dead" /\ Killed(r).exitEv
BY DEF Killed, Retiring, Awaits, Reports, ProcessType

LEMMA ReleasedAwaits ==
    ASSUME NEW r \in ProcessType
    PROVE  /\ r.drain => Released(r).drain
           /\ r.exitEv /\ r.os = "dead" => Reports(Released(r))
<1> DEFINE m == IF r.mon \in {"probe", "live"} THEN "off" ELSE r.mon
           x == [r EXCEPT !.mon = m, !.slot = 0, !.code = "ok", !.released = TRUE]
<1>1. x.drain = r.drain /\ x.exitEv = r.exitEv /\ x.os = r.os /\ r.drain \in BOOLEAN
  BY DEF ProcessType
<1>2. Released(r) = Collect(x)
  BY DEF Released
<1> HIDE DEF x
<1>3. x.drain \/ x.exitEv => Collect(x) = x
  BY DEF Collect
<1> QED
  BY <1>1, <1>2, <1>3 DEF Reports

LEMMA KillAwaits ==
    ASSUME NEW r \in ProcessType
    PROVE  Awaits(r, Released(Killed(r)))
<1>1. Killed(r) \in ProcessType
  BY HelperTypes
<1> QED
  BY <1>1, KilledAwaits, ReleasedAwaits DEF Awaits

LEMMA FieldAwaits ==
    ASSUME NEW r \in ProcessType, NEW b, NEW m \in {"probe", "ready", "live", "fail"}
    PROVE  /\ Awaits(r, [r EXCEPT !.timer = b])
           /\ Awaits(r, [r EXCEPT !.mon = m])
           /\ r.drain => [r EXCEPT !.mon = "off"].drain
           /\ r.drain => [r EXCEPT !.exitEv = b].drain
           /\ r.drain => [r EXCEPT !.exitEv = FALSE, !.timer = b].drain
           /\ Reports(r) => Reports(Killed([r EXCEPT !.mon = "off"]))
           /\ r.drain => Killed([r EXCEPT !.mon = "off"]).drain
BY DEF Awaits, Reports, Killed, ProcessType

(* A process object in use is not free.                                    *)
LEMMA FreeAwaits == \A s : Awaits(NoProcess, s)
BY DEF Awaits, Reports, NoProcess

-----------------------------------------------------------------------------
(* A step that leaves what the roll waits for.                             *)

SameWaits ==
    /\ roll'.on = roll.on /\ roll'.step = roll.step /\ roll'.steps = roll.steps
    /\ roll'.current = roll.current /\ roll'.waiting = roll.waiting

LEMMA DrivenKept ==
    ASSUME Driven, SameWaits, spec' = spec, pc \notin RollHandlers,
           job["start"] # "idle" => job'["start"] # "idle",
           roll.current # None =>
               (Reports(tab[roll.current]) => Reports(tab'[roll.current])),
           roll.waiting # None =>
               (tab[roll.waiting].drain => tab'[roll.waiting].drain)
    PROVE  Driven'
<1>1. roll.on => AnyReports
  BY DEF Driven
<1>2. AnyReports => AnyReports'
  BY DEF AnyReports, StepReports, CopyReports, WorkerReports, SameWaits
<1>3. roll'.step = "runs" => "start" \in spec'.steps
  BY DEF Driven, SameWaits
<1>4. \A s \in roll'.steps : s[2] = "replace" => IsWeb(s[1])'
  BY DEF Driven, SameWaits, IsWeb
<1> QED
  BY <1>1, <1>2, <1>3, <1>4 DEF Driven, SameWaits

LEMMA DrivenLeft ==
    ASSUME TypeOK, Driven, UNCHANGED <<roll, spec>>, pc \notin RollHandlers,
           job["start"] # "idle" => job'["start"] # "idle",
           \A p \in Pids : Awaits(tab[p], tab'[p])
    PROVE  Driven'
<1>1. SameWaits
  BY DEF SameWaits
<1>2. roll.current \in Pids \cup {None} /\ roll.waiting \in Pids \cup {None}
  BY DEF TypeOK, RollType
<1> QED
  BY <1>1, <1>2, DrivenKept DEF Awaits

(* A step inside the roll, or out of it.                                   *)
LEMMA DrivenInside ==
    ASSUME Driven, spec' = spec, pc' \in RollHandlers \/ ~roll'.on \/ AnyReports',
           roll'.step = "runs" => roll.step = "runs",
           roll'.steps \subseteq roll.steps
    PROVE  Driven'
<1>1. \A s \in roll'.steps : s[2] = "replace" => IsWeb(s[1])'
  BY DEF Driven, IsWeb
<1> QED
  BY <1>1 DEF Driven

LEMMA DrivenOff ==
    ASSUME ~roll'.on \/ pc' \in RollHandlers, roll'.step = "none", roll'.steps = {}
    PROVE  Driven'
BY DEF Driven

LEMMA FreshRoll ==
    ASSUME NEW o, NEW d
    PROVE  /\ NoRoll.step = "none" /\ NoRoll.steps = {} /\ ~NoRoll.on
           /\ NewRoll(o, d).step = "none" /\ NewRoll(o, d).steps = {}
BY DEF NewRoll, NoRoll

-----------------------------------------------------------------------------
(* Every action leaves a roll something to wait for.                       *)

LEMMA KillsAwait ==
    ASSUME TypeOK, NEW S, tab' = KillAndRelease(S)
    PROVE  \A p \in Pids : Awaits(tab[p], tab'[p])
<1> TAKE p \in Pids
<1>1. tab[p] \in ProcessType
  BY TypeParts
<1>2. tab'[p] = Released(Killed(tab[p])) \/ tab'[p] = tab[p]
  BY DEF KillAndRelease
<1> QED
  BY <1>1, <1>2, KillAwaits DEF Awaits

LEMMA DrivenStop ==
    ASSUME TypeOK, Driven, Stop, spec' = spec, pc = "idle", pc' \in {"idle", "launch"}
    PROVE  Driven'
<1>1. CASE state = "stopped"
  <2>1. UNCHANGED <<roll, tab, job>>
    BY <1>1 DEF Stop
  <2> QED
    BY <2>1, DrivenLeft DEF Awaits, RollHandlers
<1>2. CASE state # "stopped"
  <2>1. roll' = NoRoll
    BY <1>2 DEF Stop
  <2> QED
    BY <2>1, FreshRoll, DrivenOff
<1> QED
  BY <1>1, <1>2

(* A spec of the same shape keeps the step a roll waits for, and the web   *)
(* entries it replaces.                                                    *)
LEMMA DrivenUpdate ==
    ASSUME TypeOK, Driven, SteadyShape, NEW s \in Updates[spec], ReqUpdate(s)
    PROVE  Driven'
<1>1. s \in Specs /\ s.web = spec.web /\ s.steps = spec.steps
  BY InputsAssumption DEF SteadyShape, TypeOK
<1>2. UNCHANGED <<roll, tab>> /\ spec' = s /\ pc = "idle" /\ pc' = "idle"
  BY <1>1 DEF ReqUpdate, Driven
<1>3. StepReports => StepReports'
  BY <1>1, <1>2 DEF ReqUpdate, StepReports, Driven, Lifecycle
<1>4. AnyReports => AnyReports'
  BY <1>2, <1>3 DEF AnyReports, CopyReports, WorkerReports
<1>5. \A x : IsWeb(x)' = IsWeb(x)
  BY <1>1, <1>2 DEF IsWeb
<1> QED
  BY <1>1, <1>2, <1>4, <1>5 DEF Driven

LEMMA DrivenRequest ==
    ASSUME TypeOK, Driven, SteadyShape, Request
    PROVE  Driven'
<1>1. CASE ReqStart
  BY <1>1, DrivenLeft DEF ReqStart, Awaits, RollHandlers
<1>2. CASE ReqStop \/ ReqRestart
  BY <1>2, DrivenStop DEF ReqStop, ReqRestart
<1>3. ASSUME NEW n \in Names, ReqProcessStart(n) PROVE Driven'
  BY <1>3, DrivenLeft DEF ReqProcessStart, Awaits, RollHandlers
<1>4. ASSUME NEW n \in Names, ReqProcessStop(n) \/ ReqProcessRestart(n) PROVE Driven'
  <2>1. /\ UNCHANGED <<roll, spec, job>> /\ pc = "idle"
        /\ tab' = KillAndRelease({processes[i] : i \in resolve(n)} \ {None})
    BY <1>4 DEF ReqProcessStop, ReqProcessRestart, StopProcess
  <2> QED
    BY <2>1, KillsAwait, DrivenLeft DEF RollHandlers
<1>5. ASSUME NEW c \in Callers, NEW o \in Targets, beginRoll(c, o) PROVE Driven'
  <2>0. UNCHANGED <<spec, tab, job>> /\ pc = "idle" /\ roll \in RollType
    BY <1>5 DEF beginRoll, TypeOK
  <2>1. CASE roll.on
    <3>1. roll' = [roll EXCEPT !.againOnly = roll'.againOnly,
                               !.again = TRUE, !.againDone = roll'.againDone]
      BY <1>5, <2>0, <2>1 DEF beginRoll, RollType
    <3>2. SameWaits
      BY <2>0, <3>1 DEF RollType, SameWaits
    <3> QED
      BY <2>0, <3>2, DrivenKept DEF RollHandlers
  <2>2. CASE ~roll.on
    <3>1. roll' = NewRoll(o, {c}) /\ pc' = "begin"
      BY <1>5, <2>2 DEF beginRoll
    <3> QED
      BY <3>1, FreshRoll, DrivenOff DEF RollHandlers
  <2> QED
    BY <2>1, <2>2
<1> QED
  BY <1>1, <1>2, <1>3, <1>4, <1>5, DrivenUpdate DEF Request

(* A spawn uses a free process object, a crash kills.                      *)
LEMMA SpawnsAwait ==
    ASSUME TypeOK, NEW q \in Pids, tab[q] = NoProcess, NEW r, tab' = [tab EXCEPT ![q] = r]
    PROVE  \A p \in Pids : Awaits(tab[p], tab'[p])
BY FreeAwaits DEF TypeOK, Awaits

LEMMA FailsAwait ==
    ASSUME TypeOK, FailStart
    PROVE  \A p \in Pids : Awaits(tab[p], tab'[p])
BY KillsAwait DEF FailStart

LEMMA DrivenStart ==
    ASSUME TypeOK, Driven, start \/ continueStart \/ spawnAll \/ spawnedAll \/ startProcess
    PROVE  Driven'
<1>0. UNCHANGED <<roll, spec>> /\ pc \notin RollHandlers
  BY DEF start, continueStart, spawnAll, spawnedAll, startProcess, Lifecycle, RollHandlers
<1>1. job["start"] # "idle" => job'["start"] # "idle"
  <2>1. UNCHANGED job \/ (pc \in Lifecycle /\ job' = [job EXCEPT ![pc] = "run"])
    BY DEF start, continueStart, spawnAll, spawnedAll, startProcess
  <2> QED
    BY <2>1 DEF TypeOK, Lifecycle
<1>2. \/ tab' = tab \/ FailStart
      \/ \E q \in Pids : \E r : tab[q] = NoProcess /\ tab' = [tab EXCEPT ![q] = r]
      \/ spawnedAll
  <2>1. CASE start \/ continueStart
    BY <2>1, Zenon DEF start, continueStart
  <2>2. CASE spawnAll
    BY <2>2, Zenon DEF spawnAll, CanSpawn
  <2>3. CASE startProcess
    BY <2>3, Zenon DEF startProcess, CanSpawn
  <2> QED
    BY <2>1, <2>2, <2>3
<1>3. CASE spawnedAll
  <2>1. ASSUME NEW p \in Pids
        PROVE  tab'[p] = tab[p] \/ tab'[p] = [tab[p] EXCEPT !.mon = "probe"]
    BY <1>3 DEF spawnedAll
  <2>2. ASSUME NEW p \in Pids
        PROVE  Awaits(tab[p], tab'[p])
    <3>1. Awaits(tab[p], [tab[p] EXCEPT !.mon = "probe"])
      BY TypeParts, FieldAwaits
    <3> QED
      BY <2>1, <3>1 DEF Awaits
  <2> QED
    BY <1>0, <1>1, <2>2, DrivenLeft
<1>4. CASE tab' = tab
  BY <1>0, <1>1, <1>4, DrivenLeft DEF Awaits
<1> QED
  BY <1>0, <1>1, <1>2, <1>3, <1>4, SpawnsAwait, FailsAwait, DrivenLeft

LEMMA DrivenAdvance ==
    ASSUME TypeOK, TypeOK', Table, Driven, advanceRoll
    PROVE  Driven'
<1>0. roll \in RollType /\ spec' = spec /\ pc = "advance"
  BY DEF TypeOK, advanceRoll
<1>1. ASSUME NEW s \in NextSteps, stepRetire(s) PROVE Driven'
  <2>1. pc' = "advance" /\ roll' = [roll EXCEPT !.steps = @ \ {s}]
    BY <1>0, <1>1 DEF stepRetire
  <2>2. roll'.step = roll.step /\ roll'.steps \subseteq roll.steps
    BY <1>0, <2>1 DEF RollType
  <2> QED
    BY <1>0, <2>1, <2>2, DrivenInside DEF RollHandlers
<1>2. ASSUME NEW s \in NextSteps, stepWorker(s) PROVE Driven'
  <2>1. CASE processes[s[1]] # None /\ retire(s[1]) /\ pc' = "idle"
             /\ roll' = [roll EXCEPT !.steps = @ \ {s}, !.waiting = processes[s[1]]]
    <3>1. s[1] \in Names /\ processes[s[1]] \in Pids
      BY <2>1 DEF NextSteps, TypeOK, RollType
    <3>2. tab'[processes[s[1]]].drain
      BY <2>1, <3>1, RetiringFields, TypeParts DEF retire, TypeOK
    <3>3. /\ roll'.step = roll.step /\ roll'.steps \subseteq roll.steps
          /\ roll'.waiting = processes[s[1]]
      BY <1>0, <2>1 DEF RollType
    <3>4. AnyReports'
      BY <2>1, <3>2, <3>3 DEF AnyReports, WorkerReports
    <3> QED
      BY <1>0, <3>3, <3>4, DrivenInside
  <2>2. CASE pc' \in {"advance", "finish"} /\ roll' = [roll EXCEPT !.steps = @ \ {s}]
    <3>1. roll'.step = roll.step /\ roll'.steps \subseteq roll.steps
      BY <1>0, <2>2 DEF RollType
    <3> QED
      BY <1>0, <2>2, <3>1, DrivenInside DEF RollHandlers
  <2> QED
    BY <1>0, <1>2, <2>1, <2>2 DEF stepWorker
<1>3. ASSUME NEW s \in NextSteps, stepReplace(s) PROVE Driven'
  <2>1. CASE pc' = "abort" /\ roll' = [roll EXCEPT !.steps = @ \ {s}]
    <3>1. roll'.step = roll.step /\ roll'.steps \subseteq roll.steps
      BY <1>0, <2>1 DEF RollType
    <3> QED
      BY <1>0, <2>1, <3>1, DrivenInside DEF RollHandlers
  <2>2. ASSUME NEW p \in Pids, NEW k \in Slots,
               tab' = [tab EXCEPT ![p] = Spawned(s[1], k, IsWeb(s[1]))],
               roll' = [roll EXCEPT !.steps = @ \ {s}, !.current = p]
        PROVE  Driven'
    <3>1. /\ roll'.step = roll.step /\ roll'.steps \subseteq roll.steps
          /\ roll'.current = p
      BY <1>0, <2>2 DEF RollType
    <3>2. IsWeb(s[1])
      BY <1>3 DEF NextSteps, stepReplace, Driven
    <3>3. Reports(tab'[p])
      BY <2>2, <3>2 DEF TypeOK, Spawned, NoProcess, Reports
    <3>4. AnyReports'
      BY <3>1, <3>3, NamesAssumption DEF AnyReports, CopyReports
    <3> QED
      BY <1>0, <3>1, <3>4, DrivenInside
  <2> QED
    BY <1>3, <2>1, <2>2, Zenon DEF stepReplace
<1>4. CASE pc' = "finish" /\ UNCHANGED roll
  BY <1>0, <1>4, DrivenInside DEF RollHandlers
<1> QED
  BY <1>1, <1>2, <1>3, <1>4, Zenon DEF advanceRoll

LEMMA DrivenRoll ==
    ASSUME TypeOK, Driven, runRoll \/ planRoll \/ abortRoll \/ finishRoll
    PROVE  Driven'
<1>0. roll \in RollType /\ spec' = spec
  BY DEF TypeOK, runRoll, planRoll, abortRoll, finishRoll
<1>1. CASE runRoll
  <2>1. CASE pc' \in {"abort", "plan"} /\ UNCHANGED roll
    BY <1>0, <2>1, DrivenInside DEF RollHandlers
  <2>2. CASE "start" \in spec.steps /\ roll' = [roll EXCEPT !.step = "runs"]
             /\ job' = [job EXCEPT !["start"] = "run"]
    <3>1. roll'.step = "runs" /\ roll'.steps = roll.steps
      BY <1>0, <2>2 DEF RollType
    <3>2. job'["start"] = "run"
      BY <2>2 DEF TypeOK, Lifecycle
    <3>3. \A x : IsWeb(x)' = IsWeb(x)
      BY <1>0 DEF IsWeb
    <3> QED
      BY <1>0, <2>2, <3>1, <3>2, <3>3 DEF Driven, AnyReports, StepReports
  <2> QED
    BY <1>1, <2>1, <2>2 DEF runRoll
<1>2. CASE planRoll
  <2>1. /\ pc' = "advance" /\ roll'.step = roll.step
        /\ roll'.steps = (ReplaceSet \X {"replace"}) \cup (WorkerSet \X {"worker"})
                         \cup (RetireSet \X {"retire"})
    BY <1>0, <1>2 DEF planRoll, RollType
  <2>2. \A s \in roll'.steps : s[2] = "replace" => s[1] \in ReplaceSet
    BY <2>1
  <2>3. \A i \in ReplaceSet : IsWeb(i)
    BY DEF ReplaceSet, InstancesOf, IsWeb, Proc
  <2>4. \A i : IsWeb(i)' = IsWeb(i)
    BY <1>0 DEF IsWeb
  <2> QED
    BY <1>0, <2>1, <2>2, <2>3, <2>4 DEF Driven, RollHandlers
<1>3. CASE abortRoll
  <2>1. roll'.step = roll.step /\ roll'.steps = roll.steps /\ pc' = "finish"
    BY <1>0, <1>3 DEF abortRoll, RollType
  <2> QED
    BY <1>0, <2>1, DrivenInside DEF RollHandlers
<1>4. CASE finishRoll
  <2>1. \/ roll' = NoRoll
        \/ roll' = NewRoll(roll.againOnly, roll.againDone) /\ pc' = "begin"
    BY <1>4 DEF finishRoll
  <2> QED
    BY <2>1, FreshRoll, DrivenOff DEF RollHandlers
<1> QED
  BY <1>1, <1>2, <1>3, <1>4

(* A step of the world or of a process event: the roll stays as it is and  *)
(* one process object changes, or the app crashes.                         *)
LEMMA DrivenTouched ==
    ASSUME TypeOK, Driven, UNCHANGED <<roll, spec, job>>, pc = "idle",
           NEW p \in Pids, NEW r, tab' = [tab EXCEPT ![p] = r],
           roll.current = p => (Reports(tab[p]) => Reports(r)),
           tab[p].drain => r.drain
    PROVE  Driven'
<1>1. tab'[p] = r /\ \A x \in Pids : x # p => tab'[x] = tab[x]
  BY DEF TypeOK
<1>2. SameWaits
  BY DEF SameWaits
<1>3. roll.current \in Pids \cup {None} /\ roll.waiting \in Pids \cup {None}
  BY DEF TypeOK, RollType
<1> QED
  BY <1>1, <1>2, <1>3, DrivenKept DEF RollHandlers

LEMMA DrivenReady ==
    ASSUME TypeOK, Table, Driven, NEW p \in Pids, Ready(p)
    PROVE  Driven'
<1> DEFINE r == [tab[p] EXCEPT !.mon = "live"]
           s == [tab[p] EXCEPT !.mon = "off"]
<1>0. pc = "idle" /\ UNCHANGED <<spec, job>> /\ roll \in RollType
  BY DEF Ready, TypeOK
<1>1. CASE roll.current = p
  <2>1. roll' = [roll EXCEPT !.current = None] /\ pc' = "advance"
    BY <1>1, Zenon DEF Ready
  <2>2. roll'.step = roll.step /\ roll'.steps = roll.steps
    BY <1>0, <2>1 DEF RollType
  <2> QED
    BY <1>0, <2>1, <2>2, DrivenInside DEF RollHandlers
<1>2. CASE roll.current # p
  <2>1. UNCHANGED roll
    BY <1>2 DEF Ready
  <2>2. \/ tab' = [tab EXCEPT ![p] = r]
        \/ tab' = [tab EXCEPT ![p] = Collect(r)]
        \/ tab' = [tab EXCEPT ![p] = Collect(s)]
    BY <1>2, Zenon DEF Ready, r, s
  <2>3. /\ r \in ProcessType /\ s \in ProcessType
        /\ tab[p].drain => r.drain /\ s.drain
    BY TypeParts, FieldTypes, FieldAwaits DEF Awaits
  <2> HIDE DEF r, s
  <2>4. tab[p].drain => Collect(r).drain /\ Collect(s).drain
    BY <2>3, CollectAwaits DEF Awaits
  <2> QED
    BY <1>0, <1>2, <2>1, <2>2, <2>3, <2>4, DrivenTouched
<1> QED
  BY <1>1, <1>2

LEMMA DrivenHealthFailed ==
    ASSUME TypeOK, Driven, NEW p \in Pids, HealthFailed(p)
    PROVE  Driven'
<1> DEFINE r == [tab[p] EXCEPT !.mon = "off"]
<1>0. pc = "idle" /\ UNCHANGED <<roll, spec, job>>
  BY DEF HealthFailed
<1>1. \/ tab' = [tab EXCEPT ![p] = Killed(r)]
      \/ tab' = [tab EXCEPT ![p] = Collect(r)] /\ roll.current # p
  BY Zenon DEF HealthFailed
<1>2. /\ r \in ProcessType
      /\ tab[p].drain => r.drain /\ Killed(r).drain
      /\ Reports(tab[p]) => Reports(Killed(r))
  BY TypeParts, FieldTypes, FieldAwaits
<1> HIDE DEF r
<1>3. tab[p].drain => Collect(r).drain
  BY <1>2, CollectAwaits DEF Awaits
<1> QED
  BY <1>0, <1>1, <1>2, <1>3, DrivenTouched

(* processExited takes from no other process what it has to report.        *)
LEMMA ExitAwaits ==
    ASSUME TypeOK, Table, NEW p \in Pids, p \in Live, roll.current # p, Exit(p)
    PROVE  /\ ~tab[p].drain
           /\ \A x \in Pids : x # p => Awaits(tab[x], tab'[x])
<1>1. ~tab[p].drain
  BY NamesAssumption DEF Live, Table, LiveOK
<1>2. PICK long \in BOOLEAN : processExited(p, long)
  BY DEF Exit
<1>3. ASSUME NEW x \in Pids, x # p
      PROVE  tab'[x] = tab[x] \/ tab'[x] = Released(Killed(tab[x]))
  <2>1. \E y : \/ tab' = [KillAndRelease((Live \cup retiring) \ {p}) EXCEPT ![p] = y]
               \/ tab' = [tab EXCEPT ![p] = y]
    BY <1>2, Zenon DEF processExited
  <2> QED
    BY <1>3, <2>1 DEF KillAndRelease, TypeOK
<1>4. ASSUME NEW x \in Pids, x # p
      PROVE  Awaits(tab[x], tab'[x])
  BY <1>3, <1>4, TypeParts, KillAwaits DEF Awaits
<1> QED
  BY <1>1, <1>4

LEMMA DrivenExit ==
    ASSUME TypeOK, Table, Driven, NEW p \in Pids, Exit(p)
    PROVE  Driven'
<1>0. pc = "idle" /\ UNCHANGED <<spec, job>> /\ roll \in RollType
  BY DEF Exit, TypeOK
<1>1. CASE roll.current = p
  <2>1. roll' = [roll EXCEPT !.current = None] /\ pc' = "abort"
    BY <1>1, Zenon DEF Exit, RollExit
  <2>2. roll'.step = roll.step /\ roll'.steps = roll.steps
    BY <1>0, <2>1 DEF RollType
  <2> QED
    BY <1>0, <2>1, <2>2, DrivenInside DEF RollHandlers
<1>2. CASE roll.current # p /\ p \notin Live
  <2> DEFINE r == [tab[p] EXCEPT !.exitEv = FALSE]
  <2>1. UNCHANGED roll /\ tab' = [tab EXCEPT ![p] = Collect(r)]
    BY <1>2, Zenon DEF Exit
  <2>2. r \in ProcessType /\ (tab[p].drain => r.drain)
    BY TypeParts, FieldTypes, FieldAwaits
  <2> HIDE DEF r
  <2>3. tab[p].drain => Collect(r).drain
    BY <2>2, CollectAwaits DEF Awaits
  <2> QED
    BY <1>0, <1>2, <2>1, <2>3, DrivenTouched
<1>3. CASE roll.current # p /\ p \in Live
  <2>1. UNCHANGED roll
    BY <1>3 DEF Exit
  <2>2. /\ ~tab[p].drain
        /\ \A x \in Pids : x # p => Awaits(tab[x], tab'[x])
    BY <1>3, ExitAwaits
  <2>3. SameWaits
    BY <2>1 DEF SameWaits
  <2>4. roll.waiting \in Pids \cup {None} /\ roll.current \in Pids \cup {None}
    BY <1>0 DEF RollType
  <2> QED
    BY <1>0, <1>3, <2>2, <2>3, <2>4, DrivenKept DEF Awaits, RollHandlers
<1> QED
  BY <1>1, <1>2, <1>3

LEMMA TimerAwaits ==
    ASSUME NEW r \in ProcessType
    PROVE  /\ Collect([r EXCEPT !.timer = FALSE]) \in ProcessType
           /\ Awaits(r, Collect([r EXCEPT !.timer = FALSE]))
<1> DEFINE x == [r EXCEPT !.timer = FALSE]
<1>1. x \in ProcessType /\ Awaits(r, x)
  BY FieldTypes, FieldAwaits
<1> HIDE DEF x
<1>2. Collect(x) \in ProcessType /\ Awaits(r, Collect(x))
  BY <1>1, CollectAwaits, HelperTypes DEF Awaits
<1> QED
  BY <1>2 DEF x

LEMMA DrivenRestartDue ==
    ASSUME TypeOK, Driven, NEW p \in Pids, RestartDue(p)
    PROVE  Driven'
<1> DEFINE c == Collect([tab[p] EXCEPT !.timer = FALSE])
           after == [tab EXCEPT ![p] = c]
<1>0. pc = "idle" /\ UNCHANGED <<roll, spec, job>>
  BY DEF RestartDue
<1>1. \/ tab' = after
      \/ \E q \in Pids \ {p} : \E y : tab[q] = NoProcess /\ tab' = [after EXCEPT ![q] = y]
      \/ tab' = [q \in Pids |-> IF q \in Live \cup retiring
                                THEN Released(Killed(after[q])) ELSE after[q]]
  BY Zenon DEF RestartDue, CanSpawn
<1>2. c \in ProcessType /\ Awaits(tab[p], c)
  BY TypeParts, TimerAwaits
<1> HIDE DEF c
<1>3. \A x \in Pids : after[x] \in ProcessType /\ Awaits(tab[x], after[x])
  BY <1>2, TypeParts DEF TypeOK, Awaits
<1>4. ASSUME NEW x \in Pids
      PROVE  Awaits(tab[x], tab'[x])
  <2>1. CASE tab' = after
    BY <1>3, <2>1
  <2>2. ASSUME NEW q \in Pids \ {p}, NEW y, tab[q] = NoProcess, tab' = [after EXCEPT ![q] = y]
        PROVE  Awaits(tab[x], tab'[x])
    <3>1. x # q => tab'[x] = after[x]
      BY <2>2 DEF TypeOK
    <3> QED
      BY <1>3, <2>2, <3>1, FreeAwaits
  <2>3. CASE tab' = [q \in Pids |-> IF q \in Live \cup retiring
                                    THEN Released(Killed(after[q])) ELSE after[q]]
    <3> HIDE DEF after
    <3>1. tab'[x] = after[x] \/ tab'[x] = Released(Killed(after[x]))
      BY <2>3
    <3> QED
      BY <1>3, <3>1, KillAwaits DEF Awaits
  <2> QED
    BY <1>1, <2>1, <2>2, <2>3
<1> QED
  BY <1>0, <1>4, DrivenLeft DEF RollHandlers

(* A worker that has retired is the one its roll waits for, or another.    *)
LEMMA DrivenRetired ==
    ASSUME TypeOK, Table, Driven, NEW p \in Pids, Retired(p)
    PROVE  Driven'
<1> DEFINE c == Released([tab[p] EXCEPT !.drain = FALSE])
<1>0. pc = "idle" /\ UNCHANGED <<spec, job>> /\ roll \in RollType
  BY DEF Retired, TypeOK
<1>1. CASE roll.on /\ roll.waiting = p
  <2>1. roll' = [roll EXCEPT !.waiting = None] /\ pc' \in {"advance", "finish"}
    BY <1>1 DEF Retired
  <2>2. roll'.step = roll.step /\ roll'.steps = roll.steps
    BY <1>0, <2>1 DEF RollType
  <2> QED
    BY <1>0, <2>1, <2>2, DrivenInside DEF RollHandlers
<1>2. CASE ~(roll.on /\ roll.waiting = p)
  <2>1. UNCHANGED roll /\ tab' = [tab EXCEPT ![p] = c]
    BY <1>2, Zenon DEF Retired
  <2>2. \A x \in Pids : x # p => tab'[x] = tab[x]
    BY <2>1 DEF TypeOK
  <2>3. roll.current # p
    BY NamesAssumption DEF Retired, Table, BootingOK
  <2>4. SameWaits /\ roll.current \in Pids \cup {None} /\ roll.waiting \in Pids \cup {None}
    BY <1>0, <2>1 DEF SameWaits, RollType
  <2>5. CASE roll.on
    BY <1>0, <1>2, <2>2, <2>3, <2>4, <2>5, DrivenKept DEF RollHandlers
  <2>6. CASE ~roll.on
    BY <1>0, <2>1, <2>6, DrivenInside
  <2> QED
    BY <2>5, <2>6
<1> QED
  BY <1>1, <1>2

LEMMA DrivenStepExit ==
    ASSUME TypeOK, Driven, NEW s \in Lifecycle, StepExit(s)
    PROVE  Driven'
<1>0. pc = "idle" /\ spec' = spec /\ roll \in RollType
  BY DEF StepExit, TypeOK
<1>1. CASE s = "start" /\ roll.step = "runs"
  <2>1. roll' = [roll EXCEPT !.step = "none"] /\ pc' \in {"plan", "abort"}
    BY <1>1 DEF StepExit
  <2>2. roll'.step = "none" /\ roll'.steps = roll.steps
    BY <1>0, <2>1 DEF RollType
  <2> QED
    BY <1>0, <2>1, <2>2, DrivenInside DEF RollHandlers
<1>2. CASE ~(s = "start" /\ roll.step = "runs")
  <2>1. UNCHANGED roll /\ (tab' = tab \/ FailStart) /\ job' = [job EXCEPT ![s] = "idle"]
    BY <1>2, Zenon DEF StepExit
  <2>2. \A p \in Pids : Awaits(tab[p], tab'[p])
    BY <2>1, FailsAwait DEF Awaits
  <2>3. roll.step = "runs" => job'["start"] = job["start"]
    BY <1>2, <2>1 DEF TypeOK, Lifecycle
  <2>4. AnyReports => AnyReports'
    <3>1. roll.current \in Pids \cup {None} /\ roll.waiting \in Pids \cup {None}
      BY <1>0 DEF RollType
    <3> QED
      BY <2>1, <2>2, <2>3, <3>1 DEF AnyReports, StepReports, CopyReports, WorkerReports, Awaits
  <2>5. \A x : IsWeb(x)' = IsWeb(x)
    BY <1>0 DEF IsWeb
  <2> QED
    BY <1>0, <2>1, <2>4, <2>5 DEF Driven, RollHandlers
<1> QED
  BY <1>1, <1>2

LEMMA DrivenWorld ==
    ASSUME TypeOK, Driven, World
    PROVE  Driven'
<1>0. UNCHANGED <<roll, spec>> /\ pc = "idle"
  BY DEF World, Die, RetireKill, Probe, Unhealthy, JobExit
<1>1. ASSUME NEW s \in Lifecycle, JobExit(s) PROVE Driven'
  <2>1. tab' = tab /\ (job["start"] # "idle" => job'["start"] # "idle")
    BY <1>1 DEF JobExit, TypeOK, Lifecycle
  <2> QED
    BY <1>0, <2>1, DrivenLeft DEF Awaits, RollHandlers
<1>2. ASSUME NEW p \in Pids, Die(p) PROVE Driven'
  <2>1. PICK c : tab' = [tab EXCEPT ![p].os = "dead", ![p].code = c]
    BY <1>2 DEF Die
  <2>2. \A x \in Pids : Awaits(tab[x], tab'[x])
    BY <2>1 DEF TypeOK, ProcessType, Awaits, Reports
  <2> QED
    BY <1>0, <1>2, <2>2, DrivenLeft DEF Die, RollHandlers
<1>3. ASSUME NEW p \in Pids, RetireKill(p) \/ Probe(p) \/ Unhealthy(p) PROVE Driven'
  <2>1. PICK m \in {"probe", "ready", "live", "fail"} :
          tab' = [tab EXCEPT ![p] = Killed(tab[p])]
          \/ tab' = [tab EXCEPT ![p] = [tab[p] EXCEPT !.mon = m]]
    BY <1>3 DEF RetireKill, Probe, Unhealthy
  <2>2. Awaits(tab[p], Killed(tab[p])) /\ Awaits(tab[p], [tab[p] EXCEPT !.mon = m])
    BY TypeParts, KilledAwaits, FieldAwaits
  <2>3. UNCHANGED job
    BY <1>3 DEF RetireKill, Probe, Unhealthy
  <2> QED
    BY <1>0, <2>1, <2>2, <2>3, DrivenTouched DEF Awaits
<1> QED
  BY <1>1, <1>2, <1>3 DEF World

LEMMA DrivenNext ==
    ASSUME TypeOK, TypeOK', Table, Driven, SteadyShape, [Next]_vars
    PROVE  Driven'
<1>1. CASE UNCHANGED vars
  BY <1>1 DEF vars, Driven, AnyReports, StepReports, CopyReports, WorkerReports, IsWeb
<1>2. CASE Continue
  BY <1>2, DrivenStart, DrivenAdvance, DrivenRoll DEF Continue
<1>3. CASE Event
  BY <1>3, DrivenStepExit, DrivenReady, DrivenHealthFailed, DrivenExit, DrivenRestartDue,
     DrivenRetired DEF Event
<1> QED
  BY <1>1, <1>2, <1>3, DrivenRequest, DrivenWorld DEF Next

(* A roll never waits for nothing: while the goroutine is idle, the start  *)
(* step, the copy that boots or the retire goroutine is still going to     *)
(* report (roll.go, runRoll to finishRoll), if rescans keep the web        *)
(* entries and the lifecycle steps.                                        *)
THEOREM RollsReport == Spec => []RollDriven
<1> DEFINE Inv == SteadyShape => Driven
<1>1. Init => TypeOK /\ Table /\ Inv
  <2>1. Init => Driven
    BY DEF Init, NoRoll, Driven
  <2> QED
    BY <2>1, TypeInit, TableInit
<1>2. TypeOK /\ Table /\ Inv /\ [Next]_vars => (TypeOK /\ Table /\ Inv)'
  <2>1. SteadyShape' = SteadyShape
    BY DEF SteadyShape
  <2> QED
    BY <2>1, TableNext, DrivenNext
<1>3. Inv => RollDriven
  <2> SUFFICES ASSUME SteadyShape, Driven, roll.on, pc = "idle"
               PROVE  RollWaitsForEvent
    BY DEF RollDriven
  <2>1. AnyReports
    BY DEF Driven, RollHandlers
  <2> QED
    BY <2>1 DEF AnyReports, StepReports, CopyReports, WorkerReports, Reports, RollWaitsForEvent
<1> QED
  BY <1>1, <1>2, <1>3, PTL DEF Spec

-----------------------------------------------------------------------------
(* Apps without lifecycle steps start without a pause.                     *)

NoSteps == \A s \in Specs : s.steps = {}

StraightStart ==
    /\ \A s \in Lifecycle : job[s] = "idle"
    /\ pc \in {"create", "start", "spawn"} => ready = {}

LEMMA StraightNext ==
    ASSUME NoSteps, TypeOK, StraightStart, [Next]_vars
    PROVE  StraightStart'
<1>0. spec.steps = {}
  BY DEF NoSteps, TypeOK
<1>1. CASE UNCHANGED vars
  BY <1>1 DEF vars, StraightStart
<1>2. CASE Request
  <2>1. pc' \notin {"create", "start", "spawn"}
    BY <1>2 DEF Request, ReqStart, ReqStop, ReqRestart, ReqProcessStart, ReqProcessStop,
       ReqProcessRestart, beginRoll, ReqUpdate
  <2>2. UNCHANGED job \/ job' = [s \in Lifecycle |-> "idle"]
        \/ \E s : job' = [x \in Lifecycle |-> IF x \in s.steps THEN job[x] ELSE "idle"]
    BY <1>2 DEF Request, ReqStart, ReqStop, ReqRestart, Stop, ReqProcessStart,
       ReqProcessStop, ReqProcessRestart, beginRoll, ReqUpdate
  <2> QED
    BY <2>1, <2>2 DEF StraightStart
<1>3. CASE start \/ continueStart \/ spawnAll \/ spawnedAll
  <2>1. UNCHANGED job
    BY <1>0, <1>3 DEF start, continueStart, spawnAll, spawnedAll, StepDue
  <2>2. ready' = {} \/ (UNCHANGED ready /\ pc \in {"create", "start", "spawn"})
        \/ pc' = "idle"
    BY <1>3 DEF start, continueStart, spawnAll, spawnedAll, Lifecycle
  <2> QED
    BY <2>1, <2>2 DEF StraightStart
<1>4. CASE startProcess \/ runRoll \/ planRoll \/ advanceRoll \/ abortRoll \/ finishRoll
  <2>1. UNCHANGED job
    BY <1>0, <1>4 DEF startProcess, runRoll, planRoll, advanceRoll, abortRoll, finishRoll
  <2>2. pc' \notin {"create", "start", "spawn"}
    BY <1>4 DEF startProcess, runRoll, planRoll, advanceRoll, abortRoll, finishRoll,
       stepRetire, stepWorker, stepReplace
  <2> QED
    BY <2>1, <2>2 DEF StraightStart
<1>5. ASSUME NEW s \in Lifecycle, StepExit(s) \/ JobExit(s) PROVE StraightStart'
  BY <1>5 DEF StepExit, JobExit, StraightStart
<1>6. ASSUME NEW p \in Pids,
             \/ Ready(p) \/ HealthFailed(p) \/ Exit(p) \/ RestartDue(p) \/ Retired(p)
             \/ Die(p) \/ RetireKill(p) \/ Probe(p) \/ Unhealthy(p)
      PROVE  StraightStart'
  <2>1. UNCHANGED job /\ pc' \notin {"create", "start", "spawn"}
    BY <1>6, Zenon DEF Ready, HealthFailed, Exit, RollExit, RestartDue, Retired, Die,
       RetireKill, Probe, Unhealthy
  <2> QED
    BY <2>1 DEF StraightStart
<1> QED
  BY <1>1, <1>2, <1>3, <1>4, <1>5, <1>6, Zenon DEF Next, Continue, Event, World

(* ReadyWasProbed needs its second condition for lifecycle steps alone: an *)
(* app without them goes through start, continueStart and spawnAll         *)
(* (runtime.go) in one handler, so no copy can have been started by hand,  *)
(* and become ready, in between.                                           *)
THEOREM StepsMakeTheGap == Spec => [](NoSteps => StartsFindNoneServing)
<1> DEFINE Inv == NoSteps => StraightStart
<1>1. Init => TypeOK /\ Table /\ Inv
  BY TypeInit, TableInit DEF Init, StraightStart
<1>2. TypeOK /\ Table /\ Inv /\ [Next]_vars => (TypeOK /\ Table /\ Inv)'
  <2>1. NoSteps' = NoSteps
    BY DEF NoSteps
  <2> QED
    BY <2>1, TableNext, StraightNext
<1>3. Inv => (NoSteps => StartsFindNoneServing)
  BY DEF StraightStart, StartsFindNoneServing
<1> QED
  BY <1>1, <1>2, <1>3, PTL DEF Spec

-----------------------------------------------------------------------------
(* A process object keeps its name until it is collected.                  *)

Of(r, s) == s.inst \in {r.inst, All}

LEMMA FreeName == NoProcess.inst = All /\ All \notin Names
BY DEF NoProcess, All, Names

LEMMA CollectOf ==
    ASSUME NEW r \in ProcessType
    PROVE  Of(r, Collect(r)) /\ Of(r, Killed(r)) /\ Of(r, Retiring(r))
BY CollectSame, KilledSame, RetiringFields, FreeName DEF Of, Same

LEMMA ReleasedOf ==
    ASSUME NEW r \in ProcessType
    PROVE  Of(r, Released(r)) /\ Of(r, Released(Killed(r)))
<1>1. ASSUME NEW x \in ProcessType PROVE Of(x, Released(x))
  <2> DEFINE m == IF x.mon \in {"probe", "live"} THEN "off" ELSE x.mon
             y == [x EXCEPT !.mon = m, !.slot = 0, !.code = "ok", !.released = TRUE]
  <2>1. y.inst = x.inst /\ Released(x) = Collect(y)
    BY DEF ProcessType, Released
  <2> HIDE DEF y
  <2>2. Collect(y) = y \/ Collect(y) = NoProcess
    BY DEF Collect
  <2> QED
    BY <2>1, <2>2, FreeName DEF Of
<1>2. Killed(r) \in ProcessType /\ Killed(r).inst = r.inst
  BY HelperTypes, KilledSame DEF Same
<1> QED
  BY <1>1, <1>2 DEF Of

LEMMA FieldsOf ==
    ASSUME NEW r \in ProcessType, NEW b, NEW c
    PROVE  /\ [r EXCEPT !.mon = b].inst = r.inst
           /\ [r EXCEPT !.timer = b].inst = r.inst
           /\ [r EXCEPT !.drain = b].inst = r.inst
           /\ [r EXCEPT !.exitEv = b].inst = r.inst
           /\ [r EXCEPT !.exitEv = b, !.timer = c].inst = r.inst
           /\ [r EXCEPT !.os = b, !.code = c].inst = r.inst
BY DEF ProcessType

NamesKept ==
    \A p \in Pids : tab[p] # NoProcess => Of(tab[p], tab'[p])

LEMMA TouchKeepsNames ==
    ASSUME TypeOK, NEW p \in Pids, NEW r, Of(tab[p], r), tab' = [tab EXCEPT ![p] = r]
    PROVE  NamesKept
BY DEF TypeOK, NamesKept, Of

LEMMA SpawnKeepsNames ==
    ASSUME TypeOK, NEW p \in Pids, NEW r, tab[p] = NoProcess, tab' = [tab EXCEPT ![p] = r]
    PROVE  NamesKept
BY DEF TypeOK, NamesKept, Of

LEMMA KillKeepsNames ==
    ASSUME TypeOK, NEW S, tab' = KillAndRelease(S)
    PROVE  NamesKept
<1> SUFFICES ASSUME NEW p \in Pids PROVE Of(tab[p], tab'[p])
  BY DEF NamesKept
<1>1. tab'[p] = Released(Killed(tab[p])) \/ tab'[p] = tab[p]
  BY DEF KillAndRelease
<1> QED
  BY <1>1, TypeParts, ReleasedOf DEF Of

LEMMA SameKeepsNames == tab' = tab => NamesKept
BY DEF NamesKept, Of

LEMMA HandlersKeepNames ==
    ASSUME TypeOK, Request \/ start \/ continueStart \/ spawnAll \/ spawnedAll \/ startProcess
                   \/ runRoll \/ planRoll \/ abortRoll \/ finishRoll
    PROVE  NamesKept
<1>1. CASE Request
  <2>1. tab' = tab \/ \E S : tab' = KillAndRelease(S)
    BY <1>1, Zenon DEF Request, ReqStart, ReqStop, ReqRestart, Stop, ReqProcessStart, ReqProcessStop,
       ReqProcessRestart, StopProcess, beginRoll, ReqUpdate
  <2> QED
    BY <2>1, KillKeepsNames, SameKeepsNames
<1>2. CASE start \/ continueStart \/ runRoll \/ planRoll \/ abortRoll \/ finishRoll
  <2>1. tab' = tab \/ \E S : tab' = KillAndRelease(S)
    BY <1>2, Zenon DEF start, continueStart, FailStart, runRoll, planRoll, abortRoll, finishRoll
  <2> QED
    BY <2>1, KillKeepsNames, SameKeepsNames
<1>3. CASE spawnAll \/ startProcess
  <2>1. \/ tab' = tab \/ \E S : tab' = KillAndRelease(S)
        \/ \E p \in Pids : \E r : tab[p] = NoProcess /\ tab' = [tab EXCEPT ![p] = r]
    BY <1>3, Zenon DEF spawnAll, startProcess, FailStart, CanSpawn
  <2> QED
    BY <2>1, KillKeepsNames, SameKeepsNames, SpawnKeepsNames
<1>4. CASE spawnedAll
  <2> SUFFICES ASSUME NEW p \in Pids PROVE Of(tab[p], tab'[p])
    BY DEF NamesKept
  <2>0. tab' = [q \in Pids |-> IF q \in Live /\ IsWeb(tab[q].inst)
                               THEN [tab[q] EXCEPT !.mon = "probe"] ELSE tab[q]]
    BY <1>4 DEF spawnedAll
  <2>1. CASE p \in Live /\ IsWeb(tab[p].inst)
    <3>1. tab'[p] = [tab[p] EXCEPT !.mon = "probe"]
      BY <2>0, <2>1
    <3> QED
      BY <3>1, TypeParts, FieldsOf DEF Of
  <2>2. CASE ~(p \in Live /\ IsWeb(tab[p].inst))
    <3>1. tab'[p] = tab[p]
      BY <2>0, <2>2
    <3> QED
      BY <3>1 DEF Of
  <2> QED
    BY <2>1, <2>2
<1> QED
  BY <1>1, <1>2, <1>3, <1>4

LEMMA WorldKeepsNames ==
    ASSUME TypeOK, World
    PROVE  NamesKept
<1>1. ASSUME NEW s \in Lifecycle, JobExit(s) PROVE NamesKept
  BY <1>1, SameKeepsNames DEF JobExit
<1>2. ASSUME NEW p \in Pids, Die(p) PROVE NamesKept
  <2>1. PICK c : tab' = [tab EXCEPT ![p].os = "dead", ![p].code = c]
    BY <1>2 DEF Die
  <2>2. tab' = [tab EXCEPT ![p] = [tab[p] EXCEPT !.os = "dead", !.code = c]]
    BY <2>1 DEF TypeOK, ProcessType
  <2>3. Of(tab[p], [tab[p] EXCEPT !.os = "dead", !.code = c])
    BY TypeParts, FieldsOf DEF Of
  <2> QED
    BY <2>2, <2>3, TouchKeepsNames
<1>3. ASSUME NEW p \in Pids, RetireKill(p) \/ Probe(p) \/ Unhealthy(p) PROVE NamesKept
  <2>1. \E m : tab' = [tab EXCEPT ![p] = Killed(tab[p])]
               \/ tab' = [tab EXCEPT ![p] = [tab[p] EXCEPT !.mon = m]]
    BY <1>3 DEF RetireKill, Probe, Unhealthy
  <2>2. Of(tab[p], Killed(tab[p])) /\ \A m : Of(tab[p], [tab[p] EXCEPT !.mon = m])
    BY TypeParts, CollectOf, FieldsOf DEF Of
  <2> QED
    BY <2>1, <2>2, TouchKeepsNames
<1> QED
  BY <1>1, <1>2, <1>3 DEF World

(* The table is t, with some of its processes killed.                      *)
KilledFrom(t) == \A q \in Pids : tab'[q] = t[q] \/ tab'[q] = Released(Killed(t[q]))

(* The events that put a process in the place of another.                  *)
LEMMA ReplacedKeepsNames ==
    ASSUME TypeOK, NEW p \in Pids, NEW c \in ProcessType, Of(tab[p], c),
           NEW after, after = [tab EXCEPT ![p] = c],
           \/ tab' = after
           \/ \E q \in Pids \ {p} : \E y : tab[q] = NoProcess /\ tab' = [after EXCEPT ![q] = y]
           \/ KilledFrom(after)
    PROVE  NamesKept
<1>1. \A x \in Pids : after[x] \in ProcessType /\ Of(tab[x], after[x])
  BY TypeParts DEF TypeOK, Of
<1>2. after \in [Pids -> ProcessType]
  BY DEF TypeOK
<1>3. CASE tab' = after
  BY <1>1, <1>3 DEF NamesKept
<1>4. ASSUME NEW q \in Pids \ {p}, NEW y, tab[q] = NoProcess, tab' = [after EXCEPT ![q] = y]
      PROVE  NamesKept
  BY <1>1, <1>2, <1>4 DEF NamesKept
<1>5. CASE KilledFrom(after)
  <2>1. ASSUME NEW x \in Pids PROVE Of(tab[x], tab'[x])
    <3>1. tab'[x] = after[x] \/ tab'[x] = Released(Killed(after[x]))
      BY <1>5 DEF KilledFrom
    <3>2. Of(after[x], Released(Killed(after[x])))
      BY <1>1, ReleasedOf
    <3> QED
      BY <1>1, <3>1, <3>2 DEF Of
  <2> QED
    BY <2>1 DEF NamesKept
<1> QED
  BY <1>3, <1>4, <1>5

LEMMA EventsKeepNames ==
    ASSUME TypeOK, Table, Event
    PROVE  NamesKept
<1>1. ASSUME NEW s \in Lifecycle, StepExit(s) PROVE NamesKept
  <2>1. tab' = tab \/ \E S : tab' = KillAndRelease(S)
    BY <1>1, Zenon DEF StepExit, FailStart
  <2> QED
    BY <2>1, KillKeepsNames, SameKeepsNames
<1>2. ASSUME NEW p \in Pids, HealthFailed(p) PROVE NamesKept
  <2> DEFINE r == [tab[p] EXCEPT !.mon = "off"]
  <2>1. tab' = [tab EXCEPT ![p] = Killed(r)] \/ tab' = [tab EXCEPT ![p] = Collect(r)]
    BY <1>2, Zenon DEF HealthFailed
  <2>2. r \in ProcessType /\ r.inst = tab[p].inst
    BY TypeParts, FieldTypes, FieldsOf
  <2> HIDE DEF r
  <2>3. Of(tab[p], Killed(r)) /\ Of(tab[p], Collect(r))
    BY <2>2, CollectOf DEF Of
  <2> QED
    BY <2>1, <2>3, TouchKeepsNames
<1>3. ASSUME NEW p \in Pids, Ready(p) PROVE NamesKept
  <2> DEFINE r == [tab[p] EXCEPT !.mon = "live"]
             s == [tab[p] EXCEPT !.mon = "off"]
  <2>1. /\ r \in ProcessType /\ r.inst = tab[p].inst
        /\ s \in ProcessType /\ s.inst = tab[p].inst
    BY TypeParts, FieldTypes, FieldsOf
  <2>2. CASE roll.current = p
    <3>0. tab' = [q \in Pids |-> IF q = p THEN Collect(r)
                                 ELSE IF q = processes[tab[p].inst] THEN Retiring(tab[q]) ELSE tab[q]]
      BY <1>3, <2>2, Zenon DEF Ready
    <3> HIDE DEF r, s
    <3>1. \A q \in Pids : \/ tab'[q] = tab[q] \/ tab'[q] = Retiring(tab[q])
                           \/ (q = p /\ tab'[q] = Collect(r))
      BY <3>0
    <3>2. \A q \in Pids : Of(tab[q], tab'[q])
      BY <3>1, <2>1, TypeParts, CollectOf DEF Of
    <3> QED
      BY <3>2 DEF NamesKept
  <2>3. CASE roll.current # p
    <3>1. \/ tab' = [tab EXCEPT ![p] = r]
          \/ tab' = [tab EXCEPT ![p] = Collect(r)]
          \/ tab' = [tab EXCEPT ![p] = Collect(s)]
      BY <1>3, <2>3, Zenon DEF Ready
    <3> HIDE DEF r, s
    <3>2. Of(tab[p], r) /\ Of(tab[p], Collect(r)) /\ Of(tab[p], Collect(s))
      BY <2>1, CollectOf DEF Of
    <3> QED
      BY <3>1, <3>2, TouchKeepsNames
  <2> QED
    BY <2>2, <2>3
<1>4. ASSUME NEW p \in Pids, Exit(p) PROVE NamesKept
  <2> DEFINE r == [tab[p] EXCEPT !.exitEv = FALSE]
  <2>1. r \in ProcessType /\ r.inst = tab[p].inst
    BY TypeParts, FieldTypes, FieldsOf
  <2>2. CASE \/ tab' = [tab EXCEPT ![p] = Released(r)]
             \/ tab' = [tab EXCEPT ![p] = Collect(r)]
    <3> HIDE DEF r
    <3>1. Of(tab[p], Released(r)) /\ Of(tab[p], Collect(r))
      BY <2>1, ReleasedOf, CollectOf DEF Of
    <3> QED
      BY <2>2, <3>1, TouchKeepsNames
  <2>3. ASSUME NEW long \in BOOLEAN, processExited(p, long) PROVE NamesKept
    <3> DEFINE i     == tab[p].inst
               base  == IF long THEN 0 ELSE failures[i]
               count == IF base < MaxRestarts[Proc(i)] THEN base + 1 ELSE base
               again == ~(state = "stopped" \/ i \in held) /\ shouldRestart(p)
               over  == again /\ count >= MaxRestarts[Proc(i)]
               flag  == again /\ ~over
               y     == [tab[p] EXCEPT !.exitEv = FALSE, !.timer = flag]
               away  == Released(y)
               dead  == KillAndRelease((Live \cup retiring) \ {p})
    <3>1. tab' = [dead EXCEPT ![p] = away] \/ tab' = [tab EXCEPT ![p] = away]
      BY <2>3, Zenon DEF processExited
    <3>2. flag \in BOOLEAN
      OBVIOUS
    <3> HIDE DEF flag
    <3>3. y \in ProcessType /\ y.inst = tab[p].inst
      <4>1. tab[p] \in ProcessType
        BY TypeParts
      <4> QED
        BY <3>2, <4>1 DEF ProcessType
    <3> HIDE DEF y
    <3>4. Of(tab[p], away)
      BY <3>3, ReleasedOf DEF Of
    <3> HIDE DEF away
    <3>5. ASSUME NEW x \in Pids
          PROVE  dead[x] = tab[x] \/ dead[x] = Released(Killed(tab[x]))
      BY DEF KillAndRelease
    <3>6. ASSUME NEW x \in Pids PROVE Of(tab[x], dead[x])
      BY <3>5, TypeParts, ReleasedOf DEF Of
    <3>7. dead \in [Pids -> ProcessType]
      BY KillType
    <3> HIDE DEF dead
    <3> QED
      BY <3>1, <3>4, <3>6, <3>7 DEF NamesKept, TypeOK, Of
  <2> QED
    BY <1>4, <2>2, <2>3, Zenon DEF Exit, RollExit
<1>5. ASSUME NEW p \in Pids, RestartDue(p) PROVE NamesKept
  <2> DEFINE c == Collect([tab[p] EXCEPT !.timer = FALSE])
             after == [tab EXCEPT ![p] = c]
             S == Live \cup retiring
  <2>1. \/ tab' = after
        \/ \E q \in Pids \ {p} : \E y : tab[q] = NoProcess /\ tab' = [after EXCEPT ![q] = y]
        \/ tab' = [q \in Pids |-> IF q \in S
                                  THEN Released(Killed(after[q])) ELSE after[q]]
    BY <1>5, Zenon DEF RestartDue, CanSpawn
  <2>2. c \in ProcessType /\ Of(tab[p], c)
    <3> DEFINE r == [tab[p] EXCEPT !.timer = FALSE]
    <3>1. r \in ProcessType /\ r.inst = tab[p].inst
      BY TypeParts, FieldsOf, FieldTypes
    <3> HIDE DEF r
    <3>2. Collect(r) \in ProcessType /\ Of(tab[p], Collect(r))
      BY <3>1, HelperTypes, CollectOf DEF Of
    <3> QED
      BY <3>2 DEF r
  <2>3. after = [tab EXCEPT ![p] = c]
    OBVIOUS
  <2> HIDE DEF c, after, S
  <2>4. CASE tab' = after
    BY <2>2, <2>3, <2>4, ReplacedKeepsNames
  <2>5. CASE \E q \in Pids \ {p} : \E y : tab[q] = NoProcess /\ tab' = [after EXCEPT ![q] = y]
    BY <2>2, <2>3, <2>5, ReplacedKeepsNames
  <2>6. CASE tab' = [q \in Pids |-> IF q \in S THEN Released(Killed(after[q])) ELSE after[q]]
    <3>1. KilledFrom(after)
      BY <2>6 DEF KilledFrom
    <3> QED
      BY <2>2, <2>3, <3>1, ReplacedKeepsNames
  <2> QED
    BY <2>1, <2>4, <2>5, <2>6
<1>6. ASSUME NEW p \in Pids, Retired(p) PROVE NamesKept
  <2> DEFINE c == Released([tab[p] EXCEPT !.drain = FALSE])
             after == [tab EXCEPT ![p] = c]
             S == (Live \cup retiring) \ {p}
  <2>1. \/ tab' = after
        \/ \E q \in Pids \ {p} : \E y : tab[q] = NoProcess /\ tab' = [after EXCEPT ![q] = y]
        \/ tab' = [q \in Pids |-> IF q \in S
                                  THEN Released(Killed(after[q])) ELSE after[q]]
    BY <1>6, Zenon DEF Retired
  <2>2. c \in ProcessType /\ Of(tab[p], c)
    <3> DEFINE r == [tab[p] EXCEPT !.drain = FALSE]
    <3>1. r \in ProcessType /\ r.inst = tab[p].inst
      <4>1. tab[p] \in ProcessType
        BY TypeParts
      <4> QED
        BY <4>1 DEF ProcessType
    <3> HIDE DEF r
    <3>2. Released(r) \in ProcessType /\ Of(tab[p], Released(r))
      BY <3>1, HelperTypes, ReleasedOf DEF Of
    <3> QED
      BY <3>2 DEF r
  <2>3. after = [tab EXCEPT ![p] = c]
    OBVIOUS
  <2> HIDE DEF c, after, S
  <2>4. CASE tab' = after
    BY <2>2, <2>3, <2>4, ReplacedKeepsNames
  <2>5. CASE \E q \in Pids \ {p} : \E y : tab[q] = NoProcess /\ tab' = [after EXCEPT ![q] = y]
    BY <2>2, <2>3, <2>5, ReplacedKeepsNames
  <2>6. CASE tab' = [q \in Pids |-> IF q \in S THEN Released(Killed(after[q])) ELSE after[q]]
    <3>1. KilledFrom(after)
      BY <2>6 DEF KilledFrom
    <3> QED
      BY <2>2, <2>3, <3>1, ReplacedKeepsNames
  <2> QED
    BY <2>1, <2>4, <2>5, <2>6
<1> QED
  BY <1>1, <1>2, <1>3, <1>4, <1>5, <1>6 DEF Event

-----------------------------------------------------------------------------
(* The inductive invariant behind RollKeepsServing.                        *)

(* A roll waits for one thing at a time, and for nothing in its handlers.  *)
OneAtATime ==
    /\ pc \in {"begin", "plan", "advance"} =>
         roll.current = None /\ roll.waiting = None /\ roll.step # "runs"
    /\ roll.current # None => roll.waiting = None /\ roll.step # "runs"
    /\ roll.waiting # None => roll.step # "runs"

WholeRoll == roll.only \in {All} \cup (Procs \X {0})

(* An instance serves, or is about to be replaced.                         *)
Covered(j) ==
    \/ <<j, "replace">> \in roll.steps
    \/ roll.current # None /\ tab[roll.current].inst = j
    \/ Serving(j)

(* As long as an undisturbed web process has copies to retire, they are    *)
(* surplus, every copy it should have serves or is about to be replaced,   *)
(* and none of them is taken for a worker's.                               *)
Planned ==
    pc \notin {"abort", "finish"} =>
      \A s \in roll.steps : Proc(s[1]) \in spec.web \ disturbed =>
        /\ s[2] # "worker"
        /\ s[2] = "retire" /\ WholeRoll =>
             /\ s[1] \notin InstancesOf(Proc(s[1]))
             /\ \A j \in InstancesOf(Proc(s[1])) : Covered(j)

-----------------------------------------------------------------------------
(* Outside planRoll and advanceRoll the roll keeps its steps, or is over,  *)
(* or swaps the copy it booted.                                            *)
RollKept ==
    /\ roll'.steps = roll.steps /\ roll'.only = roll.only /\ roll'.current = roll.current
    /\ pc \notin {"abort", "finish"}
Swaps(p) == Ready(p) /\ roll.current = p
RollOver == roll'.steps = {} \/ pc' \in {"abort", "finish"}

LEMMA KeptRoll ==
    ASSUME TypeOK, pc \notin {"abort", "finish"}, NEW x, NEW y,
           \/ roll' = roll
           \/ roll' = [roll EXCEPT !.step = x]
           \/ roll' = [roll EXCEPT !.waiting = x]
           \/ roll' = [roll EXCEPT !.againOnly = x, !.again = TRUE, !.againDone = y]
    PROVE  RollKept
<1>1. roll \in RollType
  BY DEF TypeOK
<1> QED
  BY <1>1 DEF RollType, RollKept

LEMMA KeptRequest ==
    ASSUME TypeOK, Request
    PROVE  RollKept \/ RollOver
<1>0. pc = "idle"
  BY DEF Request, ReqStart, ReqStop, ReqRestart, ReqProcessStart, ReqProcessStop,
     ReqProcessRestart, beginRoll, ReqUpdate
<1>1. CASE ReqStop \/ ReqRestart
  <2>1. roll' = roll \/ roll' = NoRoll
    BY <1>1 DEF ReqStop, ReqRestart, Stop
  <2> QED
    BY <1>0, <2>1, KeptRoll, FreshRoll DEF RollOver
<1>2. ASSUME NEW c \in Callers, NEW o \in Targets, beginRoll(c, o) PROVE RollKept \/ RollOver
  <2>1. \/ roll' = NewRoll(o, {c})
        \/ \E x, y : roll' = [roll EXCEPT !.againOnly = x, !.again = TRUE, !.againDone = y]
    BY <1>2, Zenon DEF beginRoll
  <2> QED
    BY <1>0, <2>1, KeptRoll, FreshRoll DEF RollOver
<1>3. ASSUME NEW s \in Updates[spec], ReqUpdate(s) PROVE RollKept
  <2>1. roll' = roll \/ roll' = [roll EXCEPT !.step = "lost"]
    BY <1>3 DEF ReqUpdate
  <2> QED
    BY <1>0, <2>1, KeptRoll
<1>4. CASE \/ ReqStart
           \/ \E n \in Names : ReqProcessStart(n) \/ ReqProcessStop(n) \/ ReqProcessRestart(n)
  <2>1. roll' = roll
    BY <1>4 DEF ReqStart, ReqProcessStart, ReqProcessStop, ReqProcessRestart
  <2> QED
    BY <1>0, <2>1, KeptRoll
<1> QED
  BY <1>1, <1>2, <1>3, <1>4 DEF Request

LEMMA KeptContinue ==
    ASSUME TypeOK, Continue, pc \notin {"plan", "advance"}
    PROVE  RollKept \/ RollOver
<1>1. CASE start \/ continueStart \/ spawnAll \/ spawnedAll \/ startProcess
  <2>1. roll' = roll /\ pc \notin {"abort", "finish"}
    BY <1>1 DEF start, continueStart, spawnAll, spawnedAll, startProcess, Lifecycle
  <2> QED
    BY <2>1, KeptRoll
<1>2. CASE runRoll
  <2>1. pc = "begin" /\ (roll' = roll \/ roll' = [roll EXCEPT !.step = "runs"])
    BY <1>2 DEF runRoll
  <2> QED
    BY <2>1, KeptRoll
<1>3. CASE abortRoll
  BY <1>3 DEF abortRoll, RollOver
<1>4. CASE finishRoll
  <2>1. roll' = NoRoll \/ roll' = NewRoll(roll.againOnly, roll.againDone)
    BY <1>4 DEF finishRoll
  <2> QED
    BY <2>1, FreshRoll DEF RollOver
<1> QED
  BY <1>1, <1>2, <1>3, <1>4 DEF Continue, planRoll, advanceRoll

LEMMA KeptEvent ==
    ASSUME TypeOK, Event
    PROVE  RollKept \/ RollOver \/ \E p \in Pids : Swaps(p)
<1>0. pc = "idle"
  BY DEF Event, StepExit, Ready, HealthFailed, Exit, RestartDue, Retired
<1>1. ASSUME NEW s \in Lifecycle, StepExit(s) PROVE RollKept
  <2>1. roll' = roll \/ roll' = [roll EXCEPT !.step = "none"]
    BY <1>1, Zenon DEF StepExit
  <2> QED
    BY <1>0, <2>1, KeptRoll
<1>2. ASSUME NEW p \in Pids, Ready(p) PROVE RollKept \/ Swaps(p)
  <2>1. roll.current # p => roll' = roll
    BY <1>2 DEF Ready
  <2> QED
    BY <1>0, <1>2, <2>1, KeptRoll DEF Swaps
<1>3. ASSUME NEW p \in Pids, HealthFailed(p) \/ RestartDue(p) PROVE RollKept
  <2>1. roll' = roll
    BY <1>3, Zenon DEF HealthFailed, RestartDue
  <2> QED
    BY <1>0, <2>1, KeptRoll
<1>4. ASSUME NEW p \in Pids, Exit(p) PROVE RollKept \/ RollOver
  <2>1. roll' = roll \/ pc' = "abort"
    BY <1>4, Zenon DEF Exit, RollExit
  <2> QED
    BY <1>0, <2>1, KeptRoll DEF RollOver
<1>5. ASSUME NEW p \in Pids, Retired(p) PROVE RollKept
  <2>1. roll' = roll \/ roll' = [roll EXCEPT !.waiting = None]
    BY <1>5, Zenon DEF Retired
  <2> QED
    BY <1>0, <2>1, KeptRoll
<1> QED
  BY <1>1, <1>2, <1>3, <1>4, <1>5 DEF Event

LEMMA KeptOutside ==
    ASSUME TypeOK, Next, pc \notin {"plan", "advance"}
    PROVE  RollKept \/ RollOver \/ \E p \in Pids : Swaps(p)
<1>1. CASE World
  <2>1. roll' = roll /\ pc = "idle"
    BY <1>1 DEF World, Die, RetireKill, Probe, Unhealthy, JobExit
  <2> QED
    BY <2>1, KeptRoll
<1> QED
  BY <1>1, KeptRequest, KeptContinue, KeptEvent DEF Next

-----------------------------------------------------------------------------
(* Every step keeps the roll to one thing at a time.                       *)

LEMMA OneFresh ==
    ASSUME NEW o, NEW d
    PROVE  /\ NoRoll.current = None /\ NoRoll.waiting = None /\ NoRoll.step = "none"
           /\ NewRoll(o, d).current = None /\ NewRoll(o, d).waiting = None
           /\ NewRoll(o, d).step = "none"
BY DEF NewRoll, NoRoll

LEMMA OneFreshRoll ==
    ASSUME \/ roll' = NoRoll \/ \E o, d : roll' = NewRoll(o, d)
    PROVE  OneAtATime'
BY OneFresh DEF OneAtATime

(* A step outside the roll leaves what it waits for, or less.              *)
LEMMA OneKept ==
    ASSUME OneAtATime,
           \/ pc' \notin {"begin", "plan", "advance"}
           \/ pc \in {"begin", "plan", "advance"},
           roll'.current = roll.current, roll'.waiting = roll.waiting,
           roll'.step = "runs" => roll.step = "runs"
    PROVE  OneAtATime'
BY DEF OneAtATime

LEMMA OneRequest ==
    ASSUME TypeOK, OneAtATime, Request
    PROVE  OneAtATime'
<1>0. pc = "idle" /\ roll \in RollType
  <2>1. pc = "idle"
    BY DEF Request, ReqStart, ReqStop, ReqRestart, ReqProcessStart, ReqProcessStop,
       ReqProcessRestart, beginRoll, ReqUpdate
  <2> QED
    BY <2>1 DEF TypeOK
<1>1. CASE ReqStop \/ ReqRestart
  <2>1. (roll' = roll \/ roll' = NoRoll) /\ pc' \in {"idle", "launch"}
    BY <1>1 DEF ReqStop, ReqRestart, Stop
  <2> QED
    BY <2>1, OneKept, OneFreshRoll
<1>2. ASSUME NEW c \in Callers, NEW o \in Targets, beginRoll(c, o) PROVE OneAtATime'
  <2>1. CASE roll.on
    <3>1. /\ roll' = [roll EXCEPT !.againOnly = roll'.againOnly,
                                  !.again = TRUE, !.againDone = roll'.againDone]
          /\ pc' = "idle"
      BY <1>0, <1>2, <2>1 DEF beginRoll, RollType
    <3>2. roll'.current = roll.current /\ roll'.waiting = roll.waiting /\ roll'.step = roll.step
      BY <1>0, <3>1 DEF RollType
    <3> QED
      BY <3>1, <3>2, OneKept
  <2>2. CASE ~roll.on
    BY <1>2, <2>2, OneFreshRoll DEF beginRoll
  <2> QED
    BY <2>1, <2>2
<1>3. ASSUME NEW s \in Updates[spec], ReqUpdate(s) PROVE OneAtATime'
  <2>1. (roll' = roll \/ roll' = [roll EXCEPT !.step = "lost"]) /\ pc' = "idle"
    BY <1>0, <1>3 DEF ReqUpdate
  <2>2. /\ roll'.current = roll.current /\ roll'.waiting = roll.waiting
        /\ roll'.step = "runs" => roll.step = "runs"
    BY <1>0, <2>1 DEF RollType
  <2> QED
    BY <2>1, <2>2, OneKept
<1>4. CASE \/ ReqStart
           \/ \E n \in Names : ReqProcessStart(n) \/ ReqProcessStop(n) \/ ReqProcessRestart(n)
  <2>1. roll' = roll /\ pc' \in {"idle", "launch", "pstart"}
    BY <1>4 DEF ReqStart, ReqProcessStart, ReqProcessStop, ReqProcessRestart
  <2> QED
    BY <2>1, OneKept
<1> QED
  BY <1>1, <1>2, <1>3, <1>4 DEF Request

LEMMA OneContinue ==
    ASSUME TypeOK, TypeOK', OneAtATime, Continue
    PROVE  OneAtATime'
<1>0. roll \in RollType
  BY DEF TypeOK
<1>1. CASE start \/ continueStart \/ spawnAll \/ spawnedAll \/ startProcess
  <2>1. roll' = roll /\ pc' \notin {"begin", "plan", "advance"}
    BY <1>1 DEF start, continueStart, spawnAll, spawnedAll, startProcess, Lifecycle
  <2> QED
    BY <2>1, OneKept
<1>2. CASE runRoll
  <2>1. /\ pc = "begin"
        /\ \/ roll' = roll
           \/ roll' = [roll EXCEPT !.step = "runs"] /\ pc' = "idle"
    BY <1>2 DEF runRoll
  <2>2. CASE roll' = roll
    BY <2>1, <2>2, OneKept
  <2>3. CASE roll' = [roll EXCEPT !.step = "runs"] /\ pc' = "idle"
    BY <1>0, <2>1, <2>3 DEF RollType, OneAtATime
  <2> QED
    BY <2>1, <2>2, <2>3
<1>3. CASE planRoll
  <2>1. pc = "plan" /\ \E x : roll' = [roll EXCEPT !.steps = x]
    BY <1>3 DEF planRoll
  <2> QED
    BY <1>0, <2>1, OneKept DEF RollType
<1>4. CASE abortRoll
  <2>1. pc' = "finish" /\ roll' = [roll EXCEPT !.current = None, !.again = FALSE]
    BY <1>4 DEF abortRoll
  <2> QED
    BY <1>0, <2>1 DEF RollType, OneAtATime
<1>5. CASE finishRoll
  <2>1. roll' = NoRoll \/ roll' = NewRoll(roll.againOnly, roll.againDone)
    BY <1>5 DEF finishRoll
  <2> QED
    BY <2>1, OneFreshRoll
<1>6. CASE advanceRoll
  <2>0. pc = "advance" /\ roll.current = None /\ roll.waiting = None /\ roll.step # "runs"
    BY <1>6 DEF advanceRoll, OneAtATime
  <2>1. \E x, y : \/ roll' = roll
                  \/ roll' = [roll EXCEPT !.steps = x]
                  \/ roll' = [roll EXCEPT !.steps = x, !.waiting = y] /\ pc' = "idle"
                  \/ roll' = [roll EXCEPT !.steps = x, !.current = y] /\ pc' = "idle"
    BY <1>6, Zenon DEF advanceRoll, stepRetire, stepWorker, stepReplace
  <2> QED
    BY <1>0, <2>0, <2>1 DEF RollType, OneAtATime
<1> QED
  BY <1>1, <1>2, <1>3, <1>4, <1>5, <1>6 DEF Continue

LEMMA OneEvent ==
    ASSUME TypeOK, OneAtATime, Event
    PROVE  OneAtATime'
<1>0. pc = "idle" /\ roll \in RollType
  <2>1. pc = "idle"
    BY DEF Event, StepExit, Ready, HealthFailed, Exit, RestartDue, Retired
  <2> QED
    BY <2>1 DEF TypeOK
<1>1. ASSUME NEW s \in Lifecycle, StepExit(s) PROVE OneAtATime'
  <2>1. CASE s = "start" /\ roll.step = "runs"
    <3>1. roll' = [roll EXCEPT !.step = "none"]
      BY <1>1, <2>1 DEF StepExit
    <3> QED
      BY <1>0, <2>1, <3>1 DEF RollType, OneAtATime
  <2>2. CASE ~(s = "start" /\ roll.step = "runs")
    <3>1. roll' = roll /\ pc' \in {"idle", "start", "spawn"}
      BY <1>0, <1>1, <2>2, Zenon DEF StepExit
    <3> QED
      BY <3>1, OneKept
  <2> QED
    BY <2>1, <2>2
<1>2. ASSUME NEW p \in Pids, Ready(p) PROVE OneAtATime'
  <2>1. CASE roll.current = p
    <3>1. roll' = [roll EXCEPT !.current = None] /\ roll.current # None
      BY <1>2, <2>1, NamesAssumption, Zenon DEF Ready
    <3> QED
      BY <1>0, <3>1 DEF RollType, OneAtATime
  <2>2. CASE roll.current # p
    <3>1. roll' = roll /\ pc' = "idle"
      BY <1>0, <1>2, <2>2 DEF Ready
    <3> QED
      BY <3>1, OneKept
  <2> QED
    BY <2>1, <2>2
<1>3. ASSUME NEW p \in Pids, HealthFailed(p) \/ RestartDue(p) PROVE OneAtATime'
  <2>1. roll' = roll /\ pc' = "idle"
    BY <1>0, <1>3, Zenon DEF HealthFailed, RestartDue
  <2> QED
    BY <2>1, OneKept
<1>4. ASSUME NEW p \in Pids, Exit(p) PROVE OneAtATime'
  <2>1. \/ roll' = roll /\ pc' = "idle"
        \/ roll' = [roll EXCEPT !.current = None] /\ pc' = "abort"
    BY <1>0, <1>4, Zenon DEF Exit, RollExit
  <2> QED
    BY <1>0, <2>1 DEF RollType, OneAtATime
<1>5. ASSUME NEW p \in Pids, Retired(p) PROVE OneAtATime'
  <2>1. CASE roll.on /\ roll.waiting = p
    <3>1. roll' = [roll EXCEPT !.waiting = None] /\ roll.waiting # None
      BY <1>5, <2>1, NamesAssumption, Zenon DEF Retired
    <3> QED
      BY <1>0, <3>1 DEF RollType, OneAtATime
  <2>2. CASE ~(roll.on /\ roll.waiting = p)
    <3>1. roll' = roll /\ pc' = "idle"
      BY <1>5, <2>2, Zenon DEF Retired
    <3> QED
      BY <3>1, OneKept
  <2> QED
    BY <2>1, <2>2
<1> QED
  BY <1>1, <1>2, <1>3, <1>4, <1>5 DEF Event

LEMMA OneNext ==
    ASSUME TypeOK, TypeOK', OneAtATime, [Next]_vars
    PROVE  OneAtATime'
<1>1. CASE World
  <2>1. roll' = roll /\ pc' = "idle"
    BY <1>1 DEF World, Die, RetireKill, Probe, Unhealthy, JobExit
  <2> QED
    BY <2>1, OneKept
<1>2. CASE UNCHANGED vars
  BY <1>2 DEF vars, OneAtATime
<1> QED
  BY <1>1, <1>2, OneRequest, OneContinue, OneEvent DEF Next

-----------------------------------------------------------------------------
(* Every step keeps what was planned.                                      *)

LEMMA InstancesNamed ==
    ASSUME TypeOK, NEW w \in spec.web
    PROVE  /\ w \in Procs
           /\ InstancesOf(w) \subseteq Names /\ InstancesOf(w) # {}
           /\ \A j \in InstancesOf(w) : Proc(j) = w
<1>1. w \in Procs /\ spec.count[w] \in 1..MaxCount
  BY SpecsAssumption DEF TypeOK, SpecType
<1>2. InstancesOf(w) \subseteq Names
  BY <1>1, InstancesType
<1>3. InstancesOf(w) # {}
  <2>1. CASE spec.count[w] = 1
    BY <2>1 DEF InstancesOf
  <2>2. CASE spec.count[w] # 1
    <3>1. <<w, 1>> \in InstancesOf(w)
      BY <1>1, <2>2, NamesAssumption DEF InstancesOf
    <3> QED
      BY <3>1
  <2> QED
    BY <2>1, <2>2
<1>4. \A j \in InstancesOf(w) : Proc(j) = w
  BY <1>1 DEF InstancesOf, Proc
<1> QED
  BY <1>1, <1>2, <1>3, <1>4

LEMMA SameInstances == spec' = spec => \A w : InstancesOf(w)' = InstancesOf(w)
BY DEF InstancesOf

(* The copy a roll goes on booting keeps its name.                         *)
LEMMA BootingNamed ==
    ASSUME TypeOK, TypeOK', Table, Table', Next, RollKept, roll.current # None,
           pc # "advance"
    PROVE  tab'[roll.current].inst = tab[roll.current].inst
<1>1. roll.current \in Pids /\ roll'.current = roll.current
  BY DEF RollKept, TypeOK, RollType
<1>2. tab[roll.current] # NoProcess /\ tab'[roll.current] # NoProcess
  BY <1>1 DEF Table, BootingOK, NoProcess
<1>3. tab'[roll.current].inst \in Names
  BY <1>1, <1>2 DEF Table, Named
<1>4. NamesKept
  BY HandlersKeepNames, WorldKeepsNames, EventsKeepNames DEF Next, Continue, advanceRoll
<1>5. Of(tab[roll.current], tab'[roll.current])
  BY <1>1, <1>2, <1>4 DEF NamesKept
<1> QED
  BY <1>3, <1>5, FreeName DEF Of

LEMMA PlannedKept ==
    ASSUME TypeOK, TypeOK', Table, Table', Planned, Next, RollKept,
           pc \notin {"plan", "advance"}, disturbed' = disturbed \cup Disturbing
    PROVE  Planned'
<1>1. CASE spec' # spec
  <2>1. spec'.web \subseteq Procs
    BY SpecsAssumption DEF TypeOK, SpecType
  <2>2. Procs \subseteq disturbed'
    BY <1>1 DEF Disturbing
  <2> QED
    BY <2>1, <2>2 DEF Planned
<1>2. CASE spec' = spec
  <2>1. disturbed' = disturbed \cup Losing
    BY <1>2 DEF Disturbing
  <2> SUFFICES ASSUME NEW s \in roll'.steps, Proc(s[1]) \in spec'.web \ disturbed'
               PROVE  /\ s[2] # "worker"
                      /\ s[2] = "retire" /\ WholeRoll' =>
                           /\ s[1] \notin InstancesOf(Proc(s[1]))'
                           /\ \A j \in InstancesOf(Proc(s[1]))' : Covered(j)'
    BY DEF Planned
  <2> DEFINE w == Proc(s[1])
  <2>2. s \in roll.steps /\ w \in spec.web \ disturbed /\ w \notin Losing
    BY <1>2, <2>1 DEF RollKept
  <2>3. /\ s[2] # "worker"
        /\ s[2] = "retire" /\ WholeRoll =>
             s[1] \notin InstancesOf(w) /\ \A j \in InstancesOf(w) : Covered(j)
    BY <2>2 DEF Planned, RollKept
  <2>4. InstancesOf(w)' = InstancesOf(w) /\ WholeRoll' = WholeRoll
    BY <1>2, SameInstances DEF RollKept, WholeRoll
  <2>5. ASSUME NEW j \in InstancesOf(w), Covered(j) PROVE Covered(j)'
    <3>1. CASE <<j, "replace">> \in roll.steps
      BY <3>1 DEF RollKept, Covered
    <3>2. CASE roll.current # None /\ tab[roll.current].inst = j
      BY <3>2, BootingNamed DEF RollKept, Covered
    <3>3. CASE Serving(j)
      <4>1. j \in Names /\ Proc(j) = w /\ w \in Procs
        BY <2>2, InstancesNamed
      <4>2. Serving(j)'
        BY <2>2, <3>3, <4>1 DEF Losing
      <4> QED
        BY <4>2 DEF Covered
    <3> QED
      BY <2>5, <3>1, <3>2, <3>3 DEF Covered
  <2>6. InstancesOf(Proc(s[1]))' = InstancesOf(w)
    BY <2>4
  <2> QED
    BY <2>3, <2>4, <2>5, <2>6
<1> QED
  BY <1>1, <1>2

LEMMA PlannedOver == RollOver => Planned'
BY DEF RollOver, Planned

(* The new copy takes the place of the old one: the mark of its name is    *)
(* set in the same step.                                                   *)
LEMMA SwapServes ==
    ASSUME TypeOK, Table, NEW p \in Pids, Swaps(p)
    PROVE  /\ pc = "idle" /\ spec' = spec
           /\ roll'.steps = roll.steps /\ roll'.only = roll.only /\ roll.current = p
           /\ tab[p].inst \in Names
           /\ \A j \in Names : j = tab[p].inst \/ Serving(j) => Serving(j)'
<1>0. p \in tracked /\ p # None
  BY NamesAssumption DEF Swaps, tracked
<1>1. PICK i \in Names : i = tab[p].inst
  BY <1>0, TrackedInUse
<1>2. /\ pc = "idle" /\ spec' = spec
      /\ processes' = [processes EXCEPT ![i] = p] /\ ready' = ready \cup {i}
      /\ roll' = [roll EXCEPT !.current = None] /\ roll.current = p
  BY <1>1, Zenon DEF Swaps, Ready
<1>3. roll'.steps = roll.steps /\ roll'.only = roll.only
  BY <1>2 DEF TypeOK, RollType
<1>4. Serving(i)' /\ \A j \in Names : Serving(j) => Serving(j)'
  BY <1>0, <1>2 DEF Serving, TypeOK
<1> QED
  BY <1>1, <1>2, <1>3, <1>4

LEMMA PlannedSwap ==
    ASSUME TypeOK, Table, Planned, NEW p \in Pids, Swaps(p), disturbed \subseteq disturbed'
    PROVE  Planned'
<1>1. /\ pc = "idle" /\ spec' = spec
      /\ roll'.steps = roll.steps /\ roll'.only = roll.only /\ roll.current = p
      /\ \A j \in Names : j = tab[p].inst \/ Serving(j) => Serving(j)'
  BY SwapServes
<1> SUFFICES ASSUME NEW s \in roll'.steps, Proc(s[1]) \in spec'.web \ disturbed'
             PROVE  /\ s[2] # "worker"
                    /\ s[2] = "retire" /\ WholeRoll' =>
                         /\ s[1] \notin InstancesOf(Proc(s[1]))'
                         /\ \A j \in InstancesOf(Proc(s[1]))' : Covered(j)'
  BY DEF Planned
<1> DEFINE w == Proc(s[1])
<1>2. w \in spec.web \ disturbed /\ s \in roll.steps
  BY <1>1
<1>3. /\ s[2] # "worker"
      /\ s[2] = "retire" /\ WholeRoll =>
           s[1] \notin InstancesOf(w) /\ \A j \in InstancesOf(w) : Covered(j)
  BY <1>1, <1>2 DEF Planned
<1>4. InstancesOf(w)' = InstancesOf(w) /\ WholeRoll' = WholeRoll
  BY <1>1, SameInstances DEF WholeRoll
<1>5. ASSUME NEW j \in InstancesOf(w), Covered(j) PROVE Covered(j)'
  <2>1. j \in Names
    BY <1>2, InstancesNamed
  <2> QED
    BY <1>1, <1>5, <2>1 DEF Covered
<1>6. InstancesOf(Proc(s[1]))' = InstancesOf(w)
  BY <1>4
<1> QED
  BY <1>3, <1>4, <1>5, <1>6

(* What planRoll sets down: all the copies an entry should have before any *)
(* of its surplus.                                                         *)
LEMMA PlannedPlan ==
    ASSUME TypeOK, TypeOK', planRoll, disturbed' = {}
    PROVE  Planned'
<1>1. /\ roll'.steps = (ReplaceSet \X {"replace"}) \cup (WorkerSet \X {"worker"})
                          \cup (RetireSet \X {"retire"})
      /\ roll'.only = roll.only /\ roll'.current = roll.current
      /\ UNCHANGED <<spec, processes, ready, tab>>
  BY DEF planRoll, TypeOK, RollType
<1> SUFFICES ASSUME NEW s \in roll'.steps, Proc(s[1]) \in spec.web
             PROVE  /\ s[2] # "worker"
                    /\ s[2] = "retire" /\ WholeRoll =>
                         /\ s[1] \notin InstancesOf(Proc(s[1]))
                         /\ \A j \in InstancesOf(Proc(s[1])) : <<j, "replace">> \in roll'.steps
  <2>1. \A w : InstancesOf(w)' = InstancesOf(w)
    BY <1>1, SameInstances
  <2>2. WholeRoll' = WholeRoll
    BY <1>1 DEF WholeRoll
  <2>3. \A j : <<j, "replace">> \in roll'.steps => Covered(j)'
    BY DEF Covered
  <2> QED
    BY <1>1, <2>1, <2>2, <2>3 DEF Planned
<1> DEFINE w == Proc(s[1])
<1>2. s[2] # "worker"
  <2>1. ASSUME s[1] \in WorkerSet PROVE FALSE
    <3>1. PICK q \in spec.cmds \ spec.web : s[1] \in InstancesOf(q)
      BY <2>1 DEF WorkerSet
    <3>2. Proc(s[1]) = q
      BY <3>1 DEF InstancesOf, Proc
    <3> QED
      BY <3>1, <3>2
  <2> QED
    BY <1>1, <2>1
<1>3. ASSUME s[2] = "retire", WholeRoll
      PROVE  s[1] \notin InstancesOf(w) /\ \A j \in InstancesOf(w) : <<j, "replace">> \in roll'.steps
  <2>1. s[1] \in RetireSet
    BY <1>1, <1>3
  <2>2. s[1] \notin InstancesOf(w) /\ Matches(s[1])
    BY <2>1 DEF RetireSet, wanted
  <2>3. ASSUME NEW j \in InstancesOf(w) PROVE Matches(j)
    <3>1. Proc(j) = w
      BY InstancesNamed
    <3>2. CASE roll.only = All
      BY <3>2 DEF Matches
    <3>3. CASE roll.only # All
      <4>1. PICK q \in Procs : roll.only = <<q, 0>>
        BY <1>3, <3>3 DEF WholeRoll
      <4>2. q = w
        BY <2>2, <3>3, <4>1 DEF Matches, Proc
      <4> QED
        BY <3>1, <4>1, <4>2 DEF Matches
    <3> QED
      BY <3>2, <3>3
  <2>4. ASSUME NEW j \in InstancesOf(w) PROVE j \in ReplaceSet
    BY <2>3 DEF ReplaceSet
  <2> QED
    BY <1>1, <2>2, <2>4
<1> QED
  BY <1>2, <1>3

(* A step of the roll leaves every other instance serving.                 *)
LEMMA RetireServing ==
    ASSUME TypeOK, NEW i, retire(i), NEW j \in Names, j # i, Serving(j)
    PROVE  Serving(j)'
BY DEF retire, Serving, TypeOK

LEMMA AdvanceMoves ==
    ASSUME TypeOK, OneAtATime, Planned, advanceRoll, pc' \notin {"abort", "finish"}
    PROVE  /\ pc = "advance" /\ spec' = spec /\ roll.current = None
           /\ \E s \in NextSteps :
                /\ s \in roll.steps /\ roll'.steps = roll.steps \ {s} /\ roll'.only = roll.only
                /\ \/ /\ s[2] \in {"retire", "worker"} /\ roll'.current = None
                      /\ \A j \in Names : j # s[1] /\ Serving(j) => Serving(j)'
                   \/ /\ s[2] = "replace"
                      /\ roll'.current # None /\ tab'[roll'.current].inst = s[1]
                      /\ UNCHANGED <<processes, ready>>
<1>0. roll \in RollType /\ pc = "advance" /\ spec' = spec /\ roll.current = None
  BY DEF TypeOK, advanceRoll, OneAtATime
<1>1. PICK s \in NextSteps : stepRetire(s) \/ stepWorker(s) \/ stepReplace(s)
  BY DEF advanceRoll
<1>2. s \in roll.steps /\ s[1] \in Names
  BY <1>0, <1>1 DEF NextSteps, RollType
<1>3. CASE stepRetire(s)
  <2>1. /\ s[2] = "retire" /\ roll' = [roll EXCEPT !.steps = @ \ {s}]
        /\ retire(s[1]) \/ UNCHANGED <<processes, ready>>
    BY <1>3 DEF stepRetire
  <2>2. \A j \in Names : j # s[1] /\ Serving(j) => Serving(j)'
    BY <2>1, RetireServing DEF Serving
  <2>3. roll'.steps = roll.steps \ {s} /\ roll'.only = roll.only /\ roll'.current = None
    BY <1>0, <2>1 DEF RollType
  <2> QED
    BY <1>0, <1>2, <2>1, <2>2, <2>3
<1>4. CASE stepWorker(s)
  <2>1. /\ s[2] = "worker"
        /\ \/ /\ retire(s[1])
              /\ roll' = [roll EXCEPT !.steps = @ \ {s}, !.waiting = processes[s[1]]]
           \/ /\ \E p \in Pids : processes' = [processes EXCEPT ![s[1]] = p]
              /\ roll' = [roll EXCEPT !.steps = @ \ {s}] /\ ready' = ready
    BY <1>4, Zenon DEF stepWorker
  <2>2. \A j \in Names : j # s[1] /\ Serving(j) => Serving(j)'
    BY <2>1, RetireServing DEF Serving, TypeOK
  <2>3. roll'.steps = roll.steps \ {s} /\ roll'.only = roll.only /\ roll'.current = None
    BY <1>0, <2>1 DEF RollType
  <2> QED
    BY <1>0, <1>2, <2>1, <2>2, <2>3
<1>5. CASE stepReplace(s)
  <2>1. /\ s[2] = "replace" /\ UNCHANGED <<processes, ready>>
        /\ \E p \in Pids, k \in Slots :
              /\ tab' = [tab EXCEPT ![p] = Spawned(s[1], k, IsWeb(s[1]))]
              /\ roll' = [roll EXCEPT !.steps = @ \ {s}, !.current = p]
    BY <1>5, Zenon DEF stepReplace
  <2>2. PICK p \in Pids, k \in Slots :
              /\ tab' = [tab EXCEPT ![p] = Spawned(s[1], k, IsWeb(s[1]))]
              /\ roll' = [roll EXCEPT !.steps = @ \ {s}, !.current = p]
    BY <2>1
  <2>3. roll'.steps = roll.steps \ {s} /\ roll'.only = roll.only /\ roll'.current = p
    BY <1>0, <2>2 DEF RollType
  <2>4. tab'[p] = Spawned(s[1], k, IsWeb(s[1]))
    BY <2>2 DEF TypeOK
  <2>5. tab'[p].inst = s[1]
    BY <1>2, <2>4, SpawnedFields, WebBoolean
  <2>6. p # None
    BY NamesAssumption
  <2> QED
    BY <1>0, <1>2, <2>1, <2>3, <2>5, <2>6
<1> QED
  BY <1>1, <1>3, <1>4, <1>5

LEMMA PlannedAdvance ==
    ASSUME TypeOK, OneAtATime, Planned, advanceRoll, disturbed \subseteq disturbed'
    PROVE  Planned'
<1>1. CASE pc' \in {"abort", "finish"}
  BY <1>1 DEF Planned
<1>2. CASE pc' \notin {"abort", "finish"}
  <2>1. pc = "advance" /\ spec' = spec /\ roll.current = None
    BY <1>2, AdvanceMoves
  <2>2. PICK s \in NextSteps :
          /\ s \in roll.steps /\ roll'.steps = roll.steps \ {s} /\ roll'.only = roll.only
          /\ \/ /\ s[2] \in {"retire", "worker"} /\ roll'.current = None
                /\ \A j \in Names : j # s[1] /\ Serving(j) => Serving(j)'
             \/ /\ s[2] = "replace"
                /\ roll'.current # None /\ tab'[roll'.current].inst = s[1]
                /\ UNCHANGED <<processes, ready>>
    BY <1>2, AdvanceMoves
  <2> SUFFICES ASSUME NEW t \in roll'.steps, Proc(t[1]) \in spec'.web \ disturbed'
               PROVE  /\ t[2] # "worker"
                      /\ t[2] = "retire" /\ WholeRoll' =>
                           /\ t[1] \notin InstancesOf(Proc(t[1]))'
                           /\ \A j \in InstancesOf(Proc(t[1]))' : Covered(j)'
    BY DEF Planned
  <2> DEFINE w == Proc(t[1])
  <2>3. t \in roll.steps /\ w \in spec.web \ disturbed
    BY <2>1, <2>2
  <2>4. /\ t[2] # "worker"
        /\ t[2] = "retire" /\ WholeRoll =>
             t[1] \notin InstancesOf(w) /\ \A j \in InstancesOf(w) : Covered(j)
    BY <2>1, <2>3 DEF Planned
  <2>5. InstancesOf(w)' = InstancesOf(w) /\ WholeRoll' = WholeRoll
    BY <2>1, <2>2, SameInstances DEF WholeRoll
  <2>6. ASSUME WholeRoll, NEW j \in InstancesOf(w), Covered(j) PROVE Covered(j)'
    <3>1. j \in Names /\ Proc(j) = w
      BY <2>3, InstancesNamed
    <3>2. CASE s[2] = "replace"
      <4>1. CASE <<j, "replace">> \in roll.steps /\ <<j, "replace">> # s
        BY <2>2, <4>1 DEF Covered
      <4>2. CASE <<j, "replace">> = s
        <5>1. s[1] = j
          BY <4>2
        <5> QED
          BY <2>2, <3>2, <5>1 DEF Covered
      <4>3. CASE Serving(j)
        BY <2>2, <3>2, <4>3 DEF Serving, Covered
      <4> QED
        BY <2>1, <2>6, <4>1, <4>2, <4>3 DEF Covered
    <3>3. CASE s[2] \in {"retire", "worker"}
      <4>1. CASE <<j, "replace">> \in roll.steps
        <5>1. <<j, "replace">> # s
          BY <3>3
        <5> QED
          BY <2>2, <4>1, <5>1 DEF Covered
      <4>2. CASE Serving(j)
        <5>1. ASSUME j = s[1] PROVE FALSE
          <6>1. Proc(s[1]) \in spec.web \ disturbed /\ Proc(s[1]) = w
            BY <2>3, <3>1, <5>1
          <6>2. s[2] = "retire" /\ s[1] \notin InstancesOf(w)
            BY <2>1, <2>2, <2>6, <3>3, <6>1 DEF Planned
          <6> QED
            BY <5>1, <6>2
        <5>2. Serving(j)'
          BY <2>2, <3>1, <3>3, <4>2, <5>1
        <5> QED
          BY <5>2 DEF Covered
      <4> QED
        BY <2>1, <2>6, <4>1, <4>2 DEF Covered
    <3> QED
      BY <2>2, <3>2, <3>3
  <2>7. InstancesOf(Proc(t[1]))' = InstancesOf(w)
    BY <2>5
  <2> QED
    BY <2>4, <2>5, <2>6, <2>7
<1> QED
  BY <1>1, <1>2

(* In the middle of a handler the goroutine does nothing else.             *)
LEMMA OnlyInPlace ==
    ASSUME Next
    PROVE  (pc = "plan" => planRoll) /\ (pc = "advance" => advanceRoll)
BY DEF Next, Request, ReqStart, ReqStop, ReqRestart, ReqProcessStart,
   ReqProcessStop, ReqProcessRestart, beginRoll, ReqUpdate, Continue, start, continueStart,
   spawnAll, spawnedAll, startProcess, runRoll, planRoll, advanceRoll, abortRoll, finishRoll,
   Lifecycle, Event, StepExit, Ready, HealthFailed, Exit, RestartDue, Retired,
   World, Die, RetireKill, Probe, Unhealthy, JobExit

LEMMA PlannedNext ==
    ASSUME TypeOK, TypeOK', Table, Table', OneAtATime, Planned, [WatchNext]_watchVars
    PROVE  Planned'
<1>1. CASE UNCHANGED watchVars
  BY <1>1 DEF watchVars, Planned, WholeRoll, InstancesOf, Covered, Serving
<1>2. CASE WatchNext /\ pc = "plan"
  <2>1. planRoll
    BY <1>2, OnlyInPlace DEF WatchNext
  <2> QED
    BY <1>2, <2>1, PlannedPlan DEF WatchNext
<1>3. CASE WatchNext /\ pc = "advance"
  <2>1. advanceRoll
    BY <1>3, OnlyInPlace DEF WatchNext
  <2>2. disturbed \subseteq disturbed'
    BY <1>3 DEF WatchNext
  <2> QED
    BY <2>1, <2>2, PlannedAdvance
<1>4. CASE WatchNext /\ pc \notin {"plan", "advance"}
  <2>1. Next /\ disturbed' = disturbed \cup Disturbing
    BY <1>4 DEF WatchNext
  <2>2. RollKept \/ RollOver \/ \E p \in Pids : Swaps(p)
    BY <1>4, <2>1, KeptOutside
  <2> QED
    BY <1>4, <2>1, <2>2, PlannedKept, PlannedOver, PlannedSwap
<1> QED
  BY <1>1, <1>2, <1>3, <1>4

LEMMA PlannedInit == WatchInit => OneAtATime /\ Planned
BY DEF WatchInit, Init, OneAtATime, Planned, NoRoll

LEMMA ServesBy ==
    ASSUME NEW w, \A j \in Names : Proc(j) = w /\ Serving(j) => Serving(j)',
           webServing(w, processes, ready)
    PROVE  webServing(w, processes', ready')
BY DEF webServing, Serving

(* The steps that hand on to the next step of the roll.                    *)
LEMMA AdvanceEntered ==
    ASSUME Next, pc # "advance", pc' = "advance"
    PROVE  planRoll \/ \E p \in Pids : Swaps(p) \/ Retired(p)
<1>1. CASE Request
  BY <1>1 DEF Request, ReqStart, ReqStop, ReqRestart, ReqProcessStart, ReqProcessStop,
     ReqProcessRestart, beginRoll, ReqUpdate
<1>2. CASE Continue
  BY <1>2 DEF Continue, start, continueStart, spawnAll, spawnedAll, startProcess,
     runRoll, advanceRoll, abortRoll, finishRoll, Lifecycle
<1>3. CASE Event
  <2>1. ASSUME NEW s \in Lifecycle, StepExit(s) PROVE FALSE
    BY <2>1, Zenon DEF StepExit
  <2>2. ASSUME NEW p \in Pids, HealthFailed(p) \/ Exit(p) \/ RestartDue(p) PROVE FALSE
    BY <2>2, Zenon DEF HealthFailed, Exit, RollExit, RestartDue
  <2>3. ASSUME NEW p \in Pids, Ready(p) PROVE Swaps(p)
    BY <2>3, Zenon DEF Ready, Swaps
  <2> QED
    BY <1>3, <2>1, <2>2, <2>3 DEF Event
<1>4. CASE World
  BY <1>4 DEF World, Die, RetireKill, Probe, Unhealthy, JobExit
<1> QED
  BY <1>1, <1>2, <1>3, <1>4 DEF Next

(* Surplus copies are retired last, when every copy that is to stay serves. *)
LEMMA RetiredLast ==
    ASSUME TypeOK, OneAtATime, Planned, pc = "advance", WholeRoll,
           NEW s \in NextSteps, s[2] = "retire", Proc(s[1]) \in spec.web \ disturbed
    PROVE  \E j \in Names : Proc(j) = Proc(s[1]) /\ j # s[1] /\ Serving(j)
<1> DEFINE w == Proc(s[1])
<1>1. s \in roll.steps /\ \A t \in roll.steps : Rank(s[2]) <= Rank(t[2])
  BY DEF NextSteps
<1>2. s[1] \notin InstancesOf(w) /\ \A j \in InstancesOf(w) : Covered(j)
  BY <1>1 DEF Planned
<1>3. PICK j \in InstancesOf(w) : j \in Names /\ Proc(j) = w
  BY InstancesNamed
<1>4. roll.current = None
  BY DEF OneAtATime
<1>5. <<j, "replace">> \notin roll.steps
  <2>1. Rank("retire") = 3 /\ Rank("replace") = 1 /\ ~(3 <= 1)
    BY DEF Rank
  <2>2. ASSUME <<j, "replace">> \in roll.steps PROVE FALSE
    <3>1. <<j, "replace">>[2] = "replace"
      OBVIOUS
    <3> QED
      BY <1>1, <2>1, <2>2, <3>1
  <2> QED
    BY <2>2
<1> QED
  BY <1>2, <1>3, <1>4, <1>5 DEF Covered

LEMMA AdvanceServes ==
    ASSUME TypeOK, OneAtATime, Planned, advanceRoll, WholeRoll, state' # "crashed",
           NEW w \in spec.web \ disturbed, webServing(w, processes, ready)
    PROVE  webServing(w, processes', ready')
<1>1. CASE pc' \in {"abort", "finish"}
  <2>1. UNCHANGED <<processes, ready>>
    BY <1>1, Zenon DEF advanceRoll, stepRetire, stepWorker, stepReplace, FailStart
  <2> QED
    BY <2>1
<1>2. CASE pc' \notin {"abort", "finish"}
  <2>1. /\ pc = "advance"
        /\ \E s \in NextSteps :
             /\ s \in roll.steps
             /\ \/ /\ s[2] \in {"retire", "worker"}
                   /\ \A j \in Names : j # s[1] /\ Serving(j) => Serving(j)'
                \/ UNCHANGED <<processes, ready>>
    BY <1>2, AdvanceMoves
  <2>2. PICK s \in NextSteps :
             /\ s \in roll.steps
             /\ \/ /\ s[2] \in {"retire", "worker"}
                   /\ \A j \in Names : j # s[1] /\ Serving(j) => Serving(j)'
                \/ UNCHANGED <<processes, ready>>
    BY <2>1
  <2>3. CASE UNCHANGED <<processes, ready>>
    BY <2>3
  <2>4. CASE /\ s[2] \in {"retire", "worker"}
             /\ \A j \in Names : j # s[1] /\ Serving(j) => Serving(j)'
    <3>1. CASE Proc(s[1]) # w
      BY <2>4, <3>1, ServesBy
    <3>2. CASE Proc(s[1]) = w
      <4>1. s[2] = "retire"
        BY <2>1, <2>2, <2>4, <3>2 DEF Planned
      <4>2. PICK j \in Names : Proc(j) = w /\ j # s[1] /\ Serving(j)
        BY <2>1, <3>2, <4>1, RetiredLast
      <4>3. Serving(j)'
        BY <2>4, <4>2
      <4> QED
        BY <4>2, <4>3 DEF webServing, Serving
    <3> QED
      BY <3>1, <3>2
  <2> QED
    BY <2>2, <2>3, <2>4
<1> QED
  BY <1>1, <1>2

(* A rolling restart of the app or of one entry takes the last ready copy  *)
(* of a web process away only if something else happened to that process   *)
(* since the roll was planned, or the app crashes (roll.go: planRoll,      *)
(* advanceRoll, rollEvent), for any number of entries, copies and workers. *)
THEOREM RollsKeepServing == WatchSpec => RollKeepsServing
<1> DEFINE Inv == TypeOK /\ Table /\ OneAtATime /\ Planned
<1>1. WatchInit => Inv
  BY TypeInit, TableInit, PlannedInit DEF WatchInit
<1>2. Inv /\ [WatchNext]_watchVars => Inv'
  <2> SUFFICES ASSUME Inv, [WatchNext]_watchVars PROVE Inv'
    OBVIOUS
  <2>1. [Next]_vars
    BY DEF WatchNext, watchVars, vars
  <2>2. TypeOK' /\ Table'
    BY <2>1, TypeNext, TableNext
  <2> QED
    BY <2>1, <2>2, OneNext, PlannedNext
<1>3. ASSUME Inv, WatchNext, pc = "advance" \/ pc' = "advance", WholeRoll, state' # "crashed",
             NEW w \in spec.web \ disturbed, webServing(w, processes, ready)
      PROVE  webServing(w, processes', ready')
  <2>1. CASE advanceRoll
    BY <1>3, <2>1, AdvanceServes
  <2>2. CASE planRoll
    BY <1>3, <2>2 DEF planRoll
  <2>3. ASSUME NEW p \in Pids, Swaps(p) PROVE webServing(w, processes', ready')
    BY <1>3, <2>3, SwapServes, ServesBy
  <2>4. ASSUME NEW p \in Pids, Retired(p), pc' = "advance" PROVE webServing(w, processes', ready')
    <3>1. /\ ready' = ready
          /\ \/ processes' = processes
             \/ \E q \in Pids : processes' = [processes EXCEPT ![tab[p].inst] = q]
      BY <2>4, Zenon DEF Retired
    <3>2. \A j \in Names : Serving(j) => Serving(j)'
      BY <1>3, <3>1, NamesAssumption DEF Serving, TypeOK
    <3> QED
      BY <1>3, <3>2, ServesBy
  <2>5. CASE pc = "advance"
    BY <1>3, <2>1, <2>5, OnlyInPlace DEF WatchNext
  <2>6. CASE pc # "advance" /\ pc' = "advance"
    BY <1>3, <2>2, <2>3, <2>4, <2>6, AdvanceEntered DEF WatchNext
  <2> QED
    BY <1>3, <2>5, <2>6
<1>4. Inv /\ [WatchNext]_watchVars
      => [ /\ pc = "advance" \/ pc' = "advance"
           /\ roll.only \in {All} \cup (Procs \X {0})
           /\ state' # "crashed"
           => \A w \in spec.web \ disturbed :
                 webServing(w, processes, ready) => webServing(w, processes', ready')
         ]_watchVars
  BY <1>3 DEF WholeRoll
<1> QED
  BY <1>1, <1>2, <1>4, PTL DEF WatchSpec, RollKeepsServing

=============================================================================
