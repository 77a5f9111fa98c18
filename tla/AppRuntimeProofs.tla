-------------------------- MODULE AppRuntimeProofs --------------------------
(* Theorems about AppRuntime, for every set of entries, specs, process     *)
(* objects, slots and callers: types, what is tracked, who waits, and apps *)
(* handled by hand.                                                        *)
EXTENDS AppRuntime, TLAPS

-----------------------------------------------------------------------------
(* Every action keeps the types of the state.                              *)

(* A process object in use was spawned for an instance.                    *)
Named == \A p \in Pids : tab[p] # NoProcess => tab[p].inst \in Names

-----------------------------------------------------------------------------
(* What the helpers return.                                                *)

LEMMA NoProcessType == NoProcess \in ProcessType
BY NamesAssumption DEF NoProcess, ProcessType, All, Slots

LEMMA FieldTypes ==
    ASSUME NEW r \in ProcessType, NEW b \in BOOLEAN,
           NEW m \in {"off", "probe", "ready", "live", "fail"}
    PROVE  /\ [r EXCEPT !.exitEv = b] \in ProcessType
           /\ [r EXCEPT !.timer = b] \in ProcessType
           /\ [r EXCEPT !.drain = b] \in ProcessType
           /\ [r EXCEPT !.mon = m] \in ProcessType
BY DEF ProcessType

LEMMA HelperTypes ==
    ASSUME NEW r \in ProcessType
    PROVE  /\ Collect(r) \in ProcessType
           /\ Killed(r) \in ProcessType
           /\ Released(r) \in ProcessType
           /\ Retiring(r) \in ProcessType
<1>1. \A x \in ProcessType : Collect(x) \in ProcessType
  BY NoProcessType DEF Collect
<1> DEFINE m == IF r.mon \in {"probe", "live"} THEN "off" ELSE r.mon
<1>2. [r EXCEPT !.mon = m, !.slot = 0, !.code = "ok", !.released = TRUE] \in ProcessType
  <2>1. 0 \in Slots
    BY NamesAssumption DEF Slots
  <2>2. m \in {"off", "probe", "ready", "live", "fail"}
    BY DEF ProcessType
  <2> HIDE DEF m
  <2> QED BY <2>1, <2>2 DEF ProcessType
<1>3. Released(r) \in ProcessType
  BY <1>1, <1>2 DEF Released
<1>4. Killed(r) \in ProcessType /\ Retiring(r) \in ProcessType
  BY ZenonT(40) DEF Killed, Retiring, ProcessType
<1> QED
  BY <1>1, <1>3, <1>4

LEMMA KillType ==
    ASSUME TypeOK, NEW S
    PROVE  KillAndRelease(S) \in [Pids -> ProcessType]
<1>1. \A p \in Pids : tab[p] \in ProcessType
  BY DEF TypeOK
<1>2. \A p \in Pids : Released(Killed(tab[p])) \in ProcessType
  BY <1>1, HelperTypes
<1> QED BY <1>1, <1>2 DEF KillAndRelease

LEMMA SpawnedType ==
    ASSUME NEW i \in Names, NEW k \in Slots, NEW w \in BOOLEAN
    PROVE  Spawned(i, k, w) \in ProcessType
BY DEF Spawned, NoProcess, ProcessType, Slots

LEMMA WebBoolean == \A i : IsWeb(i) \in BOOLEAN
BY DEF IsWeb

LEMMA InstancesType ==
    ASSUME TypeOK, NEW q \in Procs
    PROVE  InstancesOf(q) \subseteq Names
<1>1. spec.count[q] \in 1..MaxCount
  BY SpecsAssumption DEF TypeOK, SpecType
<1> QED BY <1>1, NamesAssumption DEF InstancesOf, Names

LEMMA SetTypes ==
    ASSUME TypeOK
    PROVE  /\ StartSet \subseteq Names
           /\ knownInstances \subseteq Names
           /\ \A n \in Names : resolve(n) \subseteq Names
           /\ ReplaceSet \subseteq Names
           /\ WorkerSet \subseteq Names
           /\ RetireSet \subseteq Names
<1>1. spec.cmds \subseteq Procs /\ spec.web \subseteq Procs
  BY SpecsAssumption DEF TypeOK, SpecType
<1>2. \A q \in Procs : InstancesOf(q) \subseteq Names
  BY InstancesType
<1>3. \A n \in Names : Proc(n) \in Procs
  BY DEF Names, Proc
<1>4. knownInstances \subseteq Names
  <2>1. UNION {InstancesOf(q) : q \in spec.cmds} \subseteq Names
    BY <1>1, <1>2
  <2>2. {i \in Names : processes[i] # None} \subseteq Names
    OBVIOUS
  <2> QED BY <2>1, <2>2 DEF knownInstances
<1>5. StartSet \subseteq Names /\ ReplaceSet \subseteq Names /\ WorkerSet \subseteq Names
  BY <1>1, <1>2 DEF StartSet, ReplaceSet, WorkerSet
<1>6. RetireSet \subseteq Names
  BY <1>4 DEF RetireSet
<1>7. \A n \in Names : resolve(n) \subseteq Names
  BY <1>2, <1>3 DEF resolve
<1> QED BY <1>4, <1>5, <1>6, <1>7

LEMMA NewRollType ==
    ASSUME NEW o \in Names \cup {All}, NEW S \in SUBSET Callers
    PROVE  NewRoll(o, S) \in RollType
BY DEF NewRoll, NoRoll, RollType, All

(* What a failure count may become (processExited, ready, start).          *)
LEMMA FailureUpdate ==
    /\ [i \in Names |-> 0] \in FailureType
    /\ \A f \in FailureType, i \in Names : \A n \in 0..MaxRestarts[Proc(i)] :
         [f EXCEPT ![i] = n] \in FailureType
<1>1. \A i \in Names : MaxRestarts[Proc(i)] \in Nat
  BY RestartAssumption DEF Names, Proc
<1> QED BY <1>1 DEF FailureType

(* The types of the parts of the state.                                    *)
LEMMA TypeParts ==
    ASSUME TypeOK
    PROVE  /\ \A p \in Pids : tab[p] \in ProcessType
           /\ \A i \in Names : processes[i] \in Pids \cup {None}
           /\ NoRoll \in RollType
           /\ [i \in Names |-> None] \in [Names -> Pids \cup {None}]
           /\ [i \in Names |-> 0] \in FailureType
           /\ \A i \in Names : [failures EXCEPT ![i] = 0] \in FailureType
<1>1. \A i \in Names : 0 \in 0..MaxRestarts[Proc(i)]
  BY RestartAssumption DEF Names, Proc
<1>2. \A i \in Names : [failures EXCEPT ![i] = 0] \in FailureType
  BY <1>1, FailureUpdate DEF TypeOK
<1> QED BY <1>2, FailureUpdate, NamesAssumption DEF TypeOK, NoRoll, RollType

LEMMA TypeInit == Init => TypeOK
<1> SUFFICES ASSUME Init PROVE TypeOK
  OBVIOUS
<1>1. roll \in RollType
  BY DEF Init, NoRoll, RollType, All
<1>2. tab \in [Pids -> ProcessType]
  BY NoProcessType DEF Init
<1>3. failures \in FailureType
  BY FailureUpdate DEF Init
<1> QED BY <1>1, <1>2, <1>3 DEF Init, TypeOK

LEMMA TypeRequest ==
    ASSUME TypeOK, Request
    PROVE  TypeOK'
<1> USE TypeParts, KillType, SetTypes
<1>1. CASE ReqStart
  BY <1>1 DEF ReqStart, TypeOK
<1>2. CASE ReqStop
  BY <1>2 DEF ReqStop, Stop, TypeOK
<1>3. CASE ReqRestart
  BY <1>3 DEF ReqRestart, Stop, TypeOK
<1>4. ASSUME NEW n \in Names, ReqProcessStart(n) PROVE TypeOK'
  BY <1>4 DEF ReqProcessStart, TypeOK
<1>5. ASSUME NEW n \in Names, ReqProcessStop(n) PROVE TypeOK'
  BY <1>5 DEF ReqProcessStop, StopProcess, TypeOK
<1>6. ASSUME NEW n \in Names, ReqProcessRestart(n) PROVE TypeOK'
  BY <1>6 DEF ReqProcessRestart, StopProcess, TypeOK
<1>7. ASSUME NEW c \in Callers, NEW o \in Targets, beginRoll(c, o) PROVE TypeOK'
  <2>1. o \in Names \cup {All}
    BY NamesAssumption
  <2>2. roll' \in RollType
    <3>1. CASE roll.on
      <4> DEFINE v == IF ~roll.again \/ roll.againOnly = o THEN o ELSE All
                 d == roll.againDone \cup {c}
      <4>1. roll' = [roll EXCEPT !.againOnly = v, !.again = TRUE, !.againDone = d]
        BY <1>7, <3>1 DEF beginRoll
      <4>2. roll \in RollType
        BY DEF TypeOK
      <4>3. v \in Names \cup {All} /\ d \subseteq Callers
        BY <2>1, <4>2 DEF RollType
      <4> HIDE DEF v, d
      <4> QED BY <4>1, <4>2, <4>3 DEF RollType
    <3>2. CASE ~roll.on
      BY <1>7, <2>1, <3>2, NewRollType DEF beginRoll
    <3> QED BY <3>1, <3>2
  <2> QED BY <1>7, <2>2 DEF beginRoll, TypeOK
<1>8. ASSUME NEW s \in Updates[spec], ReqUpdate(s) PROVE TypeOK'
  <2>1. s \in Specs
    BY InputsAssumption DEF TypeOK
  <2> QED BY <1>8, <2>1 DEF ReqUpdate, RollType, TypeOK
<1> QED BY <1>1, <1>2, <1>3, <1>4, <1>5, <1>6, <1>7, <1>8 DEF Request

LEMMA TypeStart ==
    ASSUME TypeOK, start \/ continueStart \/ spawnAll \/ spawnedAll \/ startProcess
    PROVE  TypeOK'
<1> USE TypeParts, KillType, SetTypes
<1>1. CASE start
  BY <1>1 DEF start, TypeOK
<1>2. CASE continueStart
  BY <1>2 DEF continueStart, FailStart, TypeOK, Lifecycle
<1>3. CASE spawnAll
  <2>1. CASE FailStart /\ todo' = {} /\ pc' = "idle"
    BY <1>3, <2>1 DEF spawnAll, FailStart, TypeOK
  <2>2. ASSUME NEW i \in todo, NEW p \in Pids, NEW k \in Slots,
               tab' = [tab EXCEPT ![p] = Spawned(i, k, FALSE)],
               processes' = [processes EXCEPT ![i] = p],
               todo' = todo \ {i},
               UNCHANGED <<state, retiring, pc>>
        PROVE  TypeOK'
    <3>1. Spawned(i, k, FALSE) \in ProcessType
      BY SpawnedType DEF TypeOK
    <3> QED BY <1>3, <2>2, <3>1 DEF spawnAll, TypeOK
  <2> QED BY <1>3, <2>1, <2>2 DEF spawnAll
<1>4. CASE spawnedAll
  <2>1. tab' \in [Pids -> ProcessType]
    BY <1>4, FieldTypes DEF spawnedAll
  <2> QED BY <1>4, <2>1 DEF spawnedAll, TypeOK
<1>5. CASE startProcess
  <2> PICK i \in todo : startProcess!2!(i)
    BY <1>5 DEF startProcess
  <2>1. i \in Names
    BY DEF TypeOK
  <2>2. CASE processes[i] # None
    BY <1>5, <2>1, <2>2 DEF startProcess, TypeOK
  <2>3. CASE FailStart /\ todo' = {} /\ processes[i] = None
    BY <1>5, <2>1, <2>3, SMTT(30) DEF startProcess, FailStart, TypeOK
  <2>4. ASSUME NEW p \in Pids, NEW k \in Slots,
               processes[i] = None,
               tab' = [tab EXCEPT ![p] = Spawned(i, k, IsWeb(i))],
               processes' = [processes EXCEPT ![i] = p],
               todo' = todo \ {i},
               UNCHANGED <<state, retiring>>
        PROVE  TypeOK'
    <3>1. Spawned(i, k, IsWeb(i)) \in ProcessType
      BY <2>1, WebBoolean, SpawnedType
    <3> QED BY <1>5, <2>1, <2>4, <3>1, ZenonT(40) DEF startProcess, TypeOK
  <2> QED BY <2>2, <2>3, <2>4
<1> QED BY <1>1, <1>2, <1>3, <1>4, <1>5

LEMMA RetireType ==
    ASSUME TypeOK, NEW i \in Names, processes[i] # None, retire(i)
    PROVE  /\ tab' \in [Pids -> ProcessType]
           /\ processes' \in [Names -> Pids \cup {None}]
           /\ retiring' \subseteq Pids
           /\ ready' \subseteq Names
<1>1. processes[i] \in Pids
  BY DEF TypeOK
<1>2. Retiring(tab[processes[i]]) \in ProcessType
  BY <1>1, HelperTypes, TypeParts
<1> QED BY <1>1, <1>2 DEF retire, TypeOK

LEMMA SpawnType ==
    ASSUME TypeOK, NEW i \in Names, NEW p \in Pids, NEW k \in Slots,
           NEW w \in BOOLEAN,
           tab' = [tab EXCEPT ![p] = Spawned(i, k, w)]
    PROVE  tab' \in [Pids -> ProcessType]
BY SpawnedType DEF TypeOK

LEMMA TypeAdvance ==
    ASSUME TypeOK, advanceRoll
    PROVE  TypeOK'
<1> USE TypeParts
<1>0. roll \in RollType
  BY DEF TypeOK
<1>1. CASE roll.steps = {} /\ pc' = "finish"
             /\ UNCHANGED <<state, processes, ready, retiring, roll, tab>>
  BY <1>1 DEF advanceRoll, TypeOK
<1>2. ASSUME NEW s \in NextSteps,
             stepRetire(s) \/ stepWorker(s) \/ stepReplace(s)
      PROVE  TypeOK'
  <2>1. /\ s[1] \in Names
        /\ roll.steps \ {s} \in SUBSET (Names \X {"replace", "worker", "retire"})
    BY <1>0 DEF NextSteps, RollType
  <2> DEFINE S == roll.steps \ {s}
             i == s[1]
  <2> HIDE DEF S, i
  <2>2. S \in SUBSET (Names \X {"replace", "worker", "retire"}) /\ i \in Names
    BY <2>1 DEF S, i
  <2>3. CASE stepRetire(s)
    <3>1. roll' = [roll EXCEPT !.steps = S]
      BY <2>3 DEF stepRetire, S
    <3>2. roll' \in RollType
      BY <1>0, <2>2, <3>1 DEF RollType
    <3>3. CASE processes[i] # None /\ retire(i)
      BY <1>2, <2>2, <2>3, <3>2, <3>3, RetireType DEF advanceRoll, stepRetire, TypeOK
    <3>4. CASE UNCHANGED <<tab, retiring, processes, ready>>
      BY <2>3, <3>2, <3>4 DEF advanceRoll, stepRetire, TypeOK
    <3> QED BY <2>3, <3>3, <3>4 DEF stepRetire, i
  <2>4. CASE stepWorker(s)
    <3>1. ASSUME processes[i] # None, retire(i),
                 roll' = [roll EXCEPT !.steps = S, !.waiting = processes[i]],
                 pc' = "idle", UNCHANGED state
          PROVE  TypeOK'
      <4> DEFINE x == processes[i]
      <4>1. x \in Pids \cup {None}
        BY <2>2
      <4> HIDE DEF x
      <4>2. roll' = [roll EXCEPT !.steps = S, !.waiting = x]
        BY <3>1 DEF x
      <4>3. roll' \in RollType
        BY <1>0, <2>2, <4>1, <4>2 DEF RollType
      <4> QED BY <2>2, <3>1, <4>3, RetireType DEF advanceRoll, TypeOK
    <3>2. ASSUME NEW p \in Pids, NEW k \in Slots,
                 tab' = [tab EXCEPT ![p] = Spawned(i, k, FALSE)],
                 processes' = [processes EXCEPT ![i] = p],
                 roll' = [roll EXCEPT !.steps = S],
                 UNCHANGED <<state, retiring, ready, pc>>
          PROVE  TypeOK'
      <4>1. roll' \in RollType
        BY <1>0, <2>2, <3>2 DEF RollType
      <4>2. tab' \in [Pids -> ProcessType]
        BY <2>2, <3>2, SpawnType
      <4> QED BY <2>2, <3>2, <4>1, <4>2 DEF advanceRoll, TypeOK
    <3>3. ASSUME FailStart, roll' = [roll EXCEPT !.steps = S],
                 pc' = "finish", UNCHANGED ready
          PROVE  TypeOK'
      <4>1. roll' \in RollType
        BY <1>0, <2>2, <3>3 DEF RollType
      <4> QED BY <3>3, <4>1, KillType DEF advanceRoll, FailStart, TypeOK
    <3> QED BY <2>4, <3>1, <3>2, <3>3 DEF stepWorker, S, i
  <2>5. CASE stepReplace(s)
    <3>1. ASSUME NEW p \in Pids, NEW k \in Slots,
                 tab' = [tab EXCEPT ![p] = Spawned(i, k, IsWeb(i))],
                 roll' = [roll EXCEPT !.steps = S, !.current = p],
                 pc' = "idle", UNCHANGED <<state, processes, retiring, ready>>
          PROVE  TypeOK'
      <4>1. roll' \in RollType
        BY <1>0, <2>2, <3>1 DEF RollType
      <4>2. tab' \in [Pids -> ProcessType]
        BY <2>2, <3>1, WebBoolean, SpawnType
      <4> QED BY <3>1, <4>1, <4>2 DEF advanceRoll, TypeOK
    <3>2. ASSUME roll' = [roll EXCEPT !.steps = S], pc' = "abort",
                 UNCHANGED <<tab, state, processes, retiring, ready>>
          PROVE  TypeOK'
      <4>1. roll' \in RollType
        BY <1>0, <2>2, <3>2 DEF RollType
      <4> QED BY <3>2, <4>1 DEF advanceRoll, TypeOK
    <3> QED BY <2>5, <3>1, <3>2 DEF stepReplace, S, i
  <2> QED BY <1>2, <2>3, <2>4, <2>5
<1> QED BY <1>1, <1>2 DEF advanceRoll

LEMMA TypeRoll ==
    ASSUME TypeOK, runRoll \/ planRoll \/ abortRoll \/ finishRoll
    PROVE  TypeOK'
<1>0. roll \in RollType
  BY DEF TypeOK
<1>1. CASE runRoll
  <2>1. roll' = [roll EXCEPT !.step = "runs"] \/ roll' = roll
    BY <1>1 DEF runRoll
  <2>2. roll' \in RollType
    BY <1>0, <2>1 DEF RollType
  <2> QED BY <1>1, <2>2 DEF runRoll, TypeOK, Lifecycle
<1>2. CASE planRoll
  <2> DEFINE S == (ReplaceSet \X {"replace"}) \cup (WorkerSet \X {"worker"})
                     \cup (RetireSet \X {"retire"})
  <2>1. S \in SUBSET (Names \X {"replace", "worker", "retire"})
    BY SetTypes
  <2>2. roll' = [roll EXCEPT !.steps = S]
    BY <1>2 DEF planRoll
  <2> HIDE DEF S
  <2>3. roll' \in RollType
    BY <1>0, <2>1, <2>2 DEF RollType
  <2> QED BY <1>2, <2>3 DEF planRoll, TypeOK
<1>3. CASE abortRoll
  <2>1. roll' = [roll EXCEPT !.current = None, !.again = FALSE]
    BY <1>3 DEF abortRoll
  <2>2. roll' \in RollType
    BY <1>0, <2>1 DEF RollType
  <2> QED BY <1>3, <2>2, KillType DEF abortRoll, TypeOK
<1>4. CASE finishRoll
  <2> DEFINE o == roll.againOnly
             d == roll.againDone
  <2>1. o \in Names \cup {All} /\ d \in SUBSET Callers
    BY <1>0 DEF RollType
  <2>2. roll' = NewRoll(o, d) \/ roll' = NoRoll
    BY <1>4 DEF finishRoll
  <2> HIDE DEF o, d
  <2>3. roll' \in RollType
    BY <2>1, <2>2, NewRollType, TypeParts
  <2> QED BY <1>4, <2>3 DEF finishRoll, TypeOK
<1> QED BY <1>1, <1>2, <1>3, <1>4

LEMMA CrashType ==
    ASSUME TypeOK, NEW f \in [Pids -> ProcessType], NEW S
    PROVE  [q \in Pids |-> IF q \in S THEN Released(Killed(f[q])) ELSE f[q]]
             \in [Pids -> ProcessType]
<1>1. \A q \in Pids : f[q] \in ProcessType /\ Released(Killed(f[q])) \in ProcessType
  BY HelperTypes
<1> QED BY <1>1

(* A process object in use has a name.                                     *)
LEMMA InUse ==
    ASSUME TypeOK, Named, NEW p \in Pids,
           \/ tab[p].mon # "off" \/ tab[p].exitEv \/ tab[p].drain \/ tab[p].timer
           \/ tab[p].os # "none"
    PROVE  tab[p].inst \in Names
BY DEF Named, NoProcess

LEMMA TypeStepExit ==
    ASSUME TypeOK, NEW s \in Lifecycle, StepExit(s)
    PROVE  TypeOK'
<1>1. roll' \in RollType
  <2>1. roll \in RollType
    BY DEF TypeOK
  <2>2. roll' = [roll EXCEPT !.step = "none"] \/ roll' = roll
    BY DEF StepExit
  <2> QED BY <2>1, <2>2 DEF RollType
<1>2. job' \in [Lifecycle -> {"idle", "run", "ok", "err"}]
  BY DEF StepExit, TypeOK
<1>3. /\ state' \in {"stopped", "starting", "running", "crashed"}
      /\ processes' \in [Names -> Pids \cup {None}]
      /\ retiring' \subseteq Pids
      /\ tab' \in [Pids -> ProcessType]
  BY KillType, TypeParts DEF StepExit, FailStart, TypeOK
<1>4. created' \in BOOLEAN
  BY DEF StepExit, TypeOK
<1>5. todo' \subseteq Names
  BY SetTypes DEF StepExit, TypeOK
<1>6. pc' \in {"idle", "plan", "abort", "start", "spawn"}
  BY DEF StepExit
<1> QED BY <1>1, <1>2, <1>3, <1>4, <1>5, <1>6 DEF StepExit, TypeOK

LEMMA TypeReady ==
    ASSUME TypeOK, Named, NEW p \in Pids, Ready(p)
    PROVE  TypeOK'
<1> DEFINE i == tab[p].inst
<1>1. i \in Names
  BY InUse DEF Ready
<1>2. /\ \A q \in Pids : tab[q] \in ProcessType /\ Retiring(tab[q]) \in ProcessType
      /\ [tab[p] EXCEPT !.mon = "live"] \in ProcessType
      /\ [tab[p] EXCEPT !.mon = "off"] \in ProcessType
  BY TypeParts, HelperTypes, FieldTypes
<1>3. /\ Collect([tab[p] EXCEPT !.mon = "live"]) \in ProcessType
      /\ Collect([tab[p] EXCEPT !.mon = "off"]) \in ProcessType
  BY <1>2, HelperTypes
<1> HIDE DEF i
<1>4. CASE roll.current = p
  <2>1. /\ roll' = [roll EXCEPT !.current = None]
        /\ pc' = "advance" /\ state' = state
        /\ processes' = [processes EXCEPT ![i] = p]
        /\ ready' = ready \cup {i}
        /\ failures' = [failures EXCEPT ![i] = 0]
        /\ retiring' = retiring \cup ({processes[i]} \ {None})
    BY <1>4 DEF Ready, i
  <2>2. tab' = [q \in Pids |->
                  IF q = p THEN Collect([tab[p] EXCEPT !.mon = "live"])
                  ELSE IF q = processes[i] THEN Retiring(tab[q]) ELSE tab[q]]
    BY <1>4 DEF Ready, i
  <2>3. tab' \in [Pids -> ProcessType]
    BY <1>2, <1>3, <2>2
  <2>4. roll' \in RollType
    <3>1. roll \in RollType
      BY DEF TypeOK
    <3> QED BY <2>1, <3>1 DEF RollType
  <2>5. processes[i] \in Pids \cup {None} /\ [failures EXCEPT ![i] = 0] \in FailureType
    BY <1>1, TypeParts DEF TypeOK
  <2> QED BY <1>1, <2>1, <2>3, <2>4, <2>5 DEF Ready, TypeOK
<1>5. CASE roll.current # p
  <2>1. tab' \in [Pids -> ProcessType]
    <3>1. \/ tab' = [tab EXCEPT ![p] = [tab[p] EXCEPT !.mon = "live"]]
          \/ tab' = [tab EXCEPT ![p] = Collect([tab[p] EXCEPT !.mon = "live"])]
          \/ tab' = [tab EXCEPT ![p] = Collect([tab[p] EXCEPT !.mon = "off"])]
      BY <1>5, Zenon DEF Ready
    <3> DEFINE r1 == [tab[p] EXCEPT !.mon = "live"]
               r2 == Collect([tab[p] EXCEPT !.mon = "live"])
               r3 == Collect([tab[p] EXCEPT !.mon = "off"])
    <3>2. r1 \in ProcessType /\ r2 \in ProcessType /\ r3 \in ProcessType
      BY <1>2, <1>3
    <3>3. tab' = [tab EXCEPT ![p] = r1] \/ tab' = [tab EXCEPT ![p] = r2]
            \/ tab' = [tab EXCEPT ![p] = r3]
      BY <3>1
    <3> HIDE DEF r1, r2, r3
    <3> QED BY <3>2, <3>3 DEF TypeOK
  <2>2. /\ ready' \subseteq Names
        /\ state' \in {"stopped", "starting", "running", "crashed"}
    BY <1>1, <1>5 DEF Ready, TypeOK, i
  <2>3. UNCHANGED <<processes, retiring, failures, roll, pc, spec, created, held,
                    job, waiting, todo>>
    BY <1>5 DEF Ready
  <2> QED BY <2>1, <2>2, <2>3 DEF TypeOK
<1> QED BY <1>4, <1>5

(* One process object gets a well-typed record.                            *)
LEMMA TabUpdate ==
    ASSUME TypeOK, NEW p \in Pids, NEW r \in ProcessType
    PROVE  [tab EXCEPT ![p] = r] \in [Pids -> ProcessType]
BY DEF TypeOK

LEMMA TypeHealthFailed ==
    ASSUME TypeOK, NEW p \in Pids, HealthFailed(p)
    PROVE  TypeOK'
<1> DEFINE r == [tab[p] EXCEPT !.mon = "off"]
           k == Killed(r)
           c == Collect(r)
<1>1. r \in ProcessType
  BY TypeParts, FieldTypes
<1>2. k \in ProcessType /\ c \in ProcessType
  BY <1>1, HelperTypes
<1>3. tab' = [tab EXCEPT ![p] = k] \/ tab' = [tab EXCEPT ![p] = c]
  BY Zenon DEF HealthFailed
<1> HIDE DEF k, c
<1>4. tab' \in [Pids -> ProcessType]
  BY <1>2, <1>3, TabUpdate
<1> QED BY <1>4 DEF HealthFailed, TypeOK

LEMMA ExitedType ==
    ASSUME TypeOK, NEW p \in Pids, NEW long \in BOOLEAN, tab[p].inst \in Names,
           processExited(p, long)
    PROVE  /\ ready' \subseteq Names
           /\ failures' \in FailureType
           /\ tab' \in [Pids -> ProcessType]
           /\ processes' \in [Names -> Pids \cup {None}]
           /\ retiring' \subseteq Pids
           /\ state' \in {"stopped", "starting", "running", "crashed"}
<1> DEFINE i     == tab[p].inst
           base  == IF long THEN 0 ELSE failures[i]
           count == IF base < MaxRestarts[Proc(i)] THEN base + 1 ELSE base
           gone  == [processes EXCEPT ![i] = None]
           again == ~(state = "stopped" \/ i \in held) /\ shouldRestart(p)
           over  == again /\ count >= MaxRestarts[Proc(i)]
           flag  == again /\ ~over
           r     == [tab[p] EXCEPT !.exitEv = FALSE, !.timer = flag]
           away  == Released(r)
           dead  == KillAndRelease((Live \cup retiring) \ {p})
<1>1. ready' \subseteq Names
  BY DEF processExited, TypeOK
<1>2. failures' \in FailureType
  <2>1. failures[i] \in 0..MaxRestarts[Proc(i)] /\ MaxRestarts[Proc(i)] \in Nat
    BY RestartAssumption DEF TypeOK, FailureType, Names, Proc
  <2>2. count \in 0..MaxRestarts[Proc(i)] /\ 0 \in 0..MaxRestarts[Proc(i)]
    BY <2>1
  <2>3. \/ failures' = failures
        \/ failures' = [failures EXCEPT ![i] = count]
        \/ failures' = [failures EXCEPT ![i] = 0]
        \/ failures' = [failures EXCEPT ![i] = @]
    BY Zenon DEF processExited
  <2>4. failures \in FailureType /\ [failures EXCEPT ![i] = @] = failures
    BY DEF TypeOK, FailureType
  <2> HIDE DEF count, i
  <2>5. i \in Names
    BY DEF i
  <2> QED BY <2>2, <2>3, <2>4, <2>5, FailureUpdate
<1>3. away \in ProcessType
  <2>1. flag \in BOOLEAN
    OBVIOUS
  <2>2. tab[p] \in ProcessType
    BY TypeParts
  <2> HIDE DEF flag
  <2>3. r \in ProcessType
    BY <2>1, <2>2 DEF ProcessType
  <2> QED BY <2>3, HelperTypes
<1>4. \/ tab' = [dead EXCEPT ![p] = away]
      \/ tab' = [tab EXCEPT ![p] = away]
  BY Zenon DEF processExited
<1>5. tab' \in [Pids -> ProcessType]
  <2>1. dead \in [Pids -> ProcessType]
    BY KillType
  <2> HIDE DEF dead, away
  <2> QED BY <1>3, <1>4, <2>1, TabUpdate
<1>6. processes' \in [Names -> Pids \cup {None}] /\ retiring' \subseteq Pids
  <2>1. /\ processes' = [n \in Names |-> None] \/ processes' = gone
        /\ retiring' = {} \/ retiring' = retiring
    BY Zenon DEF processExited
  <2> QED BY <2>1, TypeParts DEF TypeOK
<1>7. state' \in {"stopped", "starting", "running", "crashed"}
  <2>1. state' \in {state, "stopped", "starting", "crashed"}
    BY Zenon DEF processExited
  <2> QED BY <2>1 DEF TypeOK
<1> QED BY <1>1, <1>2, <1>5, <1>6, <1>7

LEMMA TypeExit ==
    ASSUME TypeOK, Named, NEW p \in Pids, Exit(p)
    PROVE  TypeOK'
<1> DEFINE r == [tab[p] EXCEPT !.exitEv = FALSE]
           a == Released(r)
           c == Collect(r)
<1>1. a \in ProcessType /\ c \in ProcessType
  <2>1. r \in ProcessType
    BY TypeParts, FieldTypes
  <2> QED BY <2>1, HelperTypes
<1>2. CASE roll.current = p /\ RollExit(p)
  <2>1. tab' = [tab EXCEPT ![p] = a]
    BY <1>2, Zenon DEF RollExit
  <2>2. roll' = [roll EXCEPT !.current = None] /\ roll \in RollType
    BY <1>2 DEF RollExit, TypeOK
  <2>3. roll' \in RollType
    BY <2>2 DEF RollType
  <2> HIDE DEF a
  <2>4. tab' \in [Pids -> ProcessType]
    BY <1>1, <2>1, TabUpdate
  <2> QED BY <1>2, <2>3, <2>4 DEF Exit, RollExit, TypeOK
<1>3. ASSUME NEW long \in BOOLEAN, processExited(p, long), UNCHANGED <<roll, pc>>
      PROVE  TypeOK'
  <2>1. tab[p].inst \in Names
    BY InUse DEF Exit
  <2> QED BY <1>3, <2>1, ExitedType DEF Exit, TypeOK
<1>4. CASE /\ tab' = [tab EXCEPT ![p] = c]
           /\ UNCHANGED <<state, processes, ready, retiring, failures, roll, pc>>
  <2> HIDE DEF c
  <2>1. tab' \in [Pids -> ProcessType]
    BY <1>1, <1>4, TabUpdate
  <2> QED BY <1>4, <2>1 DEF Exit, TypeOK
<1> QED BY <1>2, <1>3, <1>4, Zenon DEF Exit

LEMMA TypeRestartDue ==
    ASSUME TypeOK, Named, NEW p \in Pids, RestartDue(p)
    PROVE  TypeOK'
<1> DEFINE i == tab[p].inst
           c == Collect([tab[p] EXCEPT !.timer = FALSE])
           after == [tab EXCEPT ![p] = c]
<1>1. i \in Names
  BY InUse DEF RestartDue
<1>2. after \in [Pids -> ProcessType]
  <2>1. c \in ProcessType
    <3>1. [tab[p] EXCEPT !.timer = FALSE] \in ProcessType
      BY TypeParts, FieldTypes
    <3> QED BY <3>1, HelperTypes
  <2> HIDE DEF c
  <2> QED BY <2>1, TabUpdate
<1>3. CASE tab' = after /\ UNCHANGED <<state, processes, retiring>>
  BY <1>2, <1>3 DEF RestartDue, TypeOK
<1>4. ASSUME NEW q \in Pids, NEW k \in Slots,
             tab' = [after EXCEPT ![q] = Spawned(i, k, IsWeb(i))],
             processes' = [processes EXCEPT ![i] = q],
             UNCHANGED <<state, retiring>>
      PROVE  TypeOK'
  <2> HIDE DEF after, i
  <2>1. Spawned(i, k, IsWeb(i)) \in ProcessType
    BY <1>1, SpawnedType, WebBoolean
  <2>2. tab' \in [Pids -> ProcessType]
    BY <1>2, <1>4, <2>1
  <2> QED BY <1>4, <2>2 DEF RestartDue, TypeOK
<1>5. CASE /\ tab' = [q \in Pids |-> IF q \in Live \cup retiring
                                     THEN Released(Killed(after[q])) ELSE after[q]]
           /\ processes' = [n \in Names |-> None]
           /\ retiring' = {}
           /\ state' = "crashed"
  <2> HIDE DEF after
  <2>1. tab' \in [Pids -> ProcessType]
    BY <1>2, <1>5, CrashType
  <2> QED BY <1>5, <2>1, TypeParts DEF RestartDue, TypeOK
<1> QED BY <1>3, <1>4, <1>5, Zenon DEF RestartDue

LEMMA TypeRetired ==
    ASSUME TypeOK, Named, NEW p \in Pids, Retired(p)
    PROVE  TypeOK'
<1> DEFINE i == tab[p].inst
           c == Released([tab[p] EXCEPT !.drain = FALSE])
           after == [tab EXCEPT ![p] = c]
<1>1. i \in Names
  BY InUse DEF Retired
<1>2. after \in [Pids -> ProcessType]
  <2>1. c \in ProcessType
    <3>1. [tab[p] EXCEPT !.drain = FALSE] \in ProcessType
      BY TypeParts, FieldTypes
    <3> QED BY <3>1, HelperTypes
  <2> HIDE DEF c
  <2> QED BY <2>1, TabUpdate
<1>3. roll' \in RollType
  <2>1. roll' = [roll EXCEPT !.waiting = None] \/ roll' = roll
    BY Zenon DEF Retired
  <2>2. roll \in RollType
    BY DEF TypeOK
  <2> QED BY <2>1, <2>2 DEF RollType
<1>4. retiring' \subseteq Pids /\ pc' \in {"advance", "idle", "finish"}
  BY DEF Retired, TypeOK
<1>5. CASE tab' = after /\ UNCHANGED <<state, processes>>
  BY <1>2, <1>3, <1>4, <1>5 DEF Retired, TypeOK
<1>6. ASSUME NEW q \in Pids, NEW k \in Slots,
             tab' = [after EXCEPT ![q] = Spawned(i, k, FALSE)],
             processes' = [processes EXCEPT ![i] = q],
             UNCHANGED state
      PROVE  TypeOK'
  <2> HIDE DEF after, i
  <2>1. Spawned(i, k, FALSE) \in ProcessType
    BY <1>1, SpawnedType
  <2>2. tab' \in [Pids -> ProcessType]
    BY <1>2, <1>6, <2>1
  <2> QED BY <1>3, <1>4, <1>6, <2>2 DEF Retired, TypeOK
<1>7. CASE /\ tab' = [q \in Pids |-> IF q \in (Live \cup retiring) \ {p}
                                     THEN Released(Killed(after[q])) ELSE after[q]]
           /\ processes' = [n \in Names |-> None]
           /\ state' = "crashed"
  <2> HIDE DEF after
  <2>1. tab' \in [Pids -> ProcessType]
    BY <1>2, <1>7, CrashType
  <2> QED BY <1>3, <1>4, <1>7, <2>1, TypeParts DEF Retired, TypeOK
<1> QED BY <1>5, <1>6, <1>7, Zenon DEF Retired

LEMMA TypeWorld ==
    ASSUME TypeOK, World
    PROVE  TypeOK'
<1>1. ASSUME NEW p \in Pids, Die(p) \/ RetireKill(p) \/ Probe(p) \/ Unhealthy(p)
      PROVE  tab' \in [Pids -> ProcessType]
  <2>0. tab[p] \in ProcessType
    BY TypeParts
  <2>1. CASE Die(p)
    <3> PICK c \in {"ok", "err"} : tab' = [tab EXCEPT ![p].os = "dead", ![p].code = c]
      BY <2>1 DEF Die
    <3> QED BY <2>0 DEF ProcessType, TypeOK
  <2>2. CASE RetireKill(p)
    BY <2>0, <2>2, HelperTypes, TabUpdate DEF RetireKill
  <2>3. ASSUME NEW m \in {"ready", "fail"}, tab' = [tab EXCEPT ![p].mon = m]
        PROVE  tab' \in [Pids -> ProcessType]
    <3> DEFINE r == [tab[p] EXCEPT !.mon = m]
    <3>1. r \in ProcessType
      BY <2>0, FieldTypes
    <3>2. tab' = [tab EXCEPT ![p] = r]
      BY <2>3
    <3> HIDE DEF r
    <3> QED BY <3>1, <3>2, TabUpdate
  <2>4. CASE Probe(p) \/ Unhealthy(p)
    BY <2>3, <2>4 DEF Probe, Unhealthy
  <2> QED BY <1>1, <2>1, <2>2, <2>3, <2>4
<1>2. ASSUME NEW p \in Pids, Die(p) \/ RetireKill(p) \/ Probe(p) \/ Unhealthy(p)
      PROVE  TypeOK'
  BY <1>1, <1>2 DEF Die, RetireKill, Probe, Unhealthy, TypeOK
<1>3. ASSUME NEW s \in Lifecycle, JobExit(s)
      PROVE  TypeOK'
  BY <1>3 DEF JobExit, TypeOK
<1> QED BY <1>2, <1>3 DEF World

LEMMA TypeNext ==
    ASSUME TypeOK, Named, [Next]_vars
    PROVE  TypeOK'
<1>1. CASE UNCHANGED vars
  BY <1>1 DEF vars, TypeOK
<1>2. CASE Continue
  BY <1>2, TypeStart, TypeRoll, TypeAdvance DEF Continue
<1>3. CASE Event
  BY <1>3, TypeStepExit, TypeReady, TypeHealthFailed, TypeExit, TypeRestartDue,
     TypeRetired DEF Event
<1> QED BY <1>1, <1>2, <1>3, TypeRequest, TypeWorld DEF Next

-----------------------------------------------------------------------------
(* The inductive invariant.                                                *)

(* A live process sits under its own name, its exit has not been handled   *)
(* and nothing retires it.                                                 *)
LiveOK ==
    \A i \in Names : processes[i] # None =>
        /\ tab[processes[i]].inst = i
        /\ tab[processes[i]].exitEv
        /\ ~tab[processes[i]].drain

(* So is the copy a roll boots, except that it is in no map.               *)
BootingOK ==
    roll.current # None =>
        /\ tab[roll.current].exitEv
        /\ ~tab[roll.current].drain
        /\ roll.current \notin retiring
        /\ \A i \in Names : processes[i] # roll.current

(* The retire goroutine of a retiring process has not reported yet.        *)
RetiringOK == \A p \in retiring : tab[p].drain

Table == Named /\ LiveOK /\ BootingOK /\ RetiringOK /\ SlotsDistinct

(* Only a roll has callers.                                                *)
IdleRoll == ~roll.on => roll.done = {} /\ roll.againDone = {}

-----------------------------------------------------------------------------
(* What the helpers keep of a process object.                              *)

(* s is r as far as the table can tell: the exit event of a process that   *)
(* retires may have been consumed.                                         *)
Same(r, s) ==
    /\ s.inst = r.inst /\ s.slot = r.slot /\ s.drain = r.drain
    /\ r.exitEv /\ ~r.drain => s.exitEv

Clean(r) == r # NoProcess => r.inst \in Names

(* Collect leaves alone what an exit event or a retire goroutine refers to. *)
LEMMA CollectSame ==
    ASSUME NEW r \in ProcessType
    PROVE  /\ r.exitEv \/ r.drain => Collect(r) = r
           /\ Collect(r) = r \/ Collect(r) = NoProcess
BY DEF Collect

LEMMA MonSame ==
    ASSUME NEW r \in ProcessType, NEW m
    PROVE  Same(r, [r EXCEPT !.mon = m])
BY DEF Same, ProcessType

LEMMA TimerSame ==
    ASSUME NEW r \in ProcessType, NEW b
    PROVE  Same(r, [r EXCEPT !.timer = b])
BY DEF Same, ProcessType

LEMMA KilledSame ==
    ASSUME NEW r \in ProcessType
    PROVE  Same(r, Killed(r))
BY DEF Same, Killed, ProcessType

LEMMA RetiringFields ==
    ASSUME NEW r \in ProcessType
    PROVE  /\ Retiring(r).inst = r.inst /\ Retiring(r).slot = r.slot
           /\ Retiring(r).drain /\ Retiring(r).exitEv = r.exitEv
BY DEF Retiring, ProcessType

LEMMA ExitFields ==
    ASSUME NEW r \in ProcessType
    PROVE  /\ [r EXCEPT !.exitEv = FALSE].inst = r.inst
           /\ [r EXCEPT !.exitEv = FALSE].drain = r.drain
           /\ [r EXCEPT !.exitEv = FALSE].slot = r.slot
           /\ [r EXCEPT !.drain = FALSE].inst = r.inst
BY DEF ProcessType

LEMMA ReleasedClean ==
    ASSUME NEW r \in ProcessType, r.inst \in Names
    PROVE  Clean(Released(r)) /\ Clean(Collect(r)) /\ Clean(r)
<1> DEFINE m == IF r.mon \in {"probe", "live"} THEN "off" ELSE r.mon
           x == [r EXCEPT !.mon = m, !.slot = 0, !.code = "ok", !.released = TRUE]
<1>1. x.inst = r.inst
  BY DEF ProcessType
<1>2. Collect(x) = x \/ Collect(x) = NoProcess
  BY DEF Collect
<1>3. Released(r) = Collect(x)
  BY DEF Released
<1> HIDE DEF x
<1>4. Clean(Released(r))
  BY <1>1, <1>2, <1>3 DEF Clean
<1> QED BY <1>4, CollectSame DEF Clean

-----------------------------------------------------------------------------
(* Three ways a step changes what is tracked.                              *)

(* What is tracked is in use, and a free process object is not tracked.    *)
LEMMA TrackedInUse ==
    ASSUME TypeOK, Table, NEW p \in tracked
    PROVE  /\ p \in Pids
           /\ tab[p] # NoProcess
           /\ tab[p].inst \in Names
           /\ tab[p].exitEv \/ tab[p].drain
<1>1. p \in Pids
  BY DEF tracked, Live, TypeOK, RollType
<1>2. tab[p].exitEv \/ tab[p].drain
  BY DEF tracked, Live, Table, LiveOK, BootingOK, RetiringOK
<1>3. tab[p] # NoProcess
  BY <1>2 DEF NoProcess
<1> QED BY <1>1, <1>2, <1>3 DEF Table, Named

(* Some processes are dropped, the ones kept are left alone.               *)
LEMMA TableShrinks ==
    ASSUME TypeOK, TypeOK', Table,
           \A p \in Pids : Clean(tab'[p]),
           \A i \in Names : processes'[i] \in {processes[i], None},
           retiring' \subseteq retiring,
           roll'.current \in {roll.current, None},
           \A p \in tracked' : Same(tab[p], tab'[p])
    PROVE  Table'
<1>1. Named'
  BY DEF Named, Clean
<1>2. \A i \in Names : processes'[i] # None => processes'[i] \in tracked'
  BY DEF tracked, Live
<1>3. LiveOK'
  BY <1>2 DEF LiveOK, Table, Same
<1>4. BootingOK'
  <2>1. roll'.current # None => roll'.current \in tracked'
    BY DEF tracked
  <2> QED BY <2>1 DEF BootingOK, Table, Same
<1>5. RetiringOK'
  BY DEF RetiringOK, Table, Same, tracked
<1>6. tracked' \subseteq tracked
  BY DEF tracked, Live
<1>7. SlotsDistinct'
  BY <1>6 DEF SlotsDistinct, Table, Same, tracked
<1> QED BY <1>1, <1>3, <1>4, <1>5, <1>7 DEF Table

LEMMA SpawnedFields ==
    ASSUME NEW i \in Names, NEW k \in Slots, NEW w \in BOOLEAN
    PROVE  /\ Spawned(i, k, w).inst = i /\ Spawned(i, k, w).slot = k
           /\ Spawned(i, k, w).exitEv /\ ~Spawned(i, k, w).drain
           /\ Clean(Spawned(i, k, w))
BY DEF Spawned, NoProcess, Clean

(* A process put into a slot that is free among T, where T holds all else  *)
(* that is tracked afterwards.                                             *)
LEMMA SlotTaken ==
    ASSUME TypeOK, Table, NEW p \in Pids, NEW i \in Names, NEW k \in Slots, NEW T,
           T \subseteq tracked, FreeSlot(Proc(i), k, T),
           tracked' \subseteq T \cup {p},
           tab'[p].inst = i, tab'[p].slot = k,
           \A q \in tracked' \ {p} : Same(tab[q], tab'[q])
    PROVE  SlotsDistinct'
<1> SUFFICES ASSUME NEW q \in tracked', NEW r \in tracked', q # r,
                    Proc(tab'[q].inst) = Proc(tab'[r].inst),
                    tab'[q].slot = tab'[r].slot
             PROVE  FALSE
  BY DEF SlotsDistinct, tracked
<1>1. \A x \in T : Proc(tab[x].inst) = Proc(i) => tab[x].slot # k
  BY DEF FreeSlot, Unused
<1>2. CASE q = p
  BY <1>1, <1>2 DEF Same
<1>3. CASE r = p
  BY <1>1, <1>3 DEF Same
<1>4. CASE q # p /\ r # p
  BY <1>4 DEF Same, Table, SlotsDistinct, tracked
<1> QED BY <1>2, <1>3, <1>4

(* A process is spawned and goes live.                                     *)
LEMMA TableSpawns ==
    ASSUME TypeOK, TypeOK', Table, NEW p \in Pids, NEW i \in Names, NEW k \in Slots,
           NEW T, NEW w \in BOOLEAN,
           T \subseteq tracked, FreeSlot(Proc(i), k, T), tab[p] = NoProcess,
           tab'[p] = Spawned(i, k, w),
           \A q \in Pids \ {p} : Clean(tab'[q]),
           processes' = [processes EXCEPT ![i] = p],
           retiring' \subseteq retiring,
           roll'.current = roll.current, roll.current \in T \cup {None},
           \A j \in Names : processes[j] # None => processes[j] \in T,
           retiring' \subseteq T,
           \A q \in T : Same(tab[q], tab'[q])
    PROVE  Table'
<1>0. p \notin tracked
  BY TrackedInUse
<1>1. Named'
  BY SpawnedFields DEF Named, Clean
<1>2. processes'[i] = p /\ \A j \in Names : j # i => processes'[j] = processes[j]
  BY DEF TypeOK
<1>3. LiveOK'
  <2> SUFFICES ASSUME NEW j \in Names, processes'[j] # None
               PROVE  /\ tab'[processes'[j]].inst = j
                      /\ tab'[processes'[j]].exitEv
                      /\ ~tab'[processes'[j]].drain
    BY DEF LiveOK
  <2>1. CASE j = i
    BY <1>2, <2>1, SpawnedFields
  <2>2. CASE j # i
    BY <1>2, <2>2 DEF Same, Table, LiveOK
  <2> QED BY <2>1, <2>2
<1>4. roll'.current # None => roll.current \in tracked /\ roll.current # p
  BY <1>0 DEF tracked
<1>5. BootingOK'
  BY <1>2, <1>4 DEF BootingOK, Table, Same
<1>6. RetiringOK'
  BY DEF RetiringOK, Table, Same
<1>7. SlotsDistinct'
  <2>1. tracked' \subseteq T \cup {p}
    BY <1>2 DEF tracked, Live
  <2>2. tab'[p].inst = i /\ tab'[p].slot = k
    BY SpawnedFields
  <2>3. \A q \in tracked' \ {p} : Same(tab[q], tab'[q])
    BY <2>1
  <2> QED BY <2>1, <2>2, <2>3, SlotTaken
<1> QED BY <1>1, <1>3, <1>5, <1>6, <1>7 DEF Table

LEMMA KillClean ==
    ASSUME NEW f \in [Pids -> ProcessType], NEW S,
           \A q \in Pids : Clean(f[q]),
           \A q \in Pids : q \in S => f[q].inst \in Names
    PROVE  \A q \in Pids :
             Clean(IF q \in S THEN Released(Killed(f[q])) ELSE f[q])
<1> SUFFICES ASSUME NEW q \in Pids, q \in S PROVE Clean(Released(Killed(f[q])))
  OBVIOUS
<1>1. Killed(f[q]) \in ProcessType /\ Killed(f[q]).inst \in Names
  BY HelperTypes, KilledSame DEF Same
<1> QED BY <1>1, ReleasedClean

LEMMA KillTracked ==
    ASSUME TypeOK, Table, NEW S, S \subseteq tracked
    PROVE  /\ \A q \in Pids : Clean(KillAndRelease(S)[q])
           /\ \A q \in Pids \ S : Same(tab[q], KillAndRelease(S)[q])
<1>1. \A q \in Pids : Clean(tab[q])
  BY DEF Table, Named, Clean
<1>2. \A q \in Pids : q \in S => tab[q].inst \in Names
  BY TrackedInUse
<1>3. tab \in [Pids -> ProcessType]
  BY DEF TypeOK
<1>4. \A q \in Pids : Clean(IF q \in S THEN Released(Killed(tab[q])) ELSE tab[q])
  BY <1>1, <1>2, <1>3, KillClean
<1> QED BY <1>4 DEF KillAndRelease, Same

LEMMA TableKept ==
    ASSUME TypeOK, TypeOK', Table, UNCHANGED <<processes, tab>>,
           roll'.current = roll.current, retiring' \subseteq retiring
    PROVE  Table'
<1>1. \A p \in Pids : Clean(tab'[p])
  BY DEF Table, Named, Clean
<1>2. \A p \in tracked' : Same(tab[p], tab'[p])
  BY DEF Same
<1> QED BY <1>1, <1>2, TableShrinks

(* failStart: nothing but the copy a roll boots is left.                   *)
LEMMA TableFails ==
    ASSUME TypeOK, TypeOK', Table, FailStart, roll'.current = roll.current
    PROVE  Table'
<1>1. Live \cup retiring \subseteq tracked
  BY DEF tracked
<1>2. tracked' \subseteq Pids \ (Live \cup retiring)
  <2>1. tracked' \subseteq {roll.current} \ {None}
    BY DEF FailStart, tracked, Live
  <2> QED BY <2>1 DEF Table, BootingOK, Live, TypeOK, RollType
<1>3. \A i \in Names : processes'[i] = None
  BY DEF FailStart
<1>4. \A p \in Pids : Clean(tab'[p])
  BY <1>1, KillTracked DEF FailStart
<1>5. \A p \in tracked' : Same(tab[p], tab'[p])
  BY <1>1, <1>2, KillTracked DEF FailStart
<1>6. retiring' \subseteq retiring
  BY DEF FailStart
<1> QED BY <1>3, <1>4, <1>5, <1>6, TableShrinks

LEMMA TableStop ==
    ASSUME TypeOK, TypeOK', Table, Stop
    PROVE  Table'
<1>1. CASE state = "stopped"
  BY <1>1, TableKept DEF Stop
<1>2. CASE state # "stopped"
  <2>1. tracked' = {} /\ roll'.current = None
    BY <1>2 DEF Stop, tracked, Live, NoRoll
  <2>2. \A p \in Pids : Clean(tab'[p])
    BY <1>2, KillTracked DEF Stop
  <2>3. \A i \in Names : processes'[i] = None
    BY <1>2 DEF Stop
  <2> QED BY <1>2, <2>1, <2>2, <2>3, TableShrinks DEF Stop
<1> QED BY <1>1, <1>2

LEMMA TableStopProcess ==
    ASSUME TypeOK, TypeOK', Table, NEW S, NEW hold, S \subseteq Names,
           StopProcess(S, hold), UNCHANGED <<retiring, roll>>
    PROVE  Table'
<1> DEFINE D == {processes[i] : i \in S} \ {None}
<1>1. D \subseteq tracked
  BY DEF tracked, Live
<1>2. \A i \in Names : processes'[i] = IF i \in S THEN None ELSE processes[i]
  BY DEF StopProcess
<1>3. tracked' \subseteq Pids \ D
  <2>1. \A i \in Names : processes'[i] # None => processes'[i] \notin D
    BY <1>2 DEF Table, LiveOK
  <2>2. \A p \in retiring : p \notin D
    BY DEF Table, LiveOK, RetiringOK
  <2>3. roll.current \notin D
    BY DEF Table, BootingOK
  <2>4. tracked' \subseteq Pids
    BY <1>2 DEF tracked, Live, TypeOK, RollType
  <2> HIDE DEF D
  <2> QED BY <2>1, <2>2, <2>3, <2>4 DEF tracked, Live
<1>4. tab' = KillAndRelease(D)
  BY DEF StopProcess
<1>5. \A p \in Pids : Clean(tab'[p])
  BY <1>1, <1>4, KillTracked
<1>6. \A p \in tracked' : Same(tab[p], tab'[p])
  BY <1>1, <1>3, <1>4, KillTracked
<1> QED BY <1>2, <1>5, <1>6, TableShrinks

-----------------------------------------------------------------------------
(* Every action keeps the table.                                           *)

LEMMA NewRollFields ==
    ASSUME NEW o, NEW d
    PROVE  /\ NewRoll(o, d).current = None /\ NewRoll(o, d).on
           /\ NewRoll(o, d).done = d /\ NewRoll(o, d).againDone = {}
           /\ NoRoll.current = None /\ ~NoRoll.on
           /\ NoRoll.done = {} /\ NoRoll.againDone = {}
BY DEF NewRoll, NoRoll

LEMMA TableRequest ==
    ASSUME TypeOK, TypeOK', Table, Request
    PROVE  Table'
<1>1. CASE ReqStart
  BY <1>1, TableKept DEF ReqStart
<1>2. CASE ReqStop \/ ReqRestart
  BY <1>2, TableStop DEF ReqStop, ReqRestart
<1>3. ASSUME NEW n \in Names,
             ReqProcessStart(n) \/ ReqProcessStop(n) \/ ReqProcessRestart(n)
      PROVE  Table'
  <2>1. resolve(n) \subseteq Names
    BY SetTypes
  <2>2. CASE ReqProcessStart(n)
    BY <2>2, TableKept DEF ReqProcessStart
  <2>3. CASE ReqProcessStop(n)
    BY <2>1, <2>3, TableStopProcess DEF ReqProcessStop
  <2>4. CASE ReqProcessRestart(n)
    BY <2>1, <2>4, TableStopProcess DEF ReqProcessRestart
  <2> QED BY <1>3, <2>2, <2>3, <2>4
<1>4. ASSUME NEW c \in Callers, NEW o \in Targets, beginRoll(c, o) PROVE Table'
  <2>1. CASE roll.on
    <3> DEFINE v == IF ~roll.again \/ roll.againOnly = o THEN o ELSE All
               d == roll.againDone \cup {c}
    <3>1. roll' = [roll EXCEPT !.againOnly = v, !.again = TRUE, !.againDone = d]
      BY <1>4, <2>1 DEF beginRoll
    <3> HIDE DEF v, d
    <3>2. roll \in RollType
      BY DEF TypeOK
    <3>3. roll'.current = roll.current
      BY <3>1, <3>2 DEF RollType
    <3> QED BY <1>4, <3>3, TableKept DEF beginRoll
  <2>2. CASE ~roll.on
    <3>1. roll'.current = None
      BY <1>4, <2>2 DEF beginRoll, NewRoll, NoRoll
    <3>2. \A p \in Pids : Clean(tab'[p])
      BY <1>4 DEF beginRoll, Table, Named, Clean
    <3>3. \A p \in tracked' : Same(tab[p], tab'[p])
      BY <1>4 DEF beginRoll, Same
    <3>4. UNCHANGED <<processes, retiring>>
      BY <1>4 DEF beginRoll
    <3> QED BY <3>1, <3>2, <3>3, <3>4, TableShrinks
  <2> QED BY <2>1, <2>2
<1>5. ASSUME NEW s \in Updates[spec], ReqUpdate(s) PROVE Table'
  <2>1. roll' = [roll EXCEPT !.step = "lost"] \/ roll' = roll
    BY <1>5 DEF ReqUpdate
  <2>2. roll \in RollType
    BY DEF TypeOK
  <2>3. roll'.current = roll.current
    BY <2>1, <2>2 DEF RollType
  <2> QED BY <1>5, <2>3, TableKept DEF ReqUpdate
<1> QED BY <1>1, <1>2, <1>3, <1>4, <1>5 DEF Request

LEMMA TableSpawnsHere ==
    ASSUME TypeOK, TypeOK', Table, NEW p \in Pids, NEW i \in Names, NEW k \in Slots,
           NEW w \in BOOLEAN, CanSpawn(i, p, k),
           tab' = [tab EXCEPT ![p] = Spawned(i, k, w)],
           processes' = [processes EXCEPT ![i] = p],
           retiring' = retiring, roll'.current = roll.current
    PROVE  Table'
<1>1. tab'[p] = Spawned(i, k, w) /\ \A q \in Pids \ {p} : tab'[q] = tab[q]
  BY DEF TypeOK
<1>2. \A q \in Pids \ {p} : Clean(tab'[q])
  BY <1>1 DEF Table, Named, Clean
<1>3. tab[p] = NoProcess /\ FreeSlot(Proc(i), k, tracked)
  BY DEF CanSpawn
<1>4. p \notin tracked
  BY <1>3, TrackedInUse
<1>5. \A q \in tracked : Same(tab[q], tab'[q])
  BY <1>1, <1>4, TrackedInUse DEF Same
<1>6. /\ roll.current \in tracked \cup {None}
      /\ \A j \in Names : processes[j] # None => processes[j] \in tracked
      /\ retiring' \subseteq tracked
  BY DEF tracked, Live
<1> QED BY <1>1, <1>2, <1>3, <1>5, <1>6, TableSpawns

LEMMA TableStart ==
    ASSUME TypeOK, TypeOK', Table,
           start \/ continueStart \/ spawnAll \/ spawnedAll \/ startProcess
    PROVE  Table'
<1>1. CASE start
  BY <1>1, TableKept DEF start
<1>2. CASE continueStart
  BY <1>2, TableKept, TableFails DEF continueStart
<1>3. CASE spawnAll
  <2>1. todo \subseteq Names
    BY DEF TypeOK
  <2> QED BY <1>3, <2>1, TableFails, TableSpawnsHere DEF spawnAll
<1>4. CASE spawnedAll
  <2>1. \A p \in Pids : tab[p] \in ProcessType
    BY TypeParts
  <2>2. ASSUME NEW p \in Pids
        PROVE  Same(tab[p], tab'[p]) /\ (tab'[p] = tab[p] \/ p \in Live)
    <3> DEFINE r == [tab[p] EXCEPT !.mon = "probe"]
    <3>1. Same(tab[p], r)
      BY <2>1, MonSame
    <3>2. tab'[p] = IF p \in Live /\ IsWeb(tab[p].inst) THEN r ELSE tab[p]
      BY <1>4 DEF spawnedAll
    <3> HIDE DEF r
    <3> QED BY <3>1, <3>2 DEF Same
  <2>3. \A p \in Pids : Same(tab[p], tab'[p])
    BY <2>2
  <2>4. Live \subseteq tracked
    BY DEF tracked
  <2>5. \A p \in Pids : Clean(tab'[p])
    BY <2>2, <2>3, <2>4, TrackedInUse DEF Clean, Same, Table, Named
  <2>6. tracked' = tracked /\ tracked \subseteq Pids
    BY <1>4, TrackedInUse DEF spawnedAll, tracked, Live
  <2> QED BY <1>4, <2>3, <2>5, <2>6, TableShrinks DEF spawnedAll
<1>5. CASE startProcess
  <2> PICK i \in todo : startProcess!2!(i)
    BY <1>5 DEF startProcess
  <2>1. i \in Names /\ IsWeb(i) \in BOOLEAN /\ UNCHANGED roll
    BY <1>5, WebBoolean DEF TypeOK, startProcess
  <2>2. CASE UNCHANGED <<state, processes, retiring, failures, tab>>
    BY <2>1, <2>2, TableKept
  <2>3. CASE FailStart
    BY <2>1, <2>3, TableFails
  <2>4. ASSUME NEW p \in Pids, NEW k \in Slots, CanSpawn(i, p, k),
               tab' = [tab EXCEPT ![p] = Spawned(i, k, IsWeb(i))],
               processes' = [processes EXCEPT ![i] = p],
               UNCHANGED <<state, retiring>>
        PROVE  Table'
    BY <2>1, <2>4, TableSpawnsHere
  <2> QED BY <2>2, <2>3, <2>4
<1> QED BY <1>1, <1>2, <1>3, <1>4, <1>5

(* A live process becomes a retiring one.                                  *)
LEMMA TableRetires ==
    ASSUME TypeOK, TypeOK', Table, NEW i \in Names, processes[i] # None, retire(i),
           roll'.current = roll.current
    PROVE  Table'
<1> DEFINE p == processes[i]
<1>1. p \in Pids /\ p \in tracked
  BY DEF tracked, Live, TypeOK
<1>2. /\ tab' = [tab EXCEPT ![p] = Retiring(tab[p])]
      /\ processes' = [processes EXCEPT ![i] = None]
      /\ retiring' = retiring \cup {p}
  BY Zenon DEF retire
<1> HIDE DEF p
<1>3. tab'[p] = Retiring(tab[p]) /\ \A q \in Pids \ {p} : tab'[q] = tab[q]
  BY <1>1, <1>2 DEF TypeOK
<1>4. /\ tab'[p].drain /\ tab'[p].inst = tab[p].inst
      /\ tab'[p].slot = tab[p].slot /\ tab'[p].exitEv = tab[p].exitEv
  BY <1>1, <1>3, TypeParts, RetiringFields
<1>5. \A j \in Names : processes'[j] = IF j = i THEN None ELSE processes[j]
  BY <1>2 DEF TypeOK
<1>6. \A j \in Names : j # i /\ processes[j] # None => processes[j] # p
  BY DEF Table, LiveOK, p
<1>7. Named'
  BY <1>1, <1>3, <1>4, TrackedInUse DEF Named, Table
<1>8. LiveOK'
  <2> SUFFICES ASSUME NEW j \in Names, processes'[j] # None
               PROVE  /\ tab'[processes'[j]].inst = j
                      /\ tab'[processes'[j]].exitEv
                      /\ ~tab'[processes'[j]].drain
    BY DEF LiveOK
  <2>1. processes'[j] = processes[j] /\ processes[j] \in Pids \ {p}
    BY <1>5, <1>6 DEF TypeOK
  <2> QED BY <1>3, <2>1 DEF LiveOK, Table
<1>9. BootingOK'
  <2>1. roll.current # None => roll.current \in Pids \ {p}
    BY DEF Table, BootingOK, p, TypeOK, RollType
  <2> QED BY <1>2, <1>3, <1>5, <2>1 DEF BootingOK, Table
<1>10. RetiringOK'
  BY <1>2, <1>3, <1>4 DEF RetiringOK, Table, TypeOK
<1>11. SlotsDistinct'
  <2>1. tracked' \subseteq tracked
    BY <1>1, <1>2, <1>5 DEF tracked, Live
  <2>2. \A q \in tracked' : tab'[q].inst = tab[q].inst /\ tab'[q].slot = tab[q].slot
    BY <1>3, <1>4, <2>1, TrackedInUse
  <2> QED BY <2>1, <2>2 DEF SlotsDistinct, Table, tracked
<1> QED BY <1>7, <1>8, <1>9, <1>10, <1>11 DEF Table

(* The copy a roll boots is spawned next to the live ones.                 *)
LEMMA TableBoots ==
    ASSUME TypeOK, TypeOK', Table, NEW p \in Pids, NEW i \in Names, NEW k \in Slots,
           NEW w \in BOOLEAN, CanSpawn(i, p, k),
           tab' = [tab EXCEPT ![p] = Spawned(i, k, w)],
           UNCHANGED <<processes, retiring>>, roll'.current = p
    PROVE  Table'
<1>1. tab'[p] = Spawned(i, k, w) /\ \A q \in Pids \ {p} : tab'[q] = tab[q]
  BY DEF TypeOK
<1>2. tab[p] = NoProcess /\ FreeSlot(Proc(i), k, tracked)
  BY DEF CanSpawn
<1>3. p \notin tracked /\ tracked \subseteq Pids
  BY <1>2, TrackedInUse
<1>4. \A q \in tracked : tab'[q] = tab[q]
  BY <1>1, <1>3
<1>5. Named'
  BY <1>1, SpawnedFields DEF Named, Table, Clean
<1>6. LiveOK'
  BY <1>4 DEF LiveOK, Table, tracked, Live
<1>7. BootingOK'
  BY <1>1, <1>3, SpawnedFields, NamesAssumption DEF BootingOK, tracked, Live
<1>8. RetiringOK'
  BY <1>4 DEF RetiringOK, Table, tracked
<1>9. SlotsDistinct'
  <2>1. tracked' \subseteq tracked \cup {p}
    BY DEF tracked, Live
  <2>2. tab'[p].inst = i /\ tab'[p].slot = k
    BY <1>1, SpawnedFields
  <2>3. \A q \in tracked' \ {p} : Same(tab[q], tab'[q])
    BY <1>4, <2>1 DEF Same
  <2> QED BY <1>2, <2>1, <2>2, <2>3, SlotTaken
<1> QED BY <1>5, <1>6, <1>7, <1>8, <1>9 DEF Table

LEMMA TableAdvance ==
    ASSUME TypeOK, TypeOK', Table, advanceRoll
    PROVE  Table'
<1>0. roll \in RollType
  BY DEF TypeOK
<1>1. CASE UNCHANGED <<state, processes, ready, retiring, roll, tab>>
  BY <1>1, TableKept
<1>2. ASSUME NEW s \in NextSteps,
             stepRetire(s) \/ stepWorker(s) \/ stepReplace(s)
      PROVE  Table'
  <2> DEFINE S == roll.steps \ {s}
             i == s[1]
  <2>1. i \in Names
    BY <1>0 DEF NextSteps, RollType
  <2>2. \A x : /\ [roll EXCEPT !.steps = S].current = roll.current
               /\ [roll EXCEPT !.steps = S, !.waiting = x].current = roll.current
               /\ [roll EXCEPT !.steps = S, !.current = x].current = x
    <3> HIDE DEF S
    <3> QED BY <1>0 DEF RollType
  <2>3. CASE stepRetire(s)
    <3>1. roll'.current = roll.current
      BY <2>2, <2>3, Zenon DEF stepRetire
    <3> HIDE DEF S
    <3>2. CASE processes[i] # None
      BY <2>1, <2>3, <3>1, <3>2, TableRetires DEF stepRetire
    <3>3. CASE processes[i] = None
      BY <2>3, <3>1, <3>3, TableKept DEF stepRetire
    <3> QED BY <3>2, <3>3
  <2>4. CASE stepWorker(s)
    <3>1. roll'.current = roll.current
      BY <2>2, <2>4, Zenon DEF stepWorker
    <3> HIDE DEF S
    <3>2. ASSUME processes[i] # None, retire(i) PROVE Table'
      BY <2>1, <3>1, <3>2, TableRetires
    <3>3. ASSUME NEW p \in Pids, NEW k \in Slots, CanSpawn(i, p, k),
                 tab' = [tab EXCEPT ![p] = Spawned(i, k, FALSE)],
                 processes' = [processes EXCEPT ![i] = p],
                 UNCHANGED <<state, retiring, ready, pc>>
          PROVE  Table'
      BY <2>1, <3>1, <3>3, TableSpawnsHere
    <3>4. CASE FailStart
      BY <3>1, <3>4, TableFails
    <3> QED BY <2>4, <3>2, <3>3, <3>4, Zenon DEF stepWorker
  <2>5. CASE stepReplace(s)
    <3>1. ASSUME NEW p \in Pids, NEW k \in Slots, CanSpawn(i, p, k),
                 tab' = [tab EXCEPT ![p] = Spawned(i, k, IsWeb(i))],
                 roll' = [roll EXCEPT !.steps = S, !.current = p],
                 UNCHANGED <<state, processes, retiring, ready>>
          PROVE  Table'
      <4>1. roll'.current = p
        BY <2>2, <3>1, Zenon
      <4> HIDE DEF S
      <4> QED BY <2>1, <3>1, <4>1, WebBoolean, TableBoots
    <3>2. ASSUME roll' = [roll EXCEPT !.steps = S],
                 UNCHANGED <<tab, state, processes, retiring, ready>>
          PROVE  Table'
      <4>1. roll'.current = roll.current
        BY <2>2, <3>2, Zenon
      <4> HIDE DEF S
      <4> QED BY <3>2, <4>1, TableKept
    <3> QED BY <2>5, <3>1, <3>2, Zenon DEF stepReplace
  <2> QED BY <1>2, <2>3, <2>4, <2>5
<1> QED BY <1>1, <1>2 DEF advanceRoll

LEMMA TableRoll ==
    ASSUME TypeOK, TypeOK', Table, runRoll \/ planRoll \/ abortRoll \/ finishRoll
    PROVE  Table'
<1>0. roll \in RollType
  BY DEF TypeOK
<1>1. CASE runRoll
  <2>1. roll' = [roll EXCEPT !.step = "runs"] \/ roll' = roll
    BY <1>1 DEF runRoll
  <2>2. roll'.current = roll.current
    BY <1>0, <2>1 DEF RollType
  <2> QED BY <1>1, <2>2, TableKept DEF runRoll
<1>2. CASE planRoll
  <2> DEFINE S == (ReplaceSet \X {"replace"}) \cup (WorkerSet \X {"worker"})
                     \cup (RetireSet \X {"retire"})
  <2>1. roll' = [roll EXCEPT !.steps = S]
    BY <1>2 DEF planRoll
  <2> HIDE DEF S
  <2>2. roll'.current = roll.current
    BY <1>0, <2>1 DEF RollType
  <2> QED BY <1>2, <2>2, TableKept DEF planRoll
<1>3. CASE abortRoll
  <2>1. roll' = [roll EXCEPT !.current = None, !.again = FALSE]
    BY <1>3 DEF abortRoll
  <2>2. roll'.current = None
    BY <1>0, <2>1 DEF RollType
  <2>3. UNCHANGED <<processes, retiring>>
    BY <1>3 DEF abortRoll
  <2> DEFINE D == {roll.current} \ {None}
  <2>4. tab' = KillAndRelease(D)
    BY <1>3 DEF abortRoll
  <2>5. D \subseteq tracked
    BY DEF tracked
  <2>6. tracked' \subseteq Pids \ D
    BY <2>2, <2>3 DEF tracked, Live, Table, BootingOK, TypeOK
  <2> HIDE DEF D
  <2>7. \A p \in Pids : Clean(tab'[p])
    BY <2>4, <2>5, KillTracked
  <2>8. \A p \in tracked' : Same(tab[p], tab'[p])
    BY <2>4, <2>5, <2>6, KillTracked
  <2> QED BY <2>2, <2>3, <2>7, <2>8, TableShrinks
<1>4. CASE finishRoll
  <2>1. roll'.current = None
    BY <1>4, NewRollFields DEF finishRoll
  <2>2. UNCHANGED <<processes, retiring, tab>>
    BY <1>4 DEF finishRoll
  <2>3. \A p \in Pids : Clean(tab'[p])
    BY <2>2 DEF Table, Named, Clean
  <2>4. \A p \in tracked' : Same(tab[p], tab'[p])
    BY <2>2 DEF Same
  <2> QED BY <2>1, <2>2, <2>3, <2>4, TableShrinks
<1> QED BY <1>1, <1>2, <1>3, <1>4

(* One process object changes in a way the table does not notice.          *)
LEMMA TableTouches ==
    ASSUME TypeOK, TypeOK', Table, NEW p \in Pids, NEW r,
           tab' = [tab EXCEPT ![p] = r],
           UNCHANGED <<processes, retiring>>, roll'.current = roll.current,
           Clean(r), Same(tab[p], r) \/ p \notin tracked
    PROVE  Table'
<1>1. tab'[p] = r /\ \A q \in Pids \ {p} : tab'[q] = tab[q]
  BY DEF TypeOK
<1>2. \A q \in Pids : Clean(tab'[q])
  BY <1>1 DEF Table, Named, Clean
<1>3. tracked' = tracked
  BY DEF tracked, Live
<1>4. \A q \in tracked' : Same(tab[q], tab'[q])
  BY <1>1, <1>3, TrackedInUse DEF Same
<1> QED BY <1>2, <1>4, TableShrinks

(* What Collect may take away was not tracked.                             *)
LEMMA CollectTouches ==
    ASSUME TypeOK, Table, NEW p \in Pids, NEW r \in ProcessType,
           tab[p].inst \in Names, Same(tab[p], r)
    PROVE  /\ Clean(Collect(r))
           /\ Same(tab[p], Collect(r)) \/ p \notin tracked
           /\ Clean(r)
<1>1. r.inst \in Names
  BY DEF Same
<1>2. CASE p \in tracked
  <2>1. r.exitEv \/ r.drain
    BY <1>2, TrackedInUse DEF Same
  <2> QED BY <1>1, <2>1, CollectSame, ReleasedClean
<1> QED BY <1>1, <1>2, ReleasedClean

LEMMA TableWorld ==
    ASSUME TypeOK, TypeOK', Table, World
    PROVE  Table'
<1>1. ASSUME NEW p \in Pids, Die(p) \/ RetireKill(p) \/ Probe(p) \/ Unhealthy(p)
      PROVE  Table'
  <2>0. /\ tab[p] \in ProcessType
        /\ tab[p].inst \in Names
        /\ UNCHANGED <<processes, retiring, roll>>
    BY <1>1, TypeParts, InUse DEF Die, RetireKill, Probe, Unhealthy, Table
  <2>1. CASE Die(p)
    <3> PICK c \in {"ok", "err"} : tab' = [tab EXCEPT ![p].os = "dead", ![p].code = c]
      BY <2>1 DEF Die
    <3> DEFINE r == [tab[p] EXCEPT !.os = "dead", !.code = c]
    <3>1. Same(tab[p], r) /\ r \in ProcessType
      BY <2>0 DEF Same, ProcessType
    <3>2. tab' = [tab EXCEPT ![p] = r]
      BY <2>0, ZenonT(40) DEF ProcessType, TypeOK
    <3> HIDE DEF r
    <3>3. Clean(r)
      BY <2>0, <3>1 DEF Clean, Same
    <3> QED BY <2>0, <3>1, <3>2, <3>3, TableTouches
  <2>2. CASE RetireKill(p)
    <3>1. tab' = [tab EXCEPT ![p] = Killed(tab[p])]
      BY <2>2 DEF RetireKill
    <3>2. Same(tab[p], Killed(tab[p])) /\ Clean(Killed(tab[p]))
      BY <2>0, KilledSame DEF Same, Clean
    <3> QED BY <2>0, <3>1, <3>2, TableTouches
  <2>3. ASSUME NEW m, tab' = [tab EXCEPT ![p].mon = m]
        PROVE  Table'
    <3> DEFINE r == [tab[p] EXCEPT !.mon = m]
    <3>1. Same(tab[p], r)
      BY <2>0, MonSame
    <3>2. tab' = [tab EXCEPT ![p] = r]
      BY <2>3
    <3> HIDE DEF r
    <3>3. Clean(r)
      BY <2>0, <3>1 DEF Clean, Same
    <3> QED BY <2>0, <3>1, <3>2, <3>3, TableTouches
  <2>4. CASE Probe(p) \/ Unhealthy(p)
    BY <2>3, <2>4 DEF Probe, Unhealthy
  <2> QED BY <1>1, <2>1, <2>2, <2>4
<1>2. ASSUME NEW s \in Lifecycle, JobExit(s) PROVE Table'
  BY <1>2, TableKept DEF JobExit
<1> QED BY <1>1, <1>2 DEF World

LEMMA TableStepExit ==
    ASSUME TypeOK, TypeOK', Table, NEW s \in Lifecycle, StepExit(s)
    PROVE  Table'
<1>1. roll'.current = roll.current
  <2>1. roll \in RollType
    BY DEF TypeOK
  <2>2. roll' = [roll EXCEPT !.step = "none"] \/ roll' = roll
    BY DEF StepExit
  <2> QED BY <2>1, <2>2 DEF RollType
<1>2. UNCHANGED <<processes, retiring, tab>> \/ FailStart
  BY DEF StepExit
<1> QED BY <1>1, <1>2, TableKept, TableFails

LEMMA TableHealthFailed ==
    ASSUME TypeOK, TypeOK', Table, NEW p \in Pids, HealthFailed(p)
    PROVE  Table'
<1>0. tab[p] \in ProcessType /\ tab[p].inst \in Names
  BY TypeParts, InUse DEF HealthFailed, Table
<1> DEFINE r == [tab[p] EXCEPT !.mon = "off"]
<1>1. Same(tab[p], r) /\ r \in ProcessType
  BY <1>0, MonSame, FieldTypes
<1>2. tab' = [tab EXCEPT ![p] = Killed(r)] \/ tab' = [tab EXCEPT ![p] = Collect(r)]
  BY Zenon DEF HealthFailed
<1>3. UNCHANGED <<processes, retiring, roll>>
  BY DEF HealthFailed
<1> HIDE DEF r
<1>4. Same(tab[p], Killed(r)) /\ Clean(Killed(r))
  BY <1>0, <1>1, KilledSame DEF Same, Clean
<1>5. Clean(Collect(r)) /\ (Same(tab[p], Collect(r)) \/ p \notin tracked)
  BY <1>0, <1>1, CollectTouches
<1> QED BY <1>2, <1>3, <1>4, <1>5, TableTouches

LEMMA TableReady ==
    ASSUME TypeOK, TypeOK', Table, NEW p \in Pids, Ready(p)
    PROVE  Table'
<1> DEFINE i == tab[p].inst
           r == [tab[p] EXCEPT !.mon = "live"]
           s == [tab[p] EXCEPT !.mon = "off"]
<1>0. tab[p] \in ProcessType /\ i \in Names
  BY TypeParts, InUse DEF Ready, Table
<1>1. Same(tab[p], r) /\ r \in ProcessType /\ Same(tab[p], s) /\ s \in ProcessType
  BY <1>0, MonSame, FieldTypes
<1>2. CASE roll.current = p
  <2> DEFINE q == processes[i]
  <2>1. /\ tab' = [x \in Pids |-> IF x = p THEN Collect(r)
                                  ELSE IF x = q THEN Retiring(tab[x]) ELSE tab[x]]
        /\ retiring' = retiring \cup ({q} \ {None})
        /\ processes' = [processes EXCEPT ![i] = p]
        /\ roll' = [roll EXCEPT !.current = None]
    BY <1>2, Zenon DEF Ready
  <2> HIDE DEF r, s
  <2>2. /\ p # None /\ p \in tracked /\ tab[p].exitEv /\ ~tab[p].drain
        /\ p \notin retiring /\ \A j \in Names : processes[j] # p
    BY <1>2, NamesAssumption DEF Table, BootingOK, tracked
  <2>3. tab'[p] = r
    <3>1. r.exitEv
      BY <1>1, <2>2 DEF Same
    <3> QED BY <1>1, <2>1, <3>1, CollectSame
  <2>4. roll'.current = None
    <3>1. roll \in RollType
      BY DEF TypeOK
    <3> QED BY <2>1, <3>1 DEF RollType
  <2>5. q \in Pids \cup {None} /\ q # p
    BY <1>0, <2>2 DEF TypeOK
  <2>6. q # None => /\ tab'[q].inst = tab[q].inst /\ tab'[q].slot = tab[q].slot
                    /\ tab'[q].drain /\ tab[q].inst = i /\ q \in tracked
    BY <1>0, <2>1, <2>5, TypeParts, RetiringFields DEF Table, LiveOK, tracked, Live
  <2>7. \A x \in Pids : x # p /\ x # q => tab'[x] = tab[x]
    BY <2>1
  <2>8. \A j \in Names : processes'[j] = IF j = i THEN p ELSE processes[j]
    BY <1>0, <2>1 DEF TypeOK
  <2> HIDE DEF q, i
  <2>9. Named'
    <3>1. \A x \in Pids : x # p /\ x # q => Clean(tab'[x])
      BY <2>7 DEF Table, Named, Clean
    <3>2. tab'[p].inst \in Names
      BY <1>0, <1>1, <2>3 DEF Same, i
    <3>3. q \in Pids => tab'[q].inst \in Names
      BY <1>0, <2>5, <2>6, NamesAssumption
    <3> QED BY <3>1, <3>2, <3>3 DEF Named, Clean
  <2>10. LiveOK'
    <3> SUFFICES ASSUME NEW j \in Names, processes'[j] # None
                 PROVE  /\ tab'[processes'[j]].inst = j
                        /\ tab'[processes'[j]].exitEv
                        /\ ~tab'[processes'[j]].drain
      BY DEF LiveOK
    <3>1. CASE j = i
      BY <1>1, <2>2, <2>3, <2>8, <3>1 DEF Same, i
    <3>2. CASE j # i
      <4>1. processes'[j] = processes[j] /\ processes[j] \in Pids /\ processes[j] # p
        BY <2>2, <2>8, <3>2 DEF TypeOK
      <4>2. processes[j] # q
        BY <2>6, <3>2, <4>1, NamesAssumption DEF Table, LiveOK
      <4> QED BY <2>7, <4>1, <4>2 DEF Table, LiveOK
    <3> QED BY <3>1, <3>2
  <2>11. BootingOK'
    BY <2>4 DEF BootingOK
  <2>12. RetiringOK'
    <3> SUFFICES ASSUME NEW x \in retiring' PROVE tab'[x].drain
      BY DEF RetiringOK
    <3>1. CASE x = q
      BY <2>1, <2>2, <2>6, <3>1, NamesAssumption DEF TypeOK
    <3>2. CASE x # q
      BY <2>1, <2>2, <2>7, <3>2 DEF Table, RetiringOK, TypeOK
    <3> QED BY <3>1, <3>2
  <2>13. SlotsDistinct'
    <3>1. tracked' \subseteq tracked
      <4>1. \A x \in Live' : x \in tracked
        BY <2>2, <2>8 DEF Live, tracked
      <4>2. \A x \in retiring' : x \in tracked
        BY <2>1, <2>6 DEF tracked
      <4> QED BY <2>4, <4>1, <4>2 DEF tracked
    <3>2. \A x \in tracked' : tab'[x].inst = tab[x].inst /\ tab'[x].slot = tab[x].slot
      BY <1>1, <2>3, <2>6, <2>7, <3>1, TrackedInUse, NamesAssumption DEF Same
    <3> QED BY <3>1, <3>2 DEF SlotsDistinct, Table, tracked
  <2> QED BY <2>9, <2>10, <2>11, <2>12, <2>13 DEF Table
<1>3. CASE roll.current # p
  <2>1. \/ tab' = [tab EXCEPT ![p] = r]
        \/ tab' = [tab EXCEPT ![p] = Collect(r)]
        \/ tab' = [tab EXCEPT ![p] = Collect(s)]
    BY <1>3, Zenon DEF Ready
  <2>2. UNCHANGED <<processes, retiring, roll>>
    BY <1>3 DEF Ready
  <2> HIDE DEF r, s
  <2>3. /\ Clean(r) /\ Clean(Collect(r)) /\ Clean(Collect(s))
        /\ Same(tab[p], Collect(r)) \/ p \notin tracked
        /\ Same(tab[p], Collect(s)) \/ p \notin tracked
    BY <1>0, <1>1, CollectTouches
  <2> QED BY <1>1, <2>1, <2>2, <2>3, TableTouches
<1> QED BY <1>2, <1>3

(* A released record in place of a process that is tracked no longer.      *)
LEMMA TableDrops ==
    ASSUME TypeOK, TypeOK', Table, NEW p \in Pids, NEW S, NEW r,
           S \subseteq tracked, Clean(r),
           tab' = [KillAndRelease(S) EXCEPT ![p] = r],
           \A i \in Names : processes'[i] \in {processes[i], None},
           retiring' \subseteq retiring,
           roll'.current \in {roll.current, None},
           \A q \in tracked' : q # p /\ q \notin S
    PROVE  Table'
<1>1. /\ tab'[p] = r
      /\ \A q \in Pids \ {p} : tab'[q] = KillAndRelease(S)[q]
  BY DEF KillAndRelease
<1>2. \A q \in Pids : Clean(tab'[q])
  BY <1>1, KillTracked
<1>3. tracked' \subseteq Pids
  BY DEF tracked, Live, TypeOK, RollType
<1>4. \A q \in tracked' : Same(tab[q], tab'[q])
  BY <1>1, <1>3, KillTracked
<1> QED BY <1>2, <1>4, TableShrinks

LEMMA TableDropsOne ==
    ASSUME TypeOK, TypeOK', Table, NEW p \in Pids, NEW r, Clean(r),
           tab' = [tab EXCEPT ![p] = r],
           \A i \in Names : processes'[i] \in {processes[i], None},
           retiring' \subseteq retiring,
           roll'.current \in {roll.current, None},
           p \notin tracked'
    PROVE  Table'
<1>1. tab'[p] = r /\ \A q \in Pids \ {p} : tab'[q] = tab[q]
  BY DEF TypeOK
<1>2. \A q \in Pids : Clean(tab'[q])
  BY <1>1 DEF Table, Named, Clean
<1>3. tracked' \subseteq Pids
  BY DEF tracked, Live, TypeOK, RollType
<1>4. \A q \in tracked' : Same(tab[q], tab'[q])
  BY <1>1, <1>3 DEF Same
<1> QED BY <1>2, <1>4, TableShrinks

LEMMA TableExited ==
    ASSUME TypeOK, TypeOK', Table, NEW p \in Pids, NEW long \in BOOLEAN,
           p \in Live, roll.current # p, processExited(p, long), UNCHANGED roll
    PROVE  Table'
<1> DEFINE i     == tab[p].inst
           base  == IF long THEN 0 ELSE failures[i]
           count == IF base < MaxRestarts[Proc(i)] THEN base + 1 ELSE base
           gone  == [processes EXCEPT ![i] = None]
           again == ~(state = "stopped" \/ i \in held) /\ shouldRestart(p)
           over  == again /\ count >= MaxRestarts[Proc(i)]
           flag  == again /\ ~over
           r     == [tab[p] EXCEPT !.exitEv = FALSE, !.timer = flag]
           away  == Released(r)
           S     == (Live \cup retiring) \ {p}
<1>1. \/ /\ tab' = [KillAndRelease(S) EXCEPT ![p] = away]
         /\ processes' = [n \in Names |-> None]
         /\ retiring' = {}
      \/ /\ tab' = [tab EXCEPT ![p] = away]
         /\ processes' = gone
         /\ retiring' = retiring
  BY Zenon DEF processExited
<1>2. /\ i \in Names /\ processes[i] = p /\ p \notin retiring /\ p \in tracked
      /\ \A j \in Names : j # i => processes[j] # p
  BY NamesAssumption DEF Live, Table, LiveOK, RetiringOK, tracked
<1>3. Clean(away)
  <2>1. flag \in BOOLEAN /\ tab[p] \in ProcessType
    BY TypeParts
  <2> HIDE DEF flag
  <2>2. r \in ProcessType /\ r.inst = i
    BY <2>1 DEF ProcessType
  <2> HIDE DEF r
  <2> QED BY <1>2, <2>2, ReleasedClean
<1>4. S \subseteq tracked
  BY DEF tracked
<1> HIDE DEF away
<1>5. ASSUME tab' = [KillAndRelease(S) EXCEPT ![p] = away],
             processes' = [n \in Names |-> None],
             retiring' = {}
      PROVE  Table'
  <2>1. \A q \in tracked' : q # p /\ q \notin S
    BY <1>5 DEF tracked, Live, Table, BootingOK
  <2> HIDE DEF S
  <2> QED BY <1>3, <1>4, <1>5, <2>1, TableDrops
<1>6. ASSUME tab' = [tab EXCEPT ![p] = away], processes' = gone, retiring' = retiring
      PROVE  Table'
  <2>1. \A j \in Names : processes'[j] = IF j = i THEN None ELSE processes[j]
    BY <1>2, <1>6 DEF TypeOK
  <2>2. p \notin tracked'
    BY <1>2, <1>6, <2>1, NamesAssumption DEF tracked, Live
  <2>3. \A j \in Names : processes'[j] \in {processes[j], None}
    BY <2>1
  <2> QED BY <1>3, <1>6, <2>2, <2>3, TableDropsOne
<1> QED BY <1>1, <1>5, <1>6

LEMMA TableExit ==
    ASSUME TypeOK, TypeOK', Table, NEW p \in Pids, Exit(p)
    PROVE  Table'
<1> DEFINE r == [tab[p] EXCEPT !.exitEv = FALSE]
<1>0. tab[p] \in ProcessType /\ tab[p].inst \in Names
  BY TypeParts, InUse DEF Exit, Table
<1>1. /\ r \in ProcessType
      /\ r.inst = tab[p].inst /\ r.slot = tab[p].slot /\ r.drain = tab[p].drain
  BY <1>0, FieldTypes, ExitFields
<1>2. Clean(Released(r)) /\ Clean(Collect(r))
  BY <1>0, <1>1, ReleasedClean
<1>3. CASE roll.current = p /\ RollExit(p)
  <2>1. /\ tab' = [tab EXCEPT ![p] = Released(r)]
        /\ roll' = [roll EXCEPT !.current = None]
        /\ UNCHANGED <<processes, retiring>>
    BY <1>3, Zenon DEF RollExit
  <2> HIDE DEF r
  <2>2. roll'.current = None
    <3>1. roll \in RollType
      BY DEF TypeOK
    <3> QED BY <2>1, <3>1 DEF RollType
  <2>3. p \notin tracked'
    BY <1>3, <2>1, <2>2, NamesAssumption DEF tracked, Live, Table, BootingOK
  <2> QED BY <1>2, <2>1, <2>2, <2>3, TableDropsOne
<1>4. ASSUME NEW long \in BOOLEAN, roll.current # p, p \in Live,
             processExited(p, long), UNCHANGED <<roll, pc>>
      PROVE  Table'
  BY <1>4, TableExited
<1>5. CASE /\ roll.current # p /\ p \notin Live
           /\ tab' = [tab EXCEPT ![p] = Collect(r)]
           /\ UNCHANGED <<state, processes, ready, retiring, failures, roll, pc>>
  <2> HIDE DEF r
  <2>1. CASE p \in tracked
    <3>1. tab[p].drain
      BY <1>5, <2>1 DEF tracked, Table, RetiringOK
    <3>2. Collect(r) = r /\ Same(tab[p], r)
      BY <1>1, <3>1, CollectSame DEF Same
    <3> QED BY <1>2, <1>5, <3>2, TableTouches
  <2>2. CASE p \notin tracked
    BY <1>2, <1>5, <2>2, TableTouches
  <2> QED BY <2>1, <2>2
<1> QED BY <1>3, <1>4, <1>5, Zenon DEF Exit

LEMMA TableCrashes ==
    ASSUME TypeOK, TypeOK', Table, NEW f \in [Pids -> ProcessType], NEW S,
           \A x \in Pids : Clean(f[x]),
           \A x \in Pids : x \in S => f[x].inst \in Names,
           tab' = [x \in Pids |-> IF x \in S THEN Released(Killed(f[x])) ELSE f[x]],
           processes' = [n \in Names |-> None],
           retiring' = {},
           roll'.current = roll.current,
           roll.current \in Pids => /\ roll.current \notin S
                                    /\ Same(tab[roll.current], f[roll.current])
    PROVE  Table'
<1>1. \A x \in Pids : Clean(tab'[x])
  BY KillClean
<1>2. tracked' \subseteq {roll.current} \ {None} /\ tracked' \subseteq Pids
  BY DEF tracked, Live, TypeOK, RollType
<1>3. \A x \in tracked' : Same(tab[x], tab'[x])
  BY <1>2
<1>4. \A i \in Names : processes'[i] = None
  OBVIOUS
<1> QED BY <1>1, <1>3, <1>4, TableShrinks

LEMMA TableRestartDue ==
    ASSUME TypeOK, TypeOK', Table, NEW p \in Pids, RestartDue(p)
    PROVE  Table'
<1> DEFINE i == tab[p].inst
           r == [tab[p] EXCEPT !.timer = FALSE]
           c == Collect(r)
           after == [tab EXCEPT ![p] = c]
<1>0. tab[p] \in ProcessType /\ i \in Names
  BY TypeParts, InUse DEF RestartDue, Table
<1>1. r \in ProcessType /\ Same(tab[p], r)
  BY <1>0, TimerSame, FieldTypes
<1>2. UNCHANGED roll
  BY DEF RestartDue
<1>3. \/ tab' = after /\ UNCHANGED <<processes, retiring>>
      \/ /\ \E q \in Pids \ {p}, k \in Slots :
              /\ CanSpawn(i, q, k)
              /\ tab' = [after EXCEPT ![q] = Spawned(i, k, IsWeb(i))]
              /\ processes' = [processes EXCEPT ![i] = q]
         /\ UNCHANGED retiring
      \/ /\ tab' = [q \in Pids |-> IF q \in Live \cup retiring
                                   THEN Released(Killed(after[q])) ELSE after[q]]
         /\ processes' = [n \in Names |-> None]
         /\ retiring' = {}
  BY Zenon DEF RestartDue
<1> HIDE DEF r
<1>4. Clean(c) /\ (Same(tab[p], c) \/ p \notin tracked) /\ c \in ProcessType
  BY <1>0, <1>1, CollectTouches, HelperTypes
<1> HIDE DEF c
<1>5. CASE tab' = after /\ UNCHANGED <<processes, retiring>>
  BY <1>2, <1>4, <1>5, TableTouches
<1>6. /\ after \in [Pids -> ProcessType] /\ after[p] = c
      /\ \A x \in Pids \ {p} : after[x] = tab[x]
  BY <1>4 DEF TypeOK
<1> HIDE DEF after, i
<1>7. \A x \in Pids : Clean(after[x]) /\ (x \in tracked => Same(tab[x], after[x]))
  BY <1>4, <1>6 DEF Table, Named, Clean, Same
<1>8. ASSUME NEW q \in Pids \ {p}, NEW k \in Slots, CanSpawn(i, q, k),
             tab' = [after EXCEPT ![q] = Spawned(i, k, IsWeb(i))],
             processes' = [processes EXCEPT ![i] = q], UNCHANGED retiring
      PROVE  Table'
  <2>1. tab[q] = NoProcess /\ FreeSlot(Proc(i), k, tracked)
    BY <1>8 DEF CanSpawn
  <2>2. q \notin tracked
    BY <2>1, TrackedInUse
  <2>3. tab'[q] = Spawned(i, k, IsWeb(i)) /\ \A x \in Pids \ {q} : tab'[x] = after[x]
    BY <1>6, <1>8
  <2>4. \A x \in tracked : Same(tab[x], tab'[x])
    BY <1>7, <2>2, <2>3, TrackedInUse
  <2>5. \A x \in Pids \ {q} : Clean(tab'[x])
    BY <1>7, <2>3
  <2>6. /\ roll.current \in tracked \cup {None}
        /\ \A j \in Names : processes[j] # None => processes[j] \in tracked
        /\ retiring' \subseteq tracked
    BY <1>8 DEF tracked, Live
  <2>7. i \in Names /\ IsWeb(i) \in BOOLEAN /\ q \in Pids
    BY <1>0, WebBoolean DEF i
  <2> QED BY <1>2, <1>8, <2>1, <2>3, <2>4, <2>5, <2>6, <2>7, TableSpawns
<1>9. ASSUME tab' = [q \in Pids |-> IF q \in Live \cup retiring
                                   THEN Released(Killed(after[q])) ELSE after[q]],
             processes' = [n \in Names |-> None],
             retiring' = {}
      PROVE  Table'
  <2>1. \A x \in Pids : x \in Live \cup retiring => after[x].inst \in Names
    BY <1>7, TrackedInUse DEF tracked, Same
  <2>2. roll.current \in Pids => /\ roll.current \notin Live \cup retiring
                                 /\ Same(tab[roll.current], after[roll.current])
    BY <1>7, NamesAssumption DEF Table, BootingOK, Live, tracked
  <2> QED BY <1>2, <1>6, <1>7, <1>9, <2>1, <2>2, TableCrashes
<1> QED BY <1>3, <1>5, <1>8, <1>9

LEMMA TableRetired ==
    ASSUME TypeOK, TypeOK', Table, NEW p \in Pids, Retired(p)
    PROVE  Table'
<1> DEFINE i == tab[p].inst
           r == [tab[p] EXCEPT !.drain = FALSE]
           c == Released(r)
           after == [tab EXCEPT ![p] = c]
           S == (Live \cup retiring) \ {p}
<1>0. tab[p] \in ProcessType /\ i \in Names /\ tab[p].drain
  BY TypeParts, InUse DEF Retired, Table
<1>1. r \in ProcessType /\ r.inst = i
  BY <1>0, ExitFields, FieldTypes
<1>2. roll'.current = roll.current
  <2>1. roll' = [roll EXCEPT !.waiting = None] \/ roll' = roll
    BY Zenon DEF Retired
  <2>2. roll \in RollType
    BY DEF TypeOK
  <2> QED BY <2>1, <2>2 DEF RollType
<1>3. \/ tab' = after /\ processes' = processes /\ retiring' = retiring \ {p}
      \/ /\ \E q \in Pids \ {p}, k \in Slots :
              /\ tab[q] = NoProcess
              /\ FreeSlot(Proc(i), k, tracked \ {p})
              /\ tab' = [after EXCEPT ![q] = Spawned(i, k, FALSE)]
              /\ processes' = [processes EXCEPT ![i] = q]
         /\ retiring' = retiring \ {p}
      \/ /\ tab' = [q \in Pids |-> IF q \in S
                                   THEN Released(Killed(after[q])) ELSE after[q]]
         /\ processes' = [n \in Names |-> None]
         /\ retiring' = {}
  BY Zenon DEF Retired
<1> HIDE DEF r
<1>4. Clean(c) /\ c \in ProcessType
  BY <1>0, <1>1, ReleasedClean, HelperTypes
<1> HIDE DEF c
<1>5. roll.current # p /\ \A j \in Names : processes[j] # p
  BY <1>0, NamesAssumption DEF Table, LiveOK, BootingOK
<1>6. CASE tab' = after /\ processes' = processes /\ retiring' = retiring \ {p}
  <2>1. p \notin tracked'
    BY <1>2, <1>5, <1>6 DEF tracked, Live
  <2> QED BY <1>2, <1>4, <1>6, <2>1, TableDropsOne
<1>7. /\ after \in [Pids -> ProcessType] /\ after[p] = c
      /\ \A x \in Pids \ {p} : after[x] = tab[x]
  BY <1>4 DEF TypeOK
<1> HIDE DEF after, i
<1>8. \A x \in Pids : Clean(after[x]) /\ (x # p => Same(tab[x], after[x]))
  BY <1>4, <1>7 DEF Table, Named, Clean, Same
<1>9. ASSUME NEW q \in Pids \ {p}, NEW k \in Slots, tab[q] = NoProcess,
             FreeSlot(Proc(i), k, tracked \ {p}),
             tab' = [after EXCEPT ![q] = Spawned(i, k, FALSE)],
             processes' = [processes EXCEPT ![i] = q], retiring' = retiring \ {p}
      PROVE  Table'
  <2> DEFINE T == tracked \ {p}
  <2>1. q \notin T
    BY <1>9, TrackedInUse
  <2>2. tab'[q] = Spawned(i, k, FALSE) /\ \A x \in Pids \ {q} : tab'[x] = after[x]
    BY <1>7, <1>9
  <2>3. \A x \in T : Same(tab[x], tab'[x])
    BY <1>8, <2>1, <2>2, TrackedInUse
  <2>4. \A x \in Pids \ {q} : Clean(tab'[x])
    BY <1>8, <2>2
  <2>5. /\ roll.current \in T \cup {None}
        /\ \A j \in Names : processes[j] # None => processes[j] \in T
        /\ retiring' \subseteq T /\ retiring' \subseteq retiring
        /\ T \subseteq tracked
    BY <1>5, <1>9 DEF tracked, Live
  <2>6. i \in Names /\ q \in Pids /\ FreeSlot(Proc(i), k, T)
    BY <1>0, <1>9 DEF i
  <2> HIDE DEF T
  <2> QED BY <1>2, <1>9, <2>2, <2>3, <2>4, <2>5, <2>6, TableSpawns
<1>10. ASSUME tab' = [q \in Pids |-> IF q \in S
                                    THEN Released(Killed(after[q])) ELSE after[q]],
              processes' = [n \in Names |-> None],
              retiring' = {}
       PROVE  Table'
  <2>1. \A x \in Pids : x \in S => after[x].inst \in Names
    BY <1>8, TrackedInUse DEF tracked, Same
  <2>2. roll.current \in Pids => /\ roll.current \notin S
                                 /\ Same(tab[roll.current], after[roll.current])
    BY <1>5, <1>8, NamesAssumption DEF Table, BootingOK, Live
  <2> HIDE DEF S
  <2> QED BY <1>2, <1>7, <1>8, <1>10, <2>1, <2>2, TableCrashes
<1> QED BY <1>3, <1>6, <1>9, <1>10

LEMMA TableNext ==
    ASSUME TypeOK, Table, [Next]_vars
    PROVE  TypeOK' /\ Table'
<1>1. TypeOK'
  BY TypeNext DEF Table
<1>2. CASE UNCHANGED vars
  BY <1>1, <1>2, TableKept DEF vars
<1>3. CASE Continue
  BY <1>1, <1>3, TableStart, TableAdvance, TableRoll DEF Continue
<1>4. CASE Event
  BY <1>1, <1>4, TableStepExit, TableReady, TableHealthFailed, TableExit,
     TableRestartDue, TableRetired DEF Event
<1>5. CASE Request \/ World
  BY <1>1, <1>5, TableRequest, TableWorld
<1> QED BY <1>1, <1>2, <1>3, <1>4, <1>5 DEF Next

LEMMA TableInit == Init => Table
<1> SUFFICES ASSUME Init PROVE Table
  OBVIOUS
<1>1. \A i \in Names : processes[i] = None
  BY DEF Init
<1>2. roll.current = None /\ retiring = {}
  BY DEF Init, NoRoll
<1>3. Named
  BY DEF Init, Named
<1>4. LiveOK /\ BootingOK /\ RetiringOK
  BY <1>1, <1>2 DEF LiveOK, BootingOK, RetiringOK
<1>5. SlotsDistinct
  BY <1>1, <1>2 DEF SlotsDistinct, Live
<1> QED BY <1>3, <1>4, <1>5 DEF Table

-----------------------------------------------------------------------------
(* The runtime's maps always hold what their declarations say, whatever    *)
(* interleaving of requests, events and crashes: in particular a late      *)
(* event never puts a name into ready that no spec ever had.               *)
THEOREM TypeCorrect == Spec => []TypeOK
<1>1. Init => TypeOK /\ Table
  BY TypeInit, TableInit
<1>2. TypeOK /\ Table /\ [Next]_vars => (TypeOK /\ Table)'
  BY TableNext
<1> QED BY <1>1, <1>2, PTL DEF Spec

(* Two tracked processes never sit in one slot, for any number of entries, *)
(* copies and process objects: freeSlot (instances.go) sees every copy a   *)
(* roll boots or drains.                                                   *)
THEOREM SlotsNeverShared == Spec => []SlotsDistinct
<1>1. Init => TypeOK /\ Table
  BY TypeInit, TableInit
<1>2. TypeOK /\ Table /\ [Next]_vars => (TypeOK /\ Table)'
  BY TableNext
<1>3. Table => SlotsDistinct
  BY DEF Table
<1> QED BY <1>1, <1>2, <1>3, PTL DEF Spec

(* A process is live under its own name, retiring or booting for a roll,   *)
(* and never two of these: rollEvent, retire, processExited and release    *)
(* hand it over whole.                                                     *)
THEOREM ProcessTrackedOnce == Spec => []TrackedOnce
<1>1. Init => TypeOK /\ Table
  BY TypeInit, TableInit
<1>2. TypeOK /\ Table /\ [Next]_vars => (TypeOK /\ Table)'
  BY TableNext
<1>3. Table => TrackedOnce
  BY DEF Table, LiveOK, RetiringOK, BootingOK, TrackedOnce, Live
<1> QED BY <1>1, <1>2, <1>3, PTL DEF Spec

-----------------------------------------------------------------------------
(* The callers of a roll.                                                  *)

Callered == WaitersHeld /\ IdleRoll

SameCallers ==
    /\ waiting' = waiting
    /\ roll'.on = roll.on
    /\ roll'.done = roll.done
    /\ roll'.againDone = roll.againDone

(* A step that only moves the roll along leaves its callers alone.         *)
LEMMA RollMoves ==
    ASSUME TypeOK, waiting' = waiting, NEW x, NEW y,
           \/ roll' = roll
           \/ roll' = [roll EXCEPT !.step = x]
           \/ roll' = [roll EXCEPT !.steps = x]
           \/ roll' = [roll EXCEPT !.current = x]
           \/ roll' = [roll EXCEPT !.waiting = x]
           \/ roll' = [roll EXCEPT !.steps = x, !.waiting = y]
           \/ roll' = [roll EXCEPT !.steps = x, !.current = y]
           \/ roll' = [roll EXCEPT !.current = None, !.again = FALSE]
    PROVE  SameCallers
<1>1. roll \in RollType
  BY DEF TypeOK
<1> QED BY <1>1 DEF RollType, SameCallers

LEMMA CalleredKept == ASSUME Callered, SameCallers PROVE Callered'
BY DEF Callered, SameCallers, WaitersHeld, IdleRoll

LEMMA CalleredRequest ==
    ASSUME TypeOK, Callered, Request
    PROVE  Callered'
<1>1. CASE ReqStart
  BY <1>1, CalleredKept DEF ReqStart, SameCallers
<1>2. CASE Stop
  <2>1. CASE state = "stopped"
    BY <1>2, <2>1, CalleredKept DEF Stop, SameCallers
  <2>2. CASE state # "stopped"
    BY <1>2, <2>2, NewRollFields DEF Stop, Callered, WaitersHeld, IdleRoll
  <2> QED BY <2>1, <2>2
<1>3. ASSUME NEW n \in Names,
             ReqProcessStart(n) \/ ReqProcessStop(n) \/ ReqProcessRestart(n)
      PROVE  Callered'
  BY <1>3, CalleredKept
     DEF ReqProcessStart, ReqProcessStop, ReqProcessRestart, SameCallers
<1>4. ASSUME NEW c \in Callers, NEW o \in Targets, beginRoll(c, o) PROVE Callered'
  <2>1. CASE roll.on
    <3> DEFINE v == IF ~roll.again \/ roll.againOnly = o THEN o ELSE All
               d == roll.againDone \cup {c}
    <3>1. roll' = [roll EXCEPT !.againOnly = v, !.again = TRUE, !.againDone = d]
      BY <1>4, <2>1 DEF beginRoll
    <3> HIDE DEF v, d
    <3>2. roll \in RollType
      BY DEF TypeOK
    <3>3. roll'.done = roll.done /\ roll'.againDone = d /\ roll'.on = roll.on
      BY <3>1, <3>2 DEF RollType
    <3>4. waiting' = waiting \cup {c} /\ c \notin waiting
      BY <1>4 DEF beginRoll
    <3> QED BY <2>1, <3>3, <3>4 DEF Callered, WaitersHeld, IdleRoll, d
  <2>2. CASE ~roll.on
    BY <1>4, <2>2, NewRollFields DEF beginRoll, Callered, WaitersHeld, IdleRoll
  <2> QED BY <2>1, <2>2
<1>5. ASSUME NEW s \in Updates[spec], ReqUpdate(s) PROVE Callered'
  <2>1. (roll' = [roll EXCEPT !.step = "lost"] \/ roll' = roll) /\ waiting' = waiting
    BY <1>5 DEF ReqUpdate
  <2> QED BY <2>1, RollMoves, CalleredKept
<1> QED BY <1>1, <1>2, <1>3, <1>4, <1>5 DEF Request, ReqStop, ReqRestart

LEMMA CalleredContinue ==
    ASSUME TypeOK, Callered, Continue
    PROVE  Callered'
<1>1. CASE start \/ continueStart \/ spawnAll \/ spawnedAll \/ startProcess
  BY <1>1, CalleredKept
     DEF start, continueStart, spawnAll, spawnedAll, startProcess, SameCallers
<1>2. CASE runRoll
  <2>1. (roll' = [roll EXCEPT !.step = "runs"] \/ roll' = roll) /\ waiting' = waiting
    BY <1>2 DEF runRoll
  <2> QED BY <2>1, RollMoves, CalleredKept
<1>3. CASE planRoll
  <2> DEFINE S == (ReplaceSet \X {"replace"}) \cup (WorkerSet \X {"worker"})
                     \cup (RetireSet \X {"retire"})
  <2>1. roll' = [roll EXCEPT !.steps = S] /\ waiting' = waiting
    BY <1>3 DEF planRoll
  <2> HIDE DEF S
  <2> QED BY <2>1, RollMoves, CalleredKept
<1>4. CASE abortRoll
  <2>1. roll' = [roll EXCEPT !.current = None, !.again = FALSE] /\ waiting' = waiting
    BY <1>4 DEF abortRoll
  <2> QED BY <2>1, RollMoves, CalleredKept
<1>5. CASE finishRoll
  <2>1. CASE roll' = NoRoll /\ waiting' = waiting \ (roll.done \cup roll.againDone)
    BY <2>1, NewRollFields DEF Callered, WaitersHeld, IdleRoll
  <2>2. CASE /\ roll' = NewRoll(roll.againOnly, roll.againDone)
             /\ waiting' = waiting \ roll.done
    BY <2>2, NewRollFields DEF Callered, WaitersHeld, IdleRoll
  <2> QED BY <1>5, <2>1, <2>2 DEF finishRoll
<1>6. CASE advanceRoll
  <2>0. waiting' = waiting
    BY <1>6 DEF advanceRoll
  <2>1. CASE UNCHANGED roll
    BY <2>0, <2>1, CalleredKept DEF SameCallers
  <2>2. ASSUME NEW s \in NextSteps,
               stepRetire(s) \/ stepWorker(s) \/ stepReplace(s)
        PROVE  Callered'
    <3> DEFINE S == roll.steps \ {s}
    <3>1. \/ roll' = [roll EXCEPT !.steps = S]
          \/ roll' = [roll EXCEPT !.steps = S, !.waiting = processes[s[1]]]
          \/ \E p \in Pids : roll' = [roll EXCEPT !.steps = S, !.current = p]
      BY <2>2, Zenon DEF stepRetire, stepWorker, stepReplace
    <3> HIDE DEF S
    <3> QED BY <2>0, <3>1, RollMoves, CalleredKept
  <2> QED BY <1>6, <2>1, <2>2 DEF advanceRoll
<1> QED BY <1>1, <1>2, <1>3, <1>4, <1>5, <1>6 DEF Continue

LEMMA CalleredEvent ==
    ASSUME TypeOK, Callered, Event \/ World
    PROVE  Callered'
<1>1. ASSUME NEW s \in Lifecycle, StepExit(s) PROVE Callered'
  <2>1. (roll' = [roll EXCEPT !.step = "none"] \/ roll' = roll) /\ waiting' = waiting
    BY <1>1 DEF StepExit
  <2> QED BY <2>1, RollMoves, CalleredKept
<1>2. ASSUME NEW p \in Pids, Ready(p) \/ Exit(p) PROVE Callered'
  <2>1. (roll' = [roll EXCEPT !.current = None] \/ roll' = roll) /\ waiting' = waiting
    BY <1>2, Zenon DEF Ready, Exit, RollExit
  <2> QED BY <2>1, RollMoves, CalleredKept
<1>3. ASSUME NEW p \in Pids, HealthFailed(p) \/ RestartDue(p) PROVE Callered'
  <2>1. UNCHANGED <<roll, waiting>>
    BY <1>3 DEF HealthFailed, RestartDue
  <2> QED BY <2>1, CalleredKept DEF SameCallers
<1>4. ASSUME NEW p \in Pids, Retired(p) PROVE Callered'
  <2>1. (roll' = [roll EXCEPT !.waiting = None] \/ roll' = roll) /\ waiting' = waiting
    BY <1>4, Zenon DEF Retired
  <2> QED BY <2>1, RollMoves, CalleredKept
<1>5. CASE World
  BY <1>5, CalleredKept DEF World, Die, RetireKill, Probe, Unhealthy, JobExit, SameCallers
<1> QED BY <1>1, <1>2, <1>3, <1>4, <1>5 DEF Event

(* The callers blocked in Manager.roll are exactly those of the roll in    *)
(* flight and of the one asked for meanwhile, and none is in both: no path *)
(* out of a roll forgets a caller or answers one twice.                    *)
THEOREM CallersHeld == Spec => []WaitersHeld
<1>1. Init => Callered
  BY NewRollFields DEF Init, Callered, WaitersHeld, IdleRoll
<1>2. TypeOK /\ Callered /\ [Next]_vars => Callered'
  <2> SUFFICES ASSUME TypeOK, Callered, [Next]_vars PROVE Callered'
    OBVIOUS
  <2>1. CASE UNCHANGED vars
    BY <2>1, CalleredKept DEF vars, SameCallers
  <2> QED BY <2>1, CalleredRequest, CalleredContinue, CalleredEvent DEF Next
<1>3. Callered => WaitersHeld
  BY DEF Callered
<1> QED BY <1>1, <1>2, <1>3, TypeCorrect, PTL DEF Spec

-----------------------------------------------------------------------------
(* Apps handled by hand (ByHand): no step, no roll, no other spec.         *)

(* Where the goroutine can be, and nothing of a roll or a lifecycle step.  *)
HandAt ==
    /\ roll = NoRoll /\ retiring = {} /\ job = [s \in Lifecycle |-> "idle"]
    /\ pc \in {"idle", "launch", "create", "start", "spawn", "pstart"}
    /\ pc \in {"create", "start", "spawn"} => state = "starting"
    /\ pc = "pstart" => state \in {"running", "starting"}

(* A child that is up is live.                                             *)
UpIsLive == \A p \in Pids : tab[p].os = "up" => p \in Live

(* An app that is down, or about to come up, has no process.               *)
DownIsEmpty ==
    state \in {"stopped", "crashed"} \/ pc \in {"create", "start"}
        => \A i \in Names : processes[i] = None

(* A start has spawned what it has not yet to spawn.                       *)
SpawnsAll ==
    pc = "spawn" => /\ \A i \in todo : processes[i] = None
                    /\ \A i \in StartSet \ todo : processes[i] # None

(* An instance that should be up is, or is pending.                        *)
Due(i) == wanted(i) /\ Proc(i) \in spec.cmds /\ Restart[Proc(i)] = "always"
Timed(i) == \E p \in Pids : tab[p].timer /\ tab[p].inst = i
Kept ==
    pc \in {"idle", "launch", "pstart"} /\ state \in {"running", "starting"} =>
        \A i \in Names : Due(i) /\ i \notin held =>
            processes[i] # None \/ Timed(i) \/ (pc = "pstart" /\ i \in todo)

Hand == HandAt /\ UpIsLive /\ DownIsEmpty /\ SpawnsAll /\ Kept

-----------------------------------------------------------------------------
(* What a handler does to a process object.                                *)

(* s is not up unless r is, and its timer runs on.                         *)
Follows(r, s) ==
    /\ s.os = "up" => r.os = "up"
    /\ r.timer => s.timer /\ s.inst = r.inst

LEMMA CollectFollows ==
    ASSUME NEW r \in ProcessType
    PROVE  Follows(r, Collect(r)) /\ Follows(r, r)
BY DEF Collect, Follows, NoProcess, ProcessType

LEMMA ReleasedFollows ==
    ASSUME NEW r \in ProcessType
    PROVE  Follows(r, Released(r))
<1> DEFINE m == IF r.mon \in {"probe", "live"} THEN "off" ELSE r.mon
           x == [r EXCEPT !.mon = m, !.slot = 0, !.code = "ok", !.released = TRUE]
<1>1. x.os = r.os /\ x.timer = r.timer /\ x.inst = r.inst
  BY DEF ProcessType
<1>2. Released(r) = Collect(x)
  BY DEF Released
<1> HIDE DEF x
<1>3. Follows(x, Collect(x))
  BY DEF Collect, Follows, NoProcess
<1> QED BY <1>1, <1>2, <1>3 DEF Follows

LEMMA KilledFollows ==
    ASSUME NEW r \in ProcessType
    PROVE  Follows(r, Released(Killed(r))) /\ Follows(r, Killed(r)) /\ Released(Killed(r)).os # "up"
<1>1. Killed(r) \in ProcessType /\ Killed(r).os # "up" /\ Follows(r, Killed(r))
  <2>1. Killed(r) \in ProcessType
    BY HelperTypes
  <2>2. Killed(r).os # "up" /\ Killed(r).timer = r.timer /\ Killed(r).inst = r.inst
    BY DEF Killed, ProcessType
  <2> QED BY <2>1, <2>2 DEF Follows
<1>2. Follows(Killed(r), Released(Killed(r)))
  BY <1>1, ReleasedFollows
<1> QED BY <1>1, <1>2 DEF Follows

LEMMA FieldsFollow ==
    ASSUME NEW r \in ProcessType, NEW m, NEW c
    PROVE  /\ Follows(r, [r EXCEPT !.mon = m])
           /\ Follows(r, [r EXCEPT !.exitEv = FALSE])
           /\ Follows(r, [r EXCEPT !.os = "dead", !.code = c])
BY DEF Follows, ProcessType

LEMMA NoProcessRests == NoProcess.os # "up" /\ ~NoProcess.timer
BY DEF NoProcess

-----------------------------------------------------------------------------
(* Nothing moves but process objects, monitors among them.                 *)
LEMMA HandTouches ==
    ASSUME TypeOK, Hand, pc = "idle", \A p \in Pids : Follows(tab[p], tab'[p]),
           UNCHANGED <<spec, processes, held, retiring, roll, job, pc, todo>>,
           \/ state' = state
           \/ {state, state'} \subseteq {"running", "starting"}
    PROVE  Hand'
<1>1. HandAt' /\ SpawnsAll'
  BY DEF Hand, HandAt, SpawnsAll
<1>2. UpIsLive'
  BY DEF Hand, UpIsLive, Live, Follows
<1>3. DownIsEmpty'
  BY DEF Hand, DownIsEmpty
<1>4. Kept'
  <2> SUFFICES ASSUME NEW i \in Names, (state \in {"running", "starting"})', Due(i)', i \notin held'
               PROVE  processes'[i] # None \/ Timed(i)'
    BY DEF Kept
  <2>1. state \in {"running", "starting"} /\ Due(i) /\ i \notin held
    BY DEF Due, wanted, InstancesOf
  <2>2. processes[i] # None \/ Timed(i)
    BY <2>1 DEF Hand, Kept
  <2>3. Timed(i) => Timed(i)'
    BY DEF Timed, Follows
  <2> QED BY <2>2, <2>3
<1> QED BY <1>1, <1>2, <1>3, <1>4 DEF Hand

(* The app goes down: every live process is killed.                        *)
LEMMA HandFalls ==
    ASSUME TypeOK, Hand, NEW S, NEW f \in [Pids -> ProcessType],
           tab' = [p \in Pids |-> IF p \in S THEN Released(Killed(f[p])) ELSE f[p]],
           Live \subseteq S, \A p \in Pids \ S : f[p].os = "up" => tab[p].os = "up",
           \A i \in Names : processes'[i] = None, retiring' = {}, roll' = NoRoll,
           job' = [s \in Lifecycle |-> "idle"], pc' \in {"idle", "launch"},
           state' \in {"stopped", "crashed"}
    PROVE  Hand'
<1>1. HandAt' /\ SpawnsAll'
  BY DEF HandAt, SpawnsAll
<1>2. UpIsLive'
  <2> SUFFICES ASSUME NEW p \in Pids, tab'[p].os = "up" PROVE FALSE
    BY DEF UpIsLive
  <2>1. CASE p \in S
    BY <2>1, KilledFollows
  <2>2. CASE p \notin S
    BY <2>2 DEF Hand, UpIsLive
  <2> QED BY <2>1, <2>2
<1>3. DownIsEmpty' /\ Kept'
  BY DEF DownIsEmpty, Kept
<1> QED BY <1>1, <1>2, <1>3 DEF Hand

(* An instance that is down is spawned, by a start, a request or a timer.  *)
LEMMA HandSpawns ==
    ASSUME TypeOK, Hand, pc \in {"idle", "pstart", "spawn"}, state \in {"running", "starting"},
           NEW i \in Names, NEW q \in Pids, NEW k, NEW w,
           tab[q] = NoProcess, processes[i] = None,
           tab'[q] = Spawned(i, k, w), processes' = [processes EXCEPT ![i] = q],
           \A p \in Pids \ {q} : /\ tab'[p].os = "up" => tab[p].os = "up"
                                 /\ Follows(tab[p], tab'[p]) \/ tab[p].inst = i,
           UNCHANGED <<spec, state, retiring, roll, job>>,
           held' \in {held, held \ {i}}, todo' \in {todo, todo \ {i}},
           pc = "spawn" => pc' = pc /\ todo' = todo \ {i},
           pc # "spawn" => pc' = pc \/ (pc' = "idle" /\ todo' = {})
    PROVE  Hand'
<1>0. /\ processes'[i] = q /\ q # None
      /\ \A j \in Names \ {i} : processes'[j] = processes[j]
  BY NamesAssumption DEF TypeOK
<1>1. HandAt'
  BY DEF Hand, HandAt
<1>2. UpIsLive'
  <2> SUFFICES ASSUME NEW p \in Pids, tab'[p].os = "up" PROVE p \in Live'
    BY DEF UpIsLive
  <2>1. CASE p = q
    BY <1>0, <2>1 DEF Live
  <2>2. CASE p # q
    <3>1. p \in Live
      BY <2>2 DEF Hand, UpIsLive
    <3>2. PICK j \in Names : processes[j] = p /\ p # None
      BY <3>1 DEF Live
    <3>3. processes'[j] = p
      BY <1>0, <3>2
    <3> QED BY <3>2, <3>3 DEF Live
  <2> QED BY <2>1, <2>2
<1>3. DownIsEmpty'
  BY DEF DownIsEmpty, Hand, HandAt
<1>4. SpawnsAll'
  <2> SUFFICES ASSUME pc' = "spawn" PROVE SpawnsAll'
    BY DEF SpawnsAll
  <2>1. pc = "spawn" /\ todo' = todo \ {i} /\ StartSet' = StartSet
    BY DEF StartSet, InstancesOf
  <2>2. todo \subseteq Names /\ StartSet \subseteq Names
    BY SetTypes DEF TypeOK
  <2> QED BY <1>0, <2>1, <2>2 DEF Hand, SpawnsAll
<1>5. Kept'
  <2> SUFFICES ASSUME pc' # "spawn", NEW j \in Names, Due(j)', j \notin held',
                      ~ (pc' = "pstart" /\ j \in todo')
               PROVE  processes'[j] # None \/ Timed(j)'
    BY DEF Kept
  <2>1. CASE j = i
    BY <1>0, <2>1
  <2>2. CASE j # i
    <3>1. Due(j) /\ j \notin held /\ pc \in {"idle", "pstart"}
      BY <2>2 DEF Due, wanted, InstancesOf
    <3>2. ~ (pc = "pstart" /\ j \in todo)
      BY <2>2
    <3>3. processes[j] # None \/ Timed(j)
      BY <3>1, <3>2 DEF Hand, Kept
    <3>4. ASSUME NEW p \in Pids, tab[p].timer, tab[p].inst = j PROVE Timed(j)'
      <4>1. p # q
        BY <3>4, NoProcessRests
      <4>2. tab'[p].timer /\ tab'[p].inst = j
        BY <2>2, <3>4, <4>1 DEF Follows
      <4> QED BY <4>2 DEF Timed
    <3> QED BY <1>0, <2>2, <3>3, <3>4 DEF Timed
  <2> QED BY <2>1, <2>2
<1> QED BY <1>1, <1>2, <1>3, <1>4, <1>5 DEF Hand

-----------------------------------------------------------------------------
(* A rescan finds the spec such an app has.                                *)
LEMMA HandSpec ==
    ASSUME TypeOK, ByHand', NEW s \in Updates[spec], spec' = s
    PROVE  s = spec
<1>1. spec \in Specs /\ s \in Specs
  BY InputsAssumption DEF TypeOK
<1> QED BY <1>1 DEF ByHand

(* The requests.                                                           *)
LEMMA HandStop ==
    ASSUME TypeOK, Table, Hand, pc = "idle", Stop, pc' \in {"idle", "launch"}, UNCHANGED <<spec, held>>
    PROVE  Hand'
<1>1. CASE state = "stopped"
  <2>1. HandAt' /\ DownIsEmpty' /\ SpawnsAll' /\ Kept'
    BY <1>1 DEF Stop, Hand, HandAt, DownIsEmpty, SpawnsAll, Kept
  <2>2. UpIsLive'
    BY <1>1 DEF Stop, Hand, UpIsLive, Live
  <2> QED BY <2>1, <2>2 DEF Hand
<1>2. CASE state # "stopped"
  <2>1. tab \in [Pids -> ProcessType]
    BY DEF TypeOK
  <2>2. Live \subseteq tracked
    BY DEF tracked
  <2>3. tab' = [p \in Pids |-> IF p \in tracked THEN Released(Killed(tab[p])) ELSE tab[p]]
    BY <1>2 DEF Stop, KillAndRelease
  <2>4. /\ \A i \in Names : processes'[i] = None
        /\ retiring' = {} /\ roll' = NoRoll /\ state' = "stopped"
        /\ job' = [s \in Lifecycle |-> "idle"]
    BY <1>2 DEF Stop
  <2> QED BY <2>1, <2>2, <2>3, <2>4, HandFalls
<1> QED BY <1>1, <1>2

LEMMA HandFailStart ==
    ASSUME TypeOK, Hand, FailStart, pc' = "idle", UNCHANGED <<roll, job>>
    PROVE  Hand'
<1>1. tab \in [Pids -> ProcessType]
  BY DEF TypeOK
<1>2. /\ tab' = [p \in Pids |-> IF p \in Live \cup retiring THEN Released(Killed(tab[p])) ELSE tab[p]]
      /\ \A i \in Names : processes'[i] = None
      /\ retiring' = {} /\ state' = "crashed"
  BY DEF FailStart, KillAndRelease
<1>3. roll' = NoRoll /\ job' = [s \in Lifecycle |-> "idle"]
  BY DEF Hand, HandAt
<1> DEFINE S == Live \cup retiring
<1>4. Live \subseteq S /\ \A p \in Pids \ S : tab[p].os = "up" => tab[p].os = "up"
  OBVIOUS
<1>5. tab' = [p \in Pids |-> IF p \in S THEN Released(Killed(tab[p])) ELSE tab[p]]
  BY <1>2
<1> HIDE DEF S
<1> QED BY <1>1, <1>2, <1>3, <1>4, <1>5, HandFalls

(* Some processes are stopped, to stay down or to be started again.        *)
LEMMA HandStopProcess ==
    ASSUME TypeOK, Table, Hand, pc = "idle", NEW S \in SUBSET Names, NEW hold \in BOOLEAN,
           StopProcess(S, hold), UNCHANGED <<spec, retiring, roll, job>>,
           IF ~hold /\ state \in {"running", "starting"} THEN todo' = S /\ pc' = "pstart"
                                                          ELSE pc' = pc
    PROVE  Hand'
<1> DEFINE T == {processes[i] : i \in S} \ {None}
<1>1. /\ \A p \in Pids : Follows(tab[p], tab'[p])
      /\ \A p \in Pids : p \in T => tab'[p].os # "up"
  <2>1. \A p \in Pids : tab[p] \in ProcessType
    BY DEF TypeOK
  <2>2. \A p \in Pids : tab'[p] = IF p \in T THEN Released(Killed(tab[p])) ELSE tab[p]
    BY DEF StopProcess, KillAndRelease
  <2> HIDE DEF T
  <2> QED BY <2>1, <2>2, KilledFollows, CollectFollows
<1>2. /\ \A i \in Names : processes'[i] = IF i \in S THEN None ELSE processes[i]
      /\ held' = IF hold THEN held \cup S ELSE held
      /\ \/ state' = state
         \/ state' = "stopped" /\ hold /\ \A i \in Names : processes'[i] = None
  <2>1. \A i \in Names : processes'[i] = IF i \in S THEN None ELSE processes[i]
    BY DEF StopProcess
  <2>2. held' = IF hold THEN held \cup S ELSE held
    BY DEF StopProcess
  <2>3. \/ state' = state
        \/ state' = "stopped" /\ hold /\ \A i \in Names : processes'[i] = None
    BY Zenon DEF StopProcess
  <2> QED BY <2>1, <2>2, <2>3
<1>3. UpIsLive'
  <2> SUFFICES ASSUME NEW p \in Pids, tab'[p].os = "up" PROVE p \in Live'
    BY DEF UpIsLive
  <2>1. p \in Live /\ p \notin T
    BY <1>1 DEF Hand, UpIsLive, Follows
  <2>2. PICK j \in Names : processes[j] = p /\ p # None
    BY <2>1 DEF Live
  <2>3. processes'[j] = p
    BY <1>2, <2>1, <2>2
  <2> QED BY <2>2, <2>3 DEF Live
<1>4. HandAt' /\ SpawnsAll'
  BY <1>2 DEF Hand, HandAt, SpawnsAll
<1>5. DownIsEmpty'
  BY <1>2, <1>4 DEF Hand, HandAt, DownIsEmpty
<1>6. Kept'
  <2> SUFFICES ASSUME (state \in {"running", "starting"})', NEW j \in Names, Due(j)', j \notin held',
                      ~ (pc' = "pstart" /\ j \in todo')
               PROVE  processes'[j] # None \/ Timed(j)'
    BY DEF Kept
  <2>1. state \in {"running", "starting"} /\ Due(j) /\ j \notin held /\ j \notin S
    BY <1>2 DEF Due, wanted, InstancesOf
  <2>2. processes[j] # None \/ Timed(j)
    BY <2>1 DEF Hand, Kept
  <2>3. Timed(j) => Timed(j)'
    BY <1>1 DEF Timed, Follows
  <2> QED BY <1>2, <2>1, <2>2, <2>3
<1> QED BY <1>3, <1>4, <1>5, <1>6 DEF Hand

LEMMA HandRequest ==
    ASSUME TypeOK, Table, Hand, ByHand', ByHand, Request
    PROVE  Hand'
<1>1. CASE ReqStart
  <2>1. HandAt' /\ DownIsEmpty' /\ SpawnsAll'
    BY <1>1 DEF ReqStart, Hand, HandAt, DownIsEmpty, SpawnsAll
  <2>2. UpIsLive' /\ Kept'
    BY <1>1 DEF ReqStart, Hand, UpIsLive, Live, Kept, Due, wanted, InstancesOf, Timed
  <2> QED BY <2>1, <2>2 DEF Hand
<1>2. CASE ReqStop \/ ReqRestart
  BY <1>2, HandStop DEF ReqStop, ReqRestart
<1>3. ASSUME NEW n \in Names, ReqProcessStart(n) PROVE Hand'
  <2>1. HandAt' /\ DownIsEmpty' /\ SpawnsAll'
    BY <1>3 DEF ReqProcessStart, Hand, HandAt, DownIsEmpty, SpawnsAll
  <2>2. UpIsLive' /\ Kept'
    BY <1>3 DEF ReqProcessStart, Hand, UpIsLive, Live, Kept, Due, wanted, InstancesOf, Timed
  <2> QED BY <2>1, <2>2 DEF Hand
<1>4. ASSUME NEW n \in Names, ReqProcessStop(n) \/ ReqProcessRestart(n) PROVE Hand'
  <2>1. resolve(n) \in SUBSET Names
    BY SetTypes
  <2> QED BY <1>4, <2>1, HandStopProcess DEF ReqProcessStop, ReqProcessRestart
<1>5. ASSUME NEW s \in Updates[spec], ReqUpdate(s) PROVE Hand'
  <2>1. spec' = spec
    BY <1>5, HandSpec DEF ReqUpdate
  <2>2. roll' = NoRoll
    BY <1>5 DEF ReqUpdate, Hand, HandAt, NoRoll
  <2>3. job' = [x \in Lifecycle |-> "idle"]
    BY <1>5 DEF ReqUpdate, Hand, HandAt
  <2>4. HandAt' /\ DownIsEmpty' /\ SpawnsAll'
    BY <1>5, <2>2, <2>3 DEF ReqUpdate, Hand, HandAt, DownIsEmpty, SpawnsAll
  <2>5. UpIsLive' /\ Kept'
    BY <1>5, <2>1 DEF ReqUpdate, Hand, UpIsLive, Live, Kept, Due, wanted, InstancesOf, Timed
  <2> QED BY <2>4, <2>5 DEF Hand
<1> QED BY <1>1, <1>2, <1>3, <1>4, <1>5 DEF Request, ByHand

(* A start of the app, or of some of its processes.                        *)
LEMMA HandStart ==
    ASSUME TypeOK, Hand, ByHand, start \/ continueStart
    PROVE  Hand'
<1>1. CASE start /\ state \in {"running", "starting"}
  <2>1. HandAt' /\ DownIsEmpty' /\ SpawnsAll'
    BY <1>1 DEF start, Hand, HandAt, DownIsEmpty, SpawnsAll
  <2>2. UpIsLive' /\ Kept'
    BY <1>1 DEF start, Hand, UpIsLive, Live, Kept, Due, wanted, InstancesOf, Timed
  <2> QED BY <2>1, <2>2 DEF Hand
<1>2. CASE start /\ state \notin {"running", "starting"}
  <2>1. HandAt' /\ SpawnsAll' /\ Kept'
    BY <1>2 DEF start, Hand, HandAt, SpawnsAll, Kept
  <2>2. DownIsEmpty'
    BY <1>2 DEF start, Hand, DownIsEmpty, TypeOK
  <2>3. UpIsLive'
    BY <1>2 DEF start, Hand, UpIsLive, Live
  <2> QED BY <2>1, <2>2, <2>3 DEF Hand
<1>3. CASE continueStart
  <2>1. ~StepDue
    BY <1>3 DEF ByHand, StepDue
  <2>2. /\ pc' = IF pc = "create" THEN "start" ELSE "spawn"
        /\ todo' = IF pc = "create" THEN {} ELSE StartSet
        /\ pc \in {"create", "start"}
        /\ UNCHANGED <<job, tab, processes, retiring, state, spec, held, roll>>
    BY <1>3, <2>1 DEF continueStart, Lifecycle
  <2>3. \A i \in Names : processes[i] = None
    BY <2>2 DEF Hand, DownIsEmpty
  <2>4. StartSet' = StartSet /\ StartSet \subseteq Names
    BY <2>2, SetTypes DEF StartSet, InstancesOf
  <2>5. HandAt' /\ DownIsEmpty' /\ Kept'
    BY <2>2, <2>3 DEF Hand, HandAt, DownIsEmpty, Kept
  <2>6. UpIsLive'
    BY <2>2 DEF Hand, UpIsLive, Live
  <2>7. SpawnsAll'
    BY <2>2, <2>3, <2>4 DEF SpawnsAll
  <2> QED BY <2>5, <2>6, <2>7 DEF Hand
<1> QED BY <1>1, <1>2, <1>3

LEMMA HandSpawnAll ==
    ASSUME TypeOK, Hand, spawnAll
    PROVE  Hand'
<1>1. PICK i \in todo :
        \/ \E p \in Pids, k \in Slots :
             /\ CanSpawn(i, p, k)
             /\ tab' = [tab EXCEPT ![p] = Spawned(i, k, FALSE)]
             /\ processes' = [processes EXCEPT ![i] = p]
             /\ todo' = todo \ {i}
             /\ UNCHANGED <<state, retiring, pc>>
        \/ FailStart /\ todo' = {} /\ pc' = "idle"
  BY DEF spawnAll
<1>2. UNCHANGED <<spec, held, roll, job>> /\ pc = "spawn"
  BY DEF spawnAll
<1>3. i \in Names /\ processes[i] = None /\ state \in {"running", "starting"}
  BY <1>2 DEF TypeOK, Hand, HandAt, SpawnsAll
<1>4. CASE FailStart /\ todo' = {} /\ pc' = "idle"
  BY <1>2, <1>4, HandFailStart
<1>5. ASSUME NEW p \in Pids, NEW k \in Slots, CanSpawn(i, p, k),
             tab' = [tab EXCEPT ![p] = Spawned(i, k, FALSE)],
             processes' = [processes EXCEPT ![i] = p],
             todo' = todo \ {i},
             UNCHANGED <<state, retiring, pc>>
      PROVE  Hand'
  <2>1. tab[p] = NoProcess
    BY <1>5 DEF CanSpawn
  <2>2. tab'[p] = Spawned(i, k, FALSE) /\ \A q \in Pids \ {p} : tab'[q] = tab[q]
    BY <1>5 DEF TypeOK
  <2>3. \A q \in Pids \ {p} : /\ tab'[q].os = "up" => tab[q].os = "up"
                              /\ Follows(tab[q], tab'[q]) \/ tab[q].inst = i
    BY <2>2 DEF Follows
  <2>4. UNCHANGED <<spec, state, retiring, roll, job>> /\ held' \in {held, held \ {i}}
    BY <1>2, <1>5
  <2>5. todo' \in {todo, todo \ {i}} /\ pc \in {"idle", "pstart", "spawn"}
    BY <1>2, <1>5
  <2>6. pc = "spawn" => pc' = pc /\ todo' = todo \ {i}
    BY <1>5
  <2>7. pc # "spawn" => pc' = pc \/ (pc' = "idle" /\ todo' = {})
    BY <1>2
  <2>8. processes' = [processes EXCEPT ![i] = p]
    BY <1>5
  <2> QED BY ONLY TypeOK, Hand, <1>3, <2>1, <2>2, <2>3, <2>4, <2>5, <2>6, <2>7, <2>8, HandSpawns
<1> QED BY <1>1, <1>4, <1>5

LEMMA HandSpawnedAll ==
    ASSUME TypeOK, Hand, spawnedAll
    PROVE  Hand'
<1>1. /\ pc = "spawn" /\ todo = {} /\ pc' = "idle"
      /\ state' \in {state, "running"}
      /\ UNCHANGED <<spec, processes, held, retiring, roll, job>>
  BY DEF spawnedAll
<1>2. \A p \in Pids : tab'[p].os = tab[p].os
  BY DEF spawnedAll, TypeOK, ProcessType
<1>3. state = "starting"
  BY <1>1 DEF Hand, HandAt
<1>4. HandAt' /\ DownIsEmpty' /\ SpawnsAll'
  BY <1>1, <1>3 DEF Hand, HandAt, DownIsEmpty, SpawnsAll
<1>5. UpIsLive'
  BY <1>1, <1>2 DEF Hand, UpIsLive, Live
<1>6. \A i \in StartSet : processes[i] # None
  BY <1>1 DEF Hand, SpawnsAll
<1>7. Kept'
  <2> SUFFICES ASSUME NEW i \in Names, Due(i)' PROVE processes'[i] # None
    BY DEF Kept
  <2>1. wanted(i) /\ Proc(i) \in spec.cmds
    BY <1>1 DEF Due, wanted, InstancesOf
  <2>2. i \in StartSet
    BY <2>1 DEF StartSet, wanted
  <2> QED BY <1>1, <1>6, <2>2
<1> QED BY <1>4, <1>5, <1>7 DEF Hand

LEMMA HandStartProcess ==
    ASSUME TypeOK, Hand, startProcess
    PROVE  Hand'
<1>1. /\ pc = "pstart" /\ state \in {"running", "starting"}
      /\ pc' = IF todo' = {} THEN "idle" ELSE pc
      /\ UNCHANGED <<spec, roll, job>>
  BY DEF startProcess, Hand, HandAt
<1>2. PICK i \in todo :
        /\ held' = held \ {i}
        /\ \/ /\ processes[i] # None
              /\ todo' = todo \ {i}
              /\ UNCHANGED <<state, processes, retiring, failures, tab>>
           \/ /\ processes[i] = None
              /\ \/ \E p \in Pids, k \in Slots :
                      /\ CanSpawn(i, p, k)
                      /\ tab' = [tab EXCEPT ![p] = Spawned(i, k, IsWeb(i))]
                      /\ processes' = [processes EXCEPT ![i] = p]
                      /\ todo' = todo \ {i}
                      /\ UNCHANGED <<state, retiring>>
                 \/ FailStart /\ todo' = {}
  BY DEF startProcess
<1>3. i \in Names
  BY DEF TypeOK
<1>4. CASE processes[i] # None /\ todo' = todo \ {i} /\ UNCHANGED <<state, processes, retiring, failures, tab>>
  <2>1. HandAt' /\ DownIsEmpty' /\ SpawnsAll'
    BY <1>1, <1>4 DEF Hand, HandAt, DownIsEmpty, SpawnsAll
  <2>2. UpIsLive'
    BY <1>4 DEF Hand, UpIsLive, Live
  <2>3. Kept'
    <3> SUFFICES ASSUME NEW j \in Names, Due(j)', j \notin held', ~ (pc' = "pstart" /\ j \in todo')
                 PROVE  processes'[j] # None \/ Timed(j)'
      BY DEF Kept
    <3>1. CASE j = i
      BY <1>4, <3>1
    <3>2. CASE j # i
      <4>1. Due(j) /\ j \notin held
        BY <1>1, <1>2, <3>2 DEF Due, wanted, InstancesOf
      <4>2. j \notin todo
        BY <1>1, <1>4, <3>2
      <4>3. processes[j] # None \/ Timed(j)
        BY <1>1, <4>1, <4>2 DEF Hand, Kept
      <4> QED BY <1>4, <4>3 DEF Timed
    <3> QED BY <3>1, <3>2
  <2> QED BY <2>1, <2>2, <2>3 DEF Hand
<1>5. CASE FailStart /\ todo' = {}
  BY <1>1, <1>5, HandFailStart
<1>6. ASSUME NEW p \in Pids, NEW k \in Slots, CanSpawn(i, p, k), processes[i] = None,
             tab' = [tab EXCEPT ![p] = Spawned(i, k, IsWeb(i))],
             processes' = [processes EXCEPT ![i] = p],
             todo' = todo \ {i},
             UNCHANGED <<state, retiring>>
      PROVE  Hand'
  <2>1. tab[p] = NoProcess
    BY <1>6 DEF CanSpawn
  <2>2. tab'[p] = Spawned(i, k, IsWeb(i)) /\ \A q \in Pids \ {p} : tab'[q] = tab[q]
    BY <1>6 DEF TypeOK
  <2>3. \A q \in Pids \ {p} : /\ tab'[q].os = "up" => tab[q].os = "up"
                              /\ Follows(tab[q], tab'[q]) \/ tab[q].inst = i
    BY <2>2 DEF Follows
  <2>4. pc' = pc \/ (pc' = "idle" /\ todo' = {})
    BY <1>1
  <2>5. UNCHANGED <<spec, state, retiring, roll, job>> /\ held' \in {held, held \ {i}}
    BY <1>1, <1>2, <1>6
  <2>6. todo' \in {todo, todo \ {i}} /\ pc \in {"idle", "pstart", "spawn"}
    BY <1>1, <1>6
  <2>7. pc = "spawn" => pc' = pc /\ todo' = todo \ {i}
    BY <1>1
  <2>8. processes[i] = None /\ processes' = [processes EXCEPT ![i] = p]
    BY <1>6
  <2>9. state \in {"running", "starting"} /\ (pc # "spawn" => pc' = pc \/ (pc' = "idle" /\ todo' = {}))
    BY <1>1, <2>4
  <2> QED BY ONLY TypeOK, Hand, <1>3, <2>1, <2>2, <2>3, <2>5, <2>6, <2>7, <2>8, <2>9, HandSpawns
<1> QED BY <1>2, <1>4, <1>5, <1>6

LEMMA HandContinue ==
    ASSUME TypeOK, Hand, ByHand, Continue
    PROVE  Hand'
<1>1. ~runRoll /\ ~planRoll /\ ~advanceRoll /\ ~abortRoll /\ ~finishRoll
  BY DEF Hand, HandAt, runRoll, planRoll, advanceRoll, abortRoll, finishRoll
<1> QED BY <1>1, HandStart, HandSpawnAll, HandSpawnedAll, HandStartProcess DEF Continue

(* A timer fires for an instance that needs it no longer.                  *)
LEMMA HandForgets ==
    ASSUME TypeOK, Hand, pc = "idle", NEW p \in Pids, ~Replaceable(tab[p].inst),
           tab' = [tab EXCEPT ![p] = Collect([@ EXCEPT !.timer = FALSE])],
           UNCHANGED <<spec, state, processes, held, retiring, roll, job, pc, todo>>
    PROVE  Hand'
<1>1. tab[p] \in ProcessType /\ \A q \in Pids \ {p} : tab'[q] = tab[q]
  BY DEF TypeOK
<1>2. tab'[p] = Collect([tab[p] EXCEPT !.timer = FALSE])
  BY DEF TypeOK
<1>3. tab'[p].os = "up" => tab[p].os = "up"
  BY <1>1, <1>2 DEF Collect, NoProcess, ProcessType
<1>4. HandAt' /\ DownIsEmpty' /\ SpawnsAll'
  BY DEF Hand, HandAt, DownIsEmpty, SpawnsAll
<1>5. UpIsLive'
  BY <1>1, <1>3 DEF Hand, UpIsLive, Live
<1>6. Kept'
  <2> SUFFICES ASSUME state \in {"running", "starting"}, NEW j \in Names, Due(j)', j \notin held
               PROVE  processes[j] # None \/ Timed(j)'
    BY DEF Kept
  <2>1. Due(j)
    BY DEF Due, wanted, InstancesOf
  <2>2. processes[j] # None \/ Timed(j)
    BY <2>1 DEF Hand, Kept
  <2>3. ASSUME NEW q \in Pids, tab[q].timer, tab[q].inst = j PROVE processes[j] # None \/ Timed(j)'
    <3>1. CASE q = p
      BY <2>1, <2>3, <3>1 DEF Replaceable, Due
    <3>2. CASE q # p
      BY <1>1, <2>3, <3>2 DEF Timed
    <3> QED BY <3>1, <3>2
  <2> QED BY <2>2, <2>3 DEF Timed
<1> QED BY <1>4, <1>5, <1>6 DEF Hand

LEMMA HandRestartDue ==
    ASSUME TypeOK, Named, Hand, NEW p \in Pids, RestartDue(p)
    PROVE  Hand'
<1> DEFINE i == tab[p].inst
           after == [tab EXCEPT ![p] = Collect([@ EXCEPT !.timer = FALSE])]
<1>1. /\ pc = "idle" /\ tab[p].timer
      /\ UNCHANGED <<spec, held, roll, job, pc, todo>>
  BY DEF RestartDue
<1>2. tab[p] \in ProcessType /\ i \in Names
  BY <1>1 DEF TypeOK, Named, NoProcess
<1>3. after \in [Pids -> ProcessType] /\ \A q \in Pids \ {p} : after[q] = tab[q]
  <2>1. [tab[p] EXCEPT !.timer = FALSE] \in ProcessType
    BY <1>2 DEF ProcessType
  <2>2. Collect([tab[p] EXCEPT !.timer = FALSE]) \in ProcessType
    BY <2>1, HelperTypes
  <2> QED BY <2>2 DEF TypeOK
<1>4. after[p].os = "up" => tab[p].os = "up"
  <2>1. after[p] = Collect([tab[p] EXCEPT !.timer = FALSE])
    BY DEF TypeOK
  <2> QED BY <1>2, <2>1 DEF Collect, NoProcess, ProcessType
<1>5. \/ /\ ~Replaceable(i)
         /\ tab' = after
         /\ UNCHANGED <<state, processes, retiring>>
      \/ /\ Replaceable(i)
         /\ \E q \in Pids \ {p}, k \in Slots :
              /\ CanSpawn(i, q, k)
              /\ tab' = [after EXCEPT ![q] = Spawned(i, k, IsWeb(i))]
              /\ processes' = [processes EXCEPT ![i] = q]
         /\ UNCHANGED <<state, retiring>>
      \/ /\ tab' = [q \in Pids |-> IF q \in Live \cup retiring
                                   THEN Released(Killed(after[q])) ELSE after[q]]
         /\ processes' = [n \in Names |-> None]
         /\ retiring' = {}
         /\ state' = "crashed"
  BY Zenon DEF RestartDue
<1>6. CASE ~Replaceable(i) /\ tab' = after /\ UNCHANGED <<state, processes, retiring>>
  BY <1>1, <1>6, HandForgets
<1>7. ASSUME Replaceable(i), NEW q \in Pids \ {p}, NEW k \in Slots, CanSpawn(i, q, k),
             tab' = [after EXCEPT ![q] = Spawned(i, k, IsWeb(i))],
             processes' = [processes EXCEPT ![i] = q],
             UNCHANGED <<state, retiring>>
      PROVE  Hand'
  <2>1. tab[q] = NoProcess
    BY <1>7 DEF CanSpawn
  <2>2. tab'[q] = Spawned(i, k, IsWeb(i)) /\ \A x \in Pids \ {q} : tab'[x] = after[x]
    BY <1>3, <1>7
  <2> HIDE DEF after
  <2>3. \A x \in Pids \ {q} : /\ tab'[x].os = "up" => tab[x].os = "up"
                              /\ Follows(tab[x], tab'[x]) \/ tab[x].inst = i
    BY <1>3, <1>4, <2>2 DEF Follows
  <2>4. processes[i] = None /\ state \in {"running", "starting"}
    BY <1>7 DEF Replaceable
  <2> HIDE DEF i
  <2> QED BY <1>1, <1>2, <1>7, <2>1, <2>2, <2>3, <2>4, HandSpawns
<1>8. ASSUME tab' = [q \in Pids |-> IF q \in Live \cup retiring
                                  THEN Released(Killed(after[q])) ELSE after[q]],
             processes' = [n \in Names |-> None],
             retiring' = {},
             state' = "crashed"
      PROVE  Hand'
  <2> HIDE DEF after
  <2> DEFINE S == Live \cup retiring
  <2>1. Live \subseteq S /\ \A q \in Pids \ S : after[q].os = "up" => tab[q].os = "up"
    BY <1>3, <1>4
  <2>2. tab' = [q \in Pids |-> IF q \in S THEN Released(Killed(after[q])) ELSE after[q]]
    BY <1>8
  <2>3. /\ \A n \in Names : processes'[n] = None
        /\ roll' = NoRoll /\ job' = [s \in Lifecycle |-> "idle"] /\ pc' = "idle"
    BY <1>1, <1>8 DEF Hand, HandAt
  <2> HIDE DEF S
  <2> QED BY <1>3, <1>8, <2>1, <2>2, <2>3, HandFalls
<1> QED BY <1>5, <1>6, <1>7, <1>8

(* A live process has exited.                                              *)
LEMMA HandExited ==
    ASSUME TypeOK, Table, Hand, ByHand, pc = "idle", NEW p \in Pids, p \in Live,
           tab[p].os = "dead", NEW long \in BOOLEAN, processExited(p, long),
           UNCHANGED <<spec, held, roll, job, pc, todo>>
    PROVE  Hand'
<1> DEFINE i == tab[p].inst
           idle == state = "stopped" \/ i \in held
           again == ~idle /\ shouldRestart(p)
           gone == [processes EXCEPT ![i] = None]
           base  == IF long THEN 0 ELSE failures[i]
           count == IF base < MaxRestarts[Proc(i)] THEN base + 1 ELSE base
           over == again /\ count >= MaxRestarts[Proc(i)]
           last == IsWeb(i) /\ ~webServing(Proc(i), gone, ready \ {i})
           x == [tab[p] EXCEPT !.exitEv = FALSE, !.timer = again /\ ~over]
           away == Released(x)
<1>1. i \in Names /\ processes[i] = p /\ p # None
  BY DEF Table, LiveOK, Live
<1>2. state \in {"running", "starting"}
  BY <1>1 DEF TypeOK, Hand, DownIsEmpty
<1>3. tab \in [Pids -> ProcessType] /\ tab[p] \in ProcessType
  BY DEF TypeOK
<1>4. x \in ProcessType /\ x.os = "dead" /\ x.inst = i /\ x.timer = (again /\ ~over)
  <2>1. \A e, t \in BOOLEAN : LET r == [tab[p] EXCEPT !.exitEv = e, !.timer = t]
                              IN  r \in ProcessType /\ r.os = "dead" /\ r.inst = i /\ r.timer = t
    BY <1>3 DEF ProcessType
  <2>2. (again /\ ~over) \in BOOLEAN
    OBVIOUS
  <2> HIDE DEF again, over, i
  <2> QED BY <2>1, <2>2
<1> HIDE DEF x
<1>5. away.os # "up" /\ (again /\ ~over => away.timer /\ away.inst = i)
  BY <1>4, ReleasedFollows DEF Follows
<1>6. CASE over
  <2>1. /\ tab' = [KillAndRelease((Live \cup retiring) \ {p}) EXCEPT ![p] = away]
        /\ processes' = [n \in Names |-> None]
        /\ retiring' = {} /\ state' = "crashed"
    BY <1>6 DEF processExited, x
  <2> DEFINE S == Live \cup retiring
             f == [tab EXCEPT ![p] = x]
  <2>2. f \in [Pids -> ProcessType] /\ f[p] = x /\ \A q \in Pids \ {p} : f[q] = tab[q]
    BY <1>3, <1>4
  <2>3. Killed(x) = x
    BY <1>4 DEF Killed
  <2>4. p \in S /\ Live \subseteq S
    OBVIOUS
  <2>5. tab' = [q \in Pids |-> IF q = p THEN away
                              ELSE IF q \in S \ {p} THEN Released(Killed(tab[q])) ELSE tab[q]]
    BY <2>1 DEF KillAndRelease
  <2> HIDE DEF f, S
  <2>6. tab' = [q \in Pids |-> IF q \in S THEN Released(Killed(f[q])) ELSE f[q]]
    BY <2>2, <2>3, <2>4, <2>5
  <2>7. \A q \in Pids \ S : f[q].os = "up" => tab[q].os = "up"
    BY <2>2, <2>4
  <2>8. roll' = NoRoll /\ job' = [s \in Lifecycle |-> "idle"] /\ pc' = "idle"
    BY DEF Hand, HandAt
  <2> QED BY <2>1, <2>2, <2>4, <2>6, <2>7, <2>8, HandFalls
<1>7. CASE ~over
  <2>1. /\ tab' = [tab EXCEPT ![p] = away]
        /\ processes' = gone
        /\ UNCHANGED retiring
        /\ state' = IF idle THEN state
                    ELSE IF again THEN (IF last THEN "starting" ELSE state)
                    ELSE IF IsWeb(i) THEN (IF last THEN "crashed" ELSE state)
                    ELSE IF \A n \in Names : gone[n] = None THEN "stopped" ELSE state
    BY <1>7 DEF processExited, x
  <2>2. /\ tab'[p] = away /\ \A q \in Pids \ {p} : tab'[q] = tab[q]
        /\ processes'[i] = None /\ \A j \in Names \ {i} : processes'[j] = processes[j]
    BY <1>1, <1>3, <2>1 DEF TypeOK
  <2>3. \/ state' \in {"running", "starting"}
        \/ state' = "stopped" /\ \A n \in Names : processes'[n] = None
    <3>1. IsWeb(i) /\ ~idle => again
      BY DEF ByHand, IsWeb, shouldRestart
    <3> HIDE DEF idle, again, last, gone
    <3> QED BY <1>2, <2>1, <3>1
  <2>4. UpIsLive'
    <3> SUFFICES ASSUME NEW q \in Pids, tab'[q].os = "up" PROVE q \in Live'
      BY DEF UpIsLive
    <3>1. q # p /\ tab[q].os = "up"
      BY <1>5, <2>2
    <3>2. PICK j \in Names : processes[j] = q /\ q # None
      BY <3>1 DEF Hand, UpIsLive, Live
    <3>3. processes'[j] = q
      BY <1>1, <2>2, <3>1, <3>2
    <3> QED BY <3>2, <3>3 DEF Live
  <2>5. HandAt' /\ DownIsEmpty' /\ SpawnsAll'
    BY <2>1, <2>3 DEF Hand, HandAt, DownIsEmpty, SpawnsAll
  <2>6. Kept'
    <3> SUFFICES ASSUME state' \in {"running", "starting"}, NEW j \in Names, Due(j)', j \notin held
                 PROVE  processes'[j] # None \/ Timed(j)'
      BY DEF Kept
    <3>1. Due(j)
      BY DEF Due, wanted, InstancesOf
    <3>2. CASE j = i
      <4>1. again
        BY <1>2, <3>1, <3>2 DEF Due, shouldRestart
      <4> HIDE DEF again, over, i, away
      <4> QED BY <1>5, <1>7, <2>2, <3>2, <4>1 DEF Timed
    <3>3. CASE j # i
      <4>1. processes[j] # None \/ Timed(j)
        BY <1>2, <3>1 DEF Hand, Kept
      <4>2. Timed(j) => Timed(j)'
        BY <2>2, <3>3 DEF Timed
      <4> QED BY <2>2, <3>3, <4>1, <4>2
    <3> QED BY <3>2, <3>3
  <2> QED BY <2>4, <2>5, <2>6 DEF Hand
<1> QED BY <1>6, <1>7

LEMMA HandExit ==
    ASSUME TypeOK, Table, Hand, ByHand, NEW p \in Pids, Exit(p)
    PROVE  Hand'
<1>1. /\ pc = "idle" /\ tab[p].os = "dead" /\ roll = NoRoll /\ roll.current # p
      /\ UNCHANGED <<spec, held, job, todo>>
  BY NamesAssumption DEF Exit, Hand, HandAt, NoRoll
<1>2. CASE p \in Live
  BY <1>1, <1>2, HandExited DEF Exit
<1>3. CASE p \notin Live
  <2>1. /\ tab' = [tab EXCEPT ![p] = Collect([@ EXCEPT !.exitEv = FALSE])]
        /\ UNCHANGED <<state, processes, retiring, roll, pc>>
    BY <1>1, <1>3 DEF Exit
  <2>2. \A q \in Pids : Follows(tab[q], tab'[q])
    <3>1. tab \in [Pids -> ProcessType]
      BY DEF TypeOK
    <3>2. [tab[p] EXCEPT !.exitEv = FALSE] \in ProcessType
      BY <3>1 DEF ProcessType
    <3>3. Follows(tab[p], Collect([tab[p] EXCEPT !.exitEv = FALSE]))
      BY <3>1, <3>2, CollectFollows, FieldsFollow DEF Follows
    <3> QED BY <2>1, <3>1, <3>3, CollectFollows
  <2> QED BY <1>1, <2>1, <2>2, HandTouches
<1> QED BY <1>2, <1>3

LEMMA HandRetired ==
    ASSUME TypeOK, Hand, NEW p \in Pids, Retired(p)
    PROVE  Hand'
<1>1. /\ tab' = [tab EXCEPT ![p] = Released([@ EXCEPT !.drain = FALSE])]
      /\ retiring' = retiring \ {p} /\ roll' = roll /\ pc = "idle" /\ pc' = "idle"
      /\ UNCHANGED <<state, processes, spec, held, job, todo>>
  BY DEF Retired, Hand, HandAt, NoRoll
<1>2. retiring' = retiring
  BY <1>1 DEF Hand, HandAt
<1>3. tab \in [Pids -> ProcessType]
  BY DEF TypeOK
<1>4. Follows(tab[p], Released([tab[p] EXCEPT !.drain = FALSE]))
  <2>1. [tab[p] EXCEPT !.drain = FALSE] \in ProcessType
    BY <1>3 DEF ProcessType
  <2>2. Follows(tab[p], [tab[p] EXCEPT !.drain = FALSE])
    BY <1>3 DEF Follows, ProcessType
  <2> QED BY <2>1, <2>2, ReleasedFollows DEF Follows
<1>5. \A q \in Pids : Follows(tab[q], tab'[q])
  BY <1>1, <1>3, <1>4, CollectFollows
<1> QED BY <1>1, <1>2, <1>5, HandTouches

LEMMA HandReady ==
    ASSUME TypeOK, Hand, NEW p \in Pids, Ready(p) \/ HealthFailed(p)
    PROVE  Hand'
<1>1. roll.current # p /\ pc = "idle"
  BY NamesAssumption DEF Hand, HandAt, NoRoll, Ready, HealthFailed
<1>2. tab \in [Pids -> ProcessType]
  BY DEF TypeOK
<1>3. CASE Ready(p)
  <2>1. /\ UNCHANGED <<spec, processes, held, retiring, roll, job, pc, todo>>
        /\ state' = state \/ (state = "starting" /\ state' = "running")
        /\ \/ tab' = [tab EXCEPT ![p].mon = "live"]
           \/ tab' = [tab EXCEPT ![p] =
                Collect([@ EXCEPT !.mon = IF tab[p].released THEN "off" ELSE "live"])]
    BY <1>1, <1>3 DEF Ready
  <2>2. \A m \in {"off", "live"} : /\ [tab[p] EXCEPT !.mon = m] \in ProcessType
                                   /\ Follows(tab[p], [tab[p] EXCEPT !.mon = m])
    BY <1>2 DEF Follows, ProcessType
  <2>3. \A m \in {"off", "live"} : Follows(tab[p], Collect([tab[p] EXCEPT !.mon = m]))
    BY <2>2, CollectFollows DEF Follows
  <2>4. \A q \in Pids : Follows(tab[q], tab'[q])
    <3>1. \A q \in Pids : Follows(tab[q], tab[q])
      BY <1>2, CollectFollows
    <3> QED BY <1>2, <2>1, <2>2, <2>3, <3>1
  <2> QED BY <1>1, <2>1, <2>4, HandTouches
<1>4. CASE HealthFailed(p)
  <2>1. UNCHANGED <<state, spec, processes, held, retiring, roll, job, pc, todo>>
    BY <1>4 DEF HealthFailed
  <2>2. \E r \in {Killed([tab[p] EXCEPT !.mon = "off"]), Collect([tab[p] EXCEPT !.mon = "off"])} :
           tab' = [tab EXCEPT ![p] = r]
    BY <1>4 DEF HealthFailed
  <2>3. [tab[p] EXCEPT !.mon = "off"] \in ProcessType /\ Follows(tab[p], [tab[p] EXCEPT !.mon = "off"])
    BY <1>2 DEF Follows, ProcessType
  <2>4. \A r \in {Killed([tab[p] EXCEPT !.mon = "off"]), Collect([tab[p] EXCEPT !.mon = "off"])} :
           Follows(tab[p], r)
    <3> DEFINE x == [tab[p] EXCEPT !.mon = "off"]
    <3>1. x \in ProcessType /\ Follows(tab[p], x)
      BY <2>3
    <3> HIDE DEF x
    <3>2. Follows(x, Killed(x)) /\ Follows(x, Collect(x))
      BY <3>1, CollectFollows, KilledFollows
    <3>3. Follows(tab[p], Killed(x)) /\ Follows(tab[p], Collect(x))
      BY <3>1, <3>2 DEF Follows
    <3> QED BY <3>3 DEF x
  <2>5. \A q \in Pids : Follows(tab[q], tab[q])
    BY <1>2, CollectFollows
  <2>6. \A q \in Pids : Follows(tab[q], tab'[q])
    BY <1>2, <2>2, <2>4, <2>5
  <2> QED BY <1>1, <2>1, <2>6, HandTouches
<1> QED BY <1>3, <1>4

LEMMA HandEvent ==
    ASSUME TypeOK, Table, Hand, ByHand, Event
    PROVE  Hand'
<1>1. \A s \in Lifecycle : ~StepExit(s)
  BY DEF StepExit, Hand, HandAt
<1> QED BY <1>1, HandReady, HandExit, HandRestartDue, HandRetired DEF Event, Table

LEMMA HandWorld ==
    ASSUME TypeOK, Hand, World
    PROVE  Hand'
<1>1. \A s \in Lifecycle : ~JobExit(s)
  BY DEF JobExit, Hand, HandAt
<1>2. PICK p \in Pids : Die(p) \/ RetireKill(p) \/ Probe(p) \/ Unhealthy(p)
  BY <1>1 DEF World
<1>3. /\ UNCHANGED <<state, spec, processes, held, retiring, roll, job, pc, todo>>
      /\ pc = "idle"
  BY <1>2 DEF Die, RetireKill, Probe, Unhealthy
<1>4. tab \in [Pids -> ProcessType]
  BY DEF TypeOK
<1>5. \A q \in Pids : Follows(tab[q], tab[q])
  BY <1>4, CollectFollows
<1>6. CASE Die(p)
  <2>1. PICK c \in {"ok", "err"} : tab' = [tab EXCEPT ![p].os = "dead", ![p].code = c]
    BY <1>6 DEF Die
  <2>2. \A q \in Pids : Follows(tab[q], tab'[q])
    BY <1>4, <1>5, <2>1 DEF Follows, ProcessType
  <2> QED BY <1>3, <2>2, HandTouches
<1>7. CASE RetireKill(p)
  <2>1. \A q \in Pids : Follows(tab[q], tab'[q])
    BY <1>4, <1>5, <1>7, KilledFollows DEF RetireKill
  <2> QED BY <1>3, <2>1, HandTouches
<1>8. CASE Probe(p) \/ Unhealthy(p)
  <2>1. \E m \in {"ready", "fail"} : tab' = [tab EXCEPT ![p].mon = m]
    BY <1>8 DEF Probe, Unhealthy
  <2>2. \A q \in Pids : Follows(tab[q], tab'[q])
    BY <1>4, <1>5, <2>1 DEF Follows, ProcessType
  <2> QED BY <1>3, <2>2, HandTouches
<1> QED BY <1>2, <1>6, <1>7, <1>8

LEMMA HandNext ==
    ASSUME TypeOK, Table, ByHand => Hand, [Next]_vars
    PROVE  (ByHand => Hand)'
<1> SUFFICES ASSUME ByHand' PROVE Hand'
  OBVIOUS
<1>1. CASE UNCHANGED vars
  BY <1>1 DEF vars, ByHand, Hand, HandAt, UpIsLive, Live, DownIsEmpty, SpawnsAll, StartSet,
              InstancesOf, Kept, Due, wanted, Timed
<1>2. CASE Next
  <2>1. spec' = spec \/ \E s \in Updates[spec] : ReqUpdate(s)
    BY <1>2 DEF Next, Request, Continue, Event, World, ReqStart, ReqStop, ReqRestart,
         ReqProcessStart, ReqProcessStop, ReqProcessRestart, beginRoll, start, continueStart,
         spawnAll, spawnedAll, startProcess, runRoll, planRoll, advanceRoll, abortRoll, finishRoll,
         StepExit, Ready, HealthFailed, Exit, RestartDue, Retired, Die, RetireKill, Probe,
         Unhealthy, JobExit
  <2>2. spec' = spec
    BY <2>1, HandSpec DEF ReqUpdate
  <2>3. ByHand
    BY <2>2 DEF ByHand
  <2> QED BY <1>2, <2>3, HandRequest, HandContinue, HandEvent, HandWorld DEF Next
<1> QED BY <1>1, <1>2

LEMMA HandInit == Init => Hand
<1> SUFFICES ASSUME Init PROVE Hand
  OBVIOUS
<1>1. HandAt /\ SpawnsAll /\ Kept
  BY DEF Init, HandAt, SpawnsAll, Kept
<1>2. DownIsEmpty
  BY DEF Init, DownIsEmpty
<1>3. UpIsLive
  BY DEF Init, UpIsLive, NoProcess
<1> QED BY <1>1, <1>2, <1>3 DEF Hand

(* In an app handled by hand nothing that should run is forgotten: it is   *)
(* up, or its restart timer runs (process.go processExited, runtime.go     *)
(* startProcess, stopProcess).                                             *)
THEOREM NothingForgotten == Spec => []SupervisedByHand
<1> DEFINE I == TypeOK /\ Table /\ (ByHand => Hand)
<1>1. Init => I
  BY TypeInit, TableInit, HandInit
<1>2. I /\ [Next]_vars => I'
  BY TypeNext, TableNext, HandNext DEF Table
<1>3. I => SupervisedByHand
  <2> SUFFICES ASSUME Hand PROVE Supervised
    BY DEF SupervisedByHand
  <2> QED BY DEF Hand, Kept, Supervised, PendingStart, Due, Timed
<1> HIDE DEF I
<1> QED BY <1>1, <1>2, <1>3, PTL DEF Spec

(* ... and nothing of it is alive once it reads as stopped.                *)
THEOREM NothingLeftRunning == Spec => []StoppedByHand
<1> DEFINE I == TypeOK /\ Table /\ (ByHand => Hand)
<1>1. Init => I
  BY TypeInit, TableInit, HandInit
<1>2. I /\ [Next]_vars => I'
  BY TypeNext, TableNext, HandNext DEF Table
<1>3. I => StoppedByHand
  <2> SUFFICES ASSUME Hand PROVE NothingOutlivesStop
    BY DEF StoppedByHand
  <2> QED BY DEF Hand, UpIsLive, DownIsEmpty, Live, NothingOutlivesStop
<1> HIDE DEF I
<1> QED BY <1>1, <1>2, <1>3, PTL DEF Spec
=============================================================================
