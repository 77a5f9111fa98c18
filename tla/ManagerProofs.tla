---------------------------- MODULE ManagerProofs ----------------------------
(* Theorems about Manager, for every finite set of callers, every choice   *)
(* of the calls that are made and of what may go wrong.                    *)
EXTENDS Manager, FiniteSetTheorems, TLAPS

-----------------------------------------------------------------------------
(* The inductive invariant.                                                *)

(* Where a call can be.                                                    *)
Places(op) ==
    CASE op \in {"start", "wake"} -> {"lookup", "lock", "scan", "remove", "cancel",
                                      "closed", "retry", "call", "save"}
      [] op = "stop" -> {"lookup", "drain", "call", "save"}
      [] op = "restart" -> {"lookup", "roll", "rolling", "drain", "call", "save"}
      [] op = "destroy" -> {"lock", "lookup", "drain", "call", "clear", "unlist",
                            "cancel", "closed", "delete"}
      [] op = "rescan" -> {"lock", "scan", "remove", "cancel", "closed"}
      [] op = "idle" -> {"lookup", "call", "save"}
      [] op \in {"on", "off"} -> {"lookup", "call", "savemaint"}
      [] op = "boot" -> {"list", "lookup", "call"}
      [] op = "close" -> {"lookup", "call", "cancel", "closed"}
      [] OTHER -> {"none"}

(* A call that is past its lookup has a runtime in hand.                   *)
InHand == {"remove", "drain", "call", "roll", "rolling", "save", "savemaint",
           "clear", "unlist", "delete"}

(* Holding the rescan lock.                                                *)
Locked(c) ==
    \/ cs[c].op \in {"start", "wake", "rescan"} /\ cs[c].at \in {"scan", "remove", "cancel", "closed"}
    \/ cs[c].op = "destroy" /\ cs[c].at # "lock"

Placed ==
    \A c \in Callers :
        /\ cs[c].at \in Places(cs[c].op)
        /\ cs[c].at \in InHand => cs[c].r # None
        /\ cs[c].at \in {"cancel", "closed"} /\ cs[c].op # "close" => cs[c].r # None
        /\ lock = c <=> Locked(c)

(* Nothing but the files is there while the daemon is down.                *)
Down ==
    life = "down" =>
        /\ listed = None
        /\ \A r \in Runtimes : rt[r] = NoRuntime
        /\ \A c \in Callers : cs[c] = Away

(* Whoever takes an app off the table holds the lock until its goroutine   *)
(* has ended.                                                              *)
Leaving(c) == lock = c /\ cs[c].at \in {"remove", "cancel", "closed", "delete"}
Tabled ==
    /\ \A c \in Callers : Leaving(c) => listed = None
    /\ \A c \in Callers : lock = c /\ cs[c].op = "destroy" /\ cs[c].at \in {"drain", "call", "clear", "unlist"}
                          => listed = cs[c].r
    /\ \A r \in Runtimes : Accepts(r) =>
           listed = r \/ \E c \in Callers : Leaving(c) /\ cs[c].at # "delete" /\ cs[c].r = r

(* The one who drains is about to stop.                                    *)
Drained ==
    \A r \in Runtimes : rt[r].st = "open" /\ rt[r].draining =>
        \E c \in Callers : cs[c].r = r /\ cs[c].at = "call" /\ cs[c].op \in {"stop", "restart", "destroy"}

(* No other call about the same list overlaps one that is clean, and one   *)
(* that was told is over.                                                  *)
Alone ==
    /\ \A c, d \in Callers : cs[c].clean /\ c # d => Kinds(cs[c].op) \cap Kinds(cs[d].op) = {}
    /\ \A c \in Callers : /\ word.run # "unknown" /\ "run" \in Kinds(cs[c].op) => cs[c].op \in {"boot", "close"}
                          /\ word.maint # "unknown" => "maint" \notin Kinds(cs[c].op)

Quiet == \A r \in Runtimes : Accepts(r) => ~rt[r].run

(* What a clean call has reached already and may rely on.                  *)
Reached ==
    \A c \in Callers : cs[c].clean =>
        /\ cs[c].op \in {"stop", "idle"} /\ cs[c].at = "save" => Quiet
        /\ cs[c].op = "destroy" /\ cs[c].at \in {"clear", "unlist", "cancel", "closed", "delete"} => Quiet
        /\ cs[c].op = "destroy" /\ cs[c].at \in {"unlist", "cancel", "closed", "delete"} =>
             disk.running = "off" /\ ~disk.maint /\ ~disk.created
        /\ cs[c].at = "savemaint" /\ listed # None /\ Accepts(listed) =>
             rt[listed].maint = (cs[c].op = "on")

(* What was told holds, in memory too.                                     *)
Kept ==
    /\ word.run = "on" => disk.running = "on"
    /\ word.run = "off" =>
         /\ disk.running = "off" /\ Quiet
         /\ life # "down" => ~mem.desired
         /\ \A c \in Callers : cs[c].op = "boot" => cs[c].at = "list"
    /\ word.maint \in {"on", "off"} =>
         /\ disk.maint = (word.maint = "on")
         /\ life # "down" => mem.maint = (word.maint = "on")
         /\ listed # None /\ Accepts(listed) => rt[listed].maint = (word.maint = "on")
    /\ word.run = "gone" /\ word.maint = "gone" =>
         /\ ~disk.dir /\ disk.running = "off" /\ ~disk.maint /\ ~disk.created
         /\ \A r \in Runtimes : ~Accepts(r)

IInv == TypeOK /\ Placed /\ Down /\ Tabled /\ Drained /\ Alone /\ Reached /\ Kept

-----------------------------------------------------------------------------
(* Types, and what the operators of the steps change.                      *)

RuntimeType == [st : {"new", "open", "cancelled", "closed"}, run : BOOLEAN,
                draining : BOOLEAN, maint : BOOLEAN, created : BOOLEAN]
Spots == {"none", "lookup", "retry", "list", "lock", "scan", "remove", "drain", "call",
          "roll", "rolling", "save", "savemaint", "clear", "unlist", "cancel", "closed",
          "delete"}
CallType == [op : AllOps \cup {"none"}, at : Spots, r : Runtimes \cup {None}, clean : BOOLEAN]
WordType == [run : {"unknown", "on", "off", "gone"}, maint : {"unknown", "on", "off", "gone"}]
DiskType == [dir : BOOLEAN, running : {"absent", "on", "off"}, maint : BOOLEAN, created : BOOLEAN]
MemType == [desired : BOOLEAN, maint : BOOLEAN, created : BOOLEAN, booted : BOOLEAN]

Types ==
    /\ life \in {"down", "up", "closing"}
    /\ disk \in DiskType /\ mem \in MemType /\ word \in WordType
    /\ listed \in Runtimes \cup {None} /\ lock \in Callers \cup {None}
    /\ rt \in [Runtimes -> RuntimeType]
    /\ cs \in [Callers -> CallType]

LEMMA TypesOK == TypeOK <=> Types
BY DEF TypeOK, Types, RuntimeType, Spots, CallType, WordType, DiskType, MemType

LEMMA TypesOKNext == TypeOK' <=> Types'
BY DEF TypeOK, Types, RuntimeType, Spots, CallType, WordType, DiskType, MemType

LEMMA Nones == None \notin Runtimes /\ None \notin Callers
BY CallersAssumption

(* Which calls are about which list.                                       *)
LEMMA KindsOf ==
    ASSUME NEW op \in AllOps \cup {"none"}
    PROVE  /\ Kinds(op) \subseteq {"run", "maint"}
           /\ "run" \in Kinds(op) <=>
                op \in {"start", "wake", "stop", "restart", "idle", "boot", "close", "destroy"}
           /\ "maint" \in Kinds(op) <=> op \in {"on", "off", "destroy"}
BY DEF Kinds, AllOps

LEMMA GotoMoves ==
    ASSUME Types, NEW c \in Callers, NEW a \in Spots, Goto(c, a)
    PROVE  /\ cs' \in [Callers -> CallType]
           /\ cs'[c].op = cs[c].op /\ cs'[c].at = a /\ cs'[c].r = cs[c].r
           /\ cs'[c].clean = cs[c].clean
           /\ \A d \in Callers \ {c} : cs'[d] = cs[d]
<1>1. cs' = [cs EXCEPT ![c] = [cs[c] EXCEPT !.at = a]]
  BY DEF Goto
<1>2. \A k \in CallType : /\ [k EXCEPT !.at = a] \in CallType
                          /\ [k EXCEPT !.at = a].op = k.op
                          /\ [k EXCEPT !.at = a].at = a
                          /\ [k EXCEPT !.at = a].r = k.r
                          /\ [k EXCEPT !.at = a].clean = k.clean
  BY DEF CallType
<1> QED
  BY <1>1, <1>2 DEF Types

LEMMA AwayType == Away \in CallType /\ NoRuntime \in RuntimeType /\ NoMemory \in MemType
BY DEF Away, CallType, Spots, NoRuntime, RuntimeType, NoMemory, MemType

LEMMA ReturnMoves ==
    ASSUME Types, NEW c \in Callers, Return(c)
    PROVE  /\ cs' \in [Callers -> CallType]
           /\ cs'[c] = Away
           /\ \A d \in Callers \ {c} : cs'[d] = cs[d]
           /\ lock' = IF lock = c THEN None ELSE lock
BY AwayType DEF Types, Return

(* A request that is handled sets the flags it names and no others.        *)
Sets(r, b, d, m) ==
    /\ Accepts(r)
    /\ rt' \in [Runtimes -> RuntimeType]
    /\ \A s \in Runtimes : s # r => rt'[s] = rt[s]
    /\ \A s \in Runtimes : rt'[s].st = rt[s].st
    /\ rt'[r].run = b /\ rt'[r].draining = d /\ rt'[r].maint = m

LEMMA HandledSets ==
    ASSUME Types, NEW c \in Callers, NEW flags, Handled(c, flags), cs[c].r \in Runtimes,
           DOMAIN flags \subseteq {"run", "draining", "maint"},
           \A f \in DOMAIN flags : flags[f] \in BOOLEAN
    PROVE  Sets(cs[c].r,
                IF "run" \in DOMAIN flags THEN flags["run"] ELSE rt[cs[c].r].run,
                IF "draining" \in DOMAIN flags THEN flags["draining"] ELSE rt[cs[c].r].draining,
                IF "maint" \in DOMAIN flags THEN flags["maint"] ELSE rt[cs[c].r].maint)
<1> DEFINE new(x) == [f \in DOMAIN x |-> IF f \in DOMAIN flags THEN flags[f] ELSE x[f]]
<1>1. ASSUME NEW x \in RuntimeType
      PROVE  /\ new(x) \in RuntimeType
             /\ new(x).st = x.st
             /\ new(x).run = IF "run" \in DOMAIN flags THEN flags["run"] ELSE x.run
             /\ new(x).draining = IF "draining" \in DOMAIN flags THEN flags["draining"] ELSE x.draining
             /\ new(x).maint = IF "maint" \in DOMAIN flags THEN flags["maint"] ELSE x.maint
  BY <1>1 DEF RuntimeType
<1>2. rt' = [rt EXCEPT ![cs[c].r] = new(rt[cs[c].r])] /\ Accepts(cs[c].r)
  BY DEF Handled
<1> HIDE DEF new
<1> QED
  BY <1>1, <1>2 DEF Types, Sets

LEMMA HandledFlags ==
    ASSUME Types, NEW c \in Callers, NEW r \in Runtimes, r = cs[c].r, NEW b \in BOOLEAN,
           NEW d \in BOOLEAN
    PROVE  /\ Handled(c, [run |-> b]) => Sets(r, b, rt[r].draining, rt[r].maint)
           /\ Handled(c, [run |-> b, draining |-> d]) => Sets(r, b, d, rt[r].maint)
           /\ Handled(c, [draining |-> d]) => Sets(r, rt[r].run, d, rt[r].maint)
           /\ Handled(c, [maint |-> b]) => Sets(r, rt[r].run, rt[r].draining, b)
           /\ Handled(c, <<>>) => Sets(r, rt[r].run, rt[r].draining, rt[r].maint)
<1>1. ASSUME Handled(c, [run |-> b]) PROVE Sets(r, b, rt[r].draining, rt[r].maint)
  <2> DEFINE flags == [run |-> b]
  <2>1. /\ DOMAIN flags = {"run"} /\ flags["run"] = b
        /\ DOMAIN flags \subseteq {"run", "draining", "maint"}
        /\ \A f \in DOMAIN flags : flags[f] \in BOOLEAN
    OBVIOUS
  <2> HIDE DEF flags
  <2>2. Handled(c, flags)
    BY <1>1 DEF flags
  <2> QED
    BY <2>1, <2>2, HandledSets
<1>2. ASSUME Handled(c, [run |-> b, draining |-> d]) PROVE Sets(r, b, d, rt[r].maint)
  <2> DEFINE flags == [run |-> b, draining |-> d]
  <2>1. /\ DOMAIN flags = {"run", "draining"} /\ flags["run"] = b /\ flags["draining"] = d
        /\ DOMAIN flags \subseteq {"run", "draining", "maint"}
        /\ \A f \in DOMAIN flags : flags[f] \in BOOLEAN
    OBVIOUS
  <2> HIDE DEF flags
  <2>2. Handled(c, flags)
    BY <1>2 DEF flags
  <2> QED
    BY <2>1, <2>2, HandledSets
<1>3. ASSUME Handled(c, [draining |-> d]) PROVE Sets(r, rt[r].run, d, rt[r].maint)
  <2> DEFINE flags == [draining |-> d]
  <2>1. /\ DOMAIN flags = {"draining"} /\ flags["draining"] = d
        /\ DOMAIN flags \subseteq {"run", "draining", "maint"}
        /\ \A f \in DOMAIN flags : flags[f] \in BOOLEAN
    OBVIOUS
  <2> HIDE DEF flags
  <2>2. Handled(c, flags)
    BY <1>3 DEF flags
  <2> QED
    BY <2>1, <2>2, HandledSets
<1>4. ASSUME Handled(c, [maint |-> b]) PROVE Sets(r, rt[r].run, rt[r].draining, b)
  <2> DEFINE flags == [maint |-> b]
  <2>1. /\ DOMAIN flags = {"maint"} /\ flags["maint"] = b
        /\ DOMAIN flags \subseteq {"run", "draining", "maint"}
        /\ \A f \in DOMAIN flags : flags[f] \in BOOLEAN
    OBVIOUS
  <2> HIDE DEF flags
  <2>2. Handled(c, flags)
    BY <1>4 DEF flags
  <2> QED
    BY <2>1, <2>2, HandledSets
<1>5. ASSUME Handled(c, <<>>) PROVE Sets(r, rt[r].run, rt[r].draining, rt[r].maint)
  BY <1>5, HandledSets
<1> QED
  BY <1>1, <1>2, <1>3, <1>4, <1>5

(* What a request leaves when the goroutine is shut down, or nothing.      *)
LEMMA Untouched ==
    ASSUME Types, NEW r \in Runtimes, UNCHANGED rt
    PROVE  /\ rt' \in [Runtimes -> RuntimeType]
           /\ \A s \in Runtimes : rt'[s] = rt[s]
BY DEF Types

-----------------------------------------------------------------------------
(* One goroutine at a time: of two that take requests, one would be off    *)
(* the table, and whoever took it off would have waited for it.            *)
LEMMA OneAccepts ==
    ASSUME IInv, NEW r \in Runtimes, NEW s \in Runtimes, Accepts(r), Accepts(s)
    PROVE  r = s
BY Nones DEF IInv, Tabled, Leaving

-----------------------------------------------------------------------------
(* Most steps of a caller walk: the files, the lists and the table stay as *)
(* they are, the caller goes on or returns, and a request sets flags.      *)

(* What a request may do to the flags.                                     *)
Flags(c) ==
    /\ rt' \in [Runtimes -> RuntimeType]
    /\ \A r \in Runtimes :
          /\ rt'[r].st = rt[r].st
          /\ rt'[r].run => rt[r].run
                           \/ (cs[c].at = "call" /\ cs[c].op \in {"start", "wake", "boot", "restart"})
          /\ rt'[r].maint # rt[r].maint => cs[c].op \in {"on", "off"}
          /\ rt'[r].draining => \/ rt[r].draining
                                \/ /\ cs'[c].r = r /\ cs'[c].at = "call"
                                   /\ cs'[c].op \in {"stop", "restart", "destroy"}
          /\ cs[c].r = r /\ cs[c].at = "call" /\ cs[c].op \in {"stop", "restart", "destroy"}
                => rt[r].st # "open" \/ ~rt'[r].draining
          /\ cs'[c].r = r /\ ( \/ cs'[c].at = "save" /\ cs'[c].op \in {"stop", "idle"}
                              \/ cs'[c].at = "clear" )
                => Accepts(r) /\ ~rt'[r].run
          /\ cs'[c].r = r /\ cs'[c].at = "savemaint"
                => Accepts(r) /\ rt'[r].maint = (cs'[c].op = "on")

Leaves(c) ==
    /\ cs'[c] = Away
    /\ cs[c].at \in {"lookup", "retry", "list", "call", "roll", "rolling"}
    /\ lock' = IF lock = c THEN None ELSE lock

GoesOn(c) ==
    /\ cs'[c].op = cs[c].op /\ cs'[c].clean = cs[c].clean /\ lock' = lock
    /\ cs'[c].at \in Places(cs[c].op)
    /\ cs'[c].at \in InHand => cs'[c].r # None
    /\ Locked(c)' <=> Locked(c)
    /\ cs'[c].at \notin {"remove", "closed", "delete", "unlist"}
    /\ IF cs[c].op = "close" THEN cs[c].at # "remove" ELSE cs[c].at = "remove" <=> cs'[c].at = "cancel"
    /\ \/ cs'[c].r = cs[c].r /\ ~(cs[c].op = "destroy" /\ cs[c].at = "lookup")
       \/ cs'[c].r = listed /\ cs[c].at \in {"lookup", "retry"}
    /\ cs[c].op = "boot" /\ cs[c].at = "list" => mem.desired

Walk(c) ==
    /\ UNCHANGED <<life, disk, mem, listed, word>>
    /\ cs[c].op # "none" /\ cs[c].at \notin {"cancel", "closed", "delete"}
    /\ cs' \in [Callers -> CallType] /\ \A d \in Callers \ {c} : cs'[d] = cs[d]
    /\ Leaves(c) \/ GoesOn(c)
    /\ Flags(c)

LEMMA WalkInv ==
    ASSUME IInv, NEW c \in Callers, Walk(c)
    PROVE  IInv'
<1>1. Types
  BY TypesOK DEF IInv
<1>2. Types'
  <2>1. lock' \in Callers \cup {None}
    BY <1>1 DEF Types, Walk, Leaves, GoesOn, Flags
  <2> QED
    BY <1>1, <2>1 DEF Types, Walk, Leaves, GoesOn, Flags
<1>w. Leaves(c) \/ GoesOn(c)
  BY DEF Walk
<1>o. \A d \in Callers \ {c} : cs'[d] = cs[d] /\ (lock' = d <=> lock = d)
  BY <1>w, Nones DEF Walk, Leaves, GoesOn, Flags
<1>3. Placed'
  <2>1. ASSUME NEW d \in Callers, d # c
        PROVE  /\ cs'[d].at \in Places(cs'[d].op)
               /\ cs'[d].at \in InHand => cs'[d].r # None
               /\ cs'[d].at \in {"cancel", "closed"} /\ cs'[d].op # "close" => cs'[d].r # None
               /\ lock' = d <=> Locked(d)'
    BY <1>o, <2>1 DEF IInv, Placed, Locked
  <2>2. ASSUME Leaves(c)
        PROVE  /\ cs'[c].at \in Places(cs'[c].op)
               /\ cs'[c].at \in InHand => cs'[c].r # None
               /\ cs'[c].at \in {"cancel", "closed"} /\ cs'[c].op # "close" => cs'[c].r # None
               /\ lock' = c <=> Locked(c)'
    BY <2>2, Nones DEF Leaves, Away, Places, InHand, Locked
  <2>3. ASSUME GoesOn(c)
        PROVE  /\ cs'[c].at \in Places(cs'[c].op)
               /\ cs'[c].at \in InHand => cs'[c].r # None
               /\ cs'[c].at \in {"cancel", "closed"} /\ cs'[c].op # "close" => cs'[c].r # None
               /\ lock' = c <=> Locked(c)'
    BY <2>3 DEF GoesOn, IInv, Placed, InHand
  <2> QED
    BY <1>w, <2>1, <2>2, <2>3 DEF Placed
<1>4. Down'
  BY DEF IInv, Down, Walk, Leaves, GoesOn, Flags, Away
<1>5. Tabled'
  <2>a. lock' = c => GoesOn(c) /\ lock = c
    BY <1>w, Nones DEF Leaves, GoesOn
  <2>b. lock = c /\ cs[c].op # "destroy" => cs[c].op # "close"
    BY DEF IInv, Placed, Locked
  <2>c. /\ cs[c].at \notin {"cancel", "closed", "delete"}
        /\ cs[c].op = "destroy" => cs[c].at # "remove"
    BY DEF IInv, Placed, Places, Walk, Leaves, GoesOn, Flags
  <2>d. cs[c].at = "remove" => GoesOn(c)
    BY <1>w DEF Leaves, GoesOn
  <2>1. \A d \in Callers : Leaving(d)' <=> Leaving(d)
    <3>1. Leaving(c)' => Leaving(c)
      BY <2>a, <2>b, <2>c DEF Leaving, Leaves, GoesOn
    <3>2. Leaving(c) => Leaving(c)'
      BY <2>b, <2>c, <2>d DEF Leaving, Leaves, GoesOn
    <3> QED
      BY <3>1, <3>2, <1>o DEF Leaving, Leaves, GoesOn
  <2>2. \A d \in Callers : Leaving(d) => cs'[d].r = cs[d].r /\ (cs'[d].at = "delete" <=> cs[d].at = "delete")
    BY <1>o, <2>c, <2>d DEF Leaving, Leaves, GoesOn
  <2>3. \A d \in Callers : lock' = d /\ cs'[d].op = "destroy" /\ cs'[d].at \in {"drain", "call", "clear", "unlist"}
             => listed' = cs'[d].r
    <3>1. ASSUME lock' = c, cs'[c].op = "destroy", cs'[c].at \in {"drain", "call", "clear", "unlist"}
          PROVE  listed' = cs'[c].r
      <4>1. GoesOn(c) /\ lock = c /\ cs[c].op = "destroy"
        BY <2>a, <3>1 DEF Leaves, GoesOn
      <4>2. cs[c].at \in {"lookup", "drain", "call", "clear", "unlist"}
        BY <4>1, <2>c DEF IInv, Placed, Places, Locked
      <4> QED
        BY <4>1, <4>2 DEF IInv, Tabled, Walk, Leaves, GoesOn, Flags
    <3> QED
      BY <3>1, <1>o DEF IInv, Tabled, Walk, Leaves, GoesOn, Flags
  <2>4. \A r \in Runtimes : Accepts(r)' <=> Accepts(r)
    BY DEF Walk, Leaves, GoesOn, Flags, Accepts
  <2> QED
    BY <2>1, <2>2, <2>3, <2>4 DEF IInv, Tabled, Walk, Leaves, GoesOn, Flags
<1>6. Drained'
  <2> SUFFICES ASSUME NEW r \in Runtimes, rt'[r].st = "open", rt'[r].draining
               PROVE  \E d \in Callers : /\ cs'[d].r = r /\ cs'[d].at = "call"
                                         /\ cs'[d].op \in {"stop", "restart", "destroy"}
    BY DEF Drained
  <2>1. CASE ~rt[r].draining
    BY <2>1 DEF Walk, Leaves, GoesOn, Flags
  <2>2. CASE rt[r].draining
    <3>1. PICK d \in Callers : cs[d].r = r /\ cs[d].at = "call" /\ cs[d].op \in {"stop", "restart", "destroy"}
      BY <2>2 DEF IInv, Drained, Walk, Leaves, GoesOn, Flags
    <3>2. d # c
      BY <3>1 DEF Walk, Leaves, GoesOn, Flags
    <3> QED
      BY <3>1, <3>2 DEF Walk, Leaves, GoesOn, Flags
  <2> QED
    BY <2>1, <2>2
<1>7. \A d \in Callers : \/ cs'[d].op = cs[d].op /\ cs'[d].clean = cs[d].clean
                         \/ cs'[d].op = "none" /\ ~cs'[d].clean
  <2>1. Away.op = "none" /\ ~Away.clean
    BY DEF Away
  <2>2. CASE Leaves(c)
    BY <2>1, <2>2, <1>o DEF Leaves, GoesOn
  <2>3. CASE GoesOn(c)
    BY <2>3, <1>o DEF Leaves, GoesOn
  <2> QED
    BY <2>2, <2>3, <1>w DEF Leaves, GoesOn
<1>8. Alone'
  <2>1. Kinds("none") = {}
    BY DEF Kinds
  <2>2. word' = word
    BY DEF Walk, Leaves, GoesOn, Flags
  <2> QED
    BY <1>7, <2>1, <2>2 DEF IInv, Alone
<1>9. Quiet => \/ Quiet'
               \/ cs[c].at = "call" /\ cs[c].op \in {"start", "wake", "boot", "restart"}
  BY DEF Quiet, Walk, Leaves, GoesOn, Flags, Accepts
<1>10. Reached'
  <2> SUFFICES ASSUME NEW d \in Callers, cs'[d].clean
               PROVE  /\ cs'[d].op \in {"stop", "idle"} /\ cs'[d].at = "save" => Quiet'
                      /\ cs'[d].op = "destroy" /\ cs'[d].at \in {"clear", "unlist", "cancel", "closed", "delete"} => Quiet'
                      /\ cs'[d].op = "destroy" /\ cs'[d].at \in {"unlist", "cancel", "closed", "delete"} =>
                           disk.running = "off" /\ ~disk.maint /\ ~disk.created
                      /\ cs'[d].at = "savemaint" /\ listed # None /\ Accepts(listed)' =>
                           rt'[listed].maint = (cs'[d].op = "on")
    BY DEF Reached, Walk, Leaves, GoesOn, Flags
  <2>1. CASE d # c
    <3>1. cs'[d] = cs[d]
      BY <2>1 DEF Walk, Leaves, GoesOn, Flags
    <3>2. "run" \in Kinds(cs[d].op) /\ Quiet => Quiet'
      BY <1>1, <1>9, <2>1, <3>1, KindsOf DEF IInv, Alone, Types, CallType
    <3>3. "maint" \in Kinds(cs[d].op) => \A r \in Runtimes : rt'[r].maint = rt[r].maint
      <4>1. ASSUME "maint" \in Kinds(cs[d].op), cs[c].op \in {"on", "off"}
            PROVE  FALSE
        <5>1. "maint" \in Kinds(cs[c].op)
          BY <4>1, KindsOf DEF AllOps
        <5> QED
          BY <4>1, <5>1, <2>1, <3>1 DEF IInv, Alone
      <4> QED
        BY <4>1 DEF Walk, Leaves, GoesOn, Flags
    <3>4. cs[d].at = "savemaint" => cs[d].op \in {"on", "off"}
      BY <1>1 DEF IInv, Placed, Places, Types, CallType, AllOps
    <3>5. cs[d].op \in {"stop", "idle", "destroy"} => "run" \in Kinds(cs[d].op)
      BY <1>1, KindsOf DEF Types, CallType
    <3>6. cs[d].op \in {"on", "off"} => "maint" \in Kinds(cs[d].op)
      BY <1>1, KindsOf DEF Types, CallType
    <3> QED
      BY <1>1, <3>1, <3>2, <3>3, <3>4, <3>5, <3>6 DEF IInv, Reached, Walk, Leaves, GoesOn, Flags, Accepts, Types
  <2>2. CASE d = c
    <3>1. cs'[c].op = cs[c].op /\ cs[c].clean
      BY <2>2 DEF Walk, Leaves, GoesOn, Flags, Away
    <3>2. cs'[c].op = "destroy" => cs'[c].at \notin {"unlist", "cancel", "closed", "delete"}
      BY <2>2 DEF IInv, Placed, Places, Walk, Leaves, GoesOn, Flags, Away
    <3>3. cs'[c].at \in {"save", "clear", "savemaint"} => cs'[c].r \in Runtimes
      BY <2>2, <1>2 DEF Walk, Leaves, GoesOn, Flags, Types, CallType, InHand, Away
    <3>4. ASSUME \/ cs'[c].at = "save" /\ cs'[c].op \in {"stop", "idle"}
                 \/ cs'[c].at = "clear"
          PROVE  Quiet'
      BY <3>3, <3>4, OneAccepts DEF Quiet, Walk, Leaves, GoesOn, Flags, Accepts
    <3>5. ASSUME cs'[c].at = "savemaint", listed # None, Accepts(listed)'
          PROVE  rt'[listed].maint = (cs'[c].op = "on")
      <4>1. listed \in Runtimes /\ Accepts(listed)
        BY <1>1, <3>5 DEF Types, Accepts, Walk, Leaves, GoesOn, Flags
      <4>2. cs'[c].r = listed
        BY <3>3, <3>5, <4>1, OneAccepts DEF Walk, Leaves, GoesOn, Flags
      <4> QED
        BY <3>5, <4>1, <4>2 DEF Walk, Leaves, GoesOn, Flags
    <3> QED
      BY <2>2, <3>2, <3>4, <3>5
  <2> QED
    BY <2>1, <2>2
<1>11. Kept'
  <2>1. word.run = "off" => /\ cs'[c].op = "boot" => cs'[c].at = "list"
                            /\ Quiet'
    <3> SUFFICES ASSUME word.run = "off"
                 PROVE  (cs'[c].op = "boot" => cs'[c].at = "list") /\ Quiet'
      OBVIOUS
    <3>1. ~mem.desired /\ Quiet /\ (cs[c].op = "boot" => cs[c].at = "list")
      BY DEF IInv, Kept, Down, Walk, Leaves, GoesOn, Flags, Away
    <3>2. cs[c].op \in {"start", "wake", "restart"} => "run" \in Kinds(cs[c].op)
      BY <1>1, KindsOf DEF Types, CallType
    <3>3. cs[c].op \notin {"start", "wake", "restart"}
      BY <3>2 DEF IInv, Alone
    <3> QED
      BY <1>9, <3>1, <3>3 DEF Walk, Leaves, GoesOn, Flags, Away
  <2>2. word.maint \in {"on", "off"} => \A r \in Runtimes : rt'[r].maint = rt[r].maint
    BY <1>1, KindsOf DEF IInv, Alone, Types, CallType, Walk, Leaves, GoesOn, Flags
  <2>3. word.maint \in {"on", "off"} /\ listed # None /\ Accepts(listed)' =>
          rt'[listed].maint = (word.maint = "on")
    BY <1>1, <2>2 DEF IInv, Kept, Types, Walk, Leaves, GoesOn, Flags, Accepts
  <2>4. \A d \in Callers : word.run = "off" /\ cs'[d].op = "boot" => cs'[d].at = "list"
    BY <2>1 DEF IInv, Kept, Walk, Leaves, GoesOn, Flags
  <2>5. \A r \in Runtimes : Accepts(r)' <=> Accepts(r)
    BY DEF Walk, Leaves, GoesOn, Flags, Accepts
  <2> QED
    BY <2>1, <2>3, <2>4, <2>5 DEF IInv, Kept, Walk, Leaves, GoesOn, Flags
<1> QED
  BY <1>2, <1>3, <1>4, <1>5, <1>6, <1>8, <1>10, <1>11, TypesOKNext DEF IInv

(* Where a request is made from.                                           *)
LEMMA Requesting ==
    ASSUME IInv, NEW c \in Callers, cs[c].at \in InHand
    PROVE  /\ Types /\ cs[c].r \in Runtimes /\ cs[c].op # "none"
           /\ cs[c].op \in AllOps /\ cs[c].clean \in BOOLEAN
           /\ cs[c].at \in Places(cs[c].op)
           /\ cs[c] \in CallType /\ rt[cs[c].r] \in RuntimeType
<1>1. Types
  BY TypesOK DEF IInv
<1>2. cs[c].r # None /\ cs[c].at \in Places(cs[c].op)
  BY DEF IInv, Placed
<1>3. cs[c].op # "none"
  BY <1>2 DEF Places, InHand
<1> QED
  BY <1>1, <1>2, <1>3 DEF Types, CallType, RuntimeType

(* A request that was handled, in the terms of Flags.                      *)
LEMMA SetsFlags ==
    ASSUME IInv, NEW c \in Callers, NEW r \in Runtimes, r = cs[c].r,
           NEW b \in BOOLEAN, NEW d \in BOOLEAN, NEW m \in BOOLEAN, Sets(r, b, d, m),
           cs'[c] = Away \/ cs'[c].r = r,
           b => rt[r].run \/ (cs[c].at = "call" /\ cs[c].op \in {"start", "wake", "boot", "restart"}),
           m # rt[r].maint => cs[c].op \in {"on", "off"},
           d => \/ rt[r].draining
                \/ cs'[c].r = r /\ cs'[c].at = "call" /\ cs'[c].op \in {"stop", "restart", "destroy"},
           cs[c].at = "call" /\ cs[c].op \in {"stop", "restart", "destroy"} => ~d,
           (cs'[c].at = "save" /\ cs'[c].op \in {"stop", "idle"}) \/ cs'[c].at = "clear" => ~b,
           cs'[c].at = "savemaint" => m = (cs'[c].op = "on")
    PROVE  Flags(c)
<1>1. cs'[c].at # "none" => cs'[c].r = r
  BY DEF Away
<1>2. rt' \in [Runtimes -> RuntimeType] /\ \A s \in Runtimes : rt'[s].st = rt[s].st
  BY DEF Sets
<1>3. \A s \in Runtimes \ {r} : rt'[s] = rt[s]
  BY DEF Sets
<1>4. rt'[r].run = b /\ rt'[r].draining = d /\ rt'[r].maint = m /\ Accepts(r)
  BY DEF Sets
<1> QED
  BY <1>1, <1>2, <1>3, <1>4 DEF Flags

(* One that was refused, or a step that makes none.                        *)
LEMMA IdleFlags ==
    ASSUME IInv, NEW c \in Callers, UNCHANGED rt,
           cs[c].at = "call" /\ cs[c].op \in {"stop", "restart", "destroy"} =>
               cs[c].r \in Runtimes /\ Refuses(cs[c].r),
           cs'[c].at \notin {"clear", "savemaint"},
           cs'[c].at = "save" => cs'[c].op \notin {"stop", "idle"}
    PROVE  Flags(c)
<1>1. rt \in [Runtimes -> RuntimeType]
  BY TypesOK DEF IInv, Types
<1>2. \A r \in Runtimes : cs[c].r = r /\ cs[c].at = "call" /\ cs[c].op \in {"stop", "restart", "destroy"}
        => rt[r].st # "open"
  BY DEF Refuses
<1> QED
  BY <1>1, <1>2 DEF Flags

(* A call that returns, or goes on with what it has in hand.               *)
LEMMA ReturnWalks ==
    ASSUME IInv, NEW c \in Callers, Return(c), Flags(c),
           UNCHANGED <<life, disk, mem, listed, word>>, cs[c].op # "none",
           cs[c].at \in {"lookup", "retry", "list", "call", "roll", "rolling"}
    PROVE  Walk(c)
<1>1. Types
  BY TypesOK DEF IInv
<1> QED
  BY <1>1, ReturnMoves DEF Walk, Leaves

LEMMA GotoWalks ==
    ASSUME IInv, NEW c \in Callers, NEW a, Goto(c, a), Flags(c),
           UNCHANGED <<life, disk, mem, listed, lock, word>>, cs[c].op # "none",
           cs[c].at \notin {"cancel", "closed", "delete"},
           a \in Places(cs[c].op), a \in Spots, a \in InHand => cs[c].r # None,
           a \notin {"remove", "closed", "delete", "unlist", "scan"},
           cs[c].op # "close" => (cs[c].at = "remove" <=> a = "cancel"),
           cs[c].op = "close" => cs[c].at # "remove",
           cs[c].op = "destroy" => cs[c].at \notin {"lookup", "lock"} /\ a # "lock",
           cs[c].at # "scan",
           cs[c].op = "boot" /\ cs[c].at = "list" => mem.desired
    PROVE  Walk(c)
<1>1. Types
  BY TypesOK DEF IInv
<1>2. /\ cs' \in [Callers -> CallType]
      /\ cs'[c].op = cs[c].op /\ cs'[c].at = a /\ cs'[c].r = cs[c].r
      /\ cs'[c].clean = cs[c].clean
      /\ \A d \in Callers \ {c} : cs'[d] = cs[d]
  BY <1>1, GotoMoves
<1>3. Locked(c)' <=> Locked(c)
  BY <1>2 DEF Locked
<1> QED
  BY <1>2, <1>3 DEF Walk, GoesOn

(* What a caller with a runtime in hand knows, and how it moves.           *)
LEMMA Caller ==
    ASSUME IInv, NEW c \in Callers, cs[c].at \in InHand
    PROVE  /\ Types /\ cs[c].r \in Runtimes /\ cs[c].op # "none" /\ cs[c].r # None
           /\ rt[cs[c].r].run \in BOOLEAN /\ rt[cs[c].r].draining \in BOOLEAN
           /\ rt[cs[c].r].maint \in BOOLEAN
           /\ cs[c].at \in Places(cs[c].op)
           /\ Return(c) => cs'[c] = Away /\ cs'[c].at = "none" /\ cs'[c].op = "none"
           /\ \A a \in Spots : Goto(c, a) =>
                 cs'[c].r = cs[c].r /\ cs'[c].at = a /\ cs'[c].op = cs[c].op
<1>1. /\ Types /\ cs[c].r \in Runtimes /\ cs[c].op # "none" /\ rt[cs[c].r] \in RuntimeType
      /\ cs[c].at \in Places(cs[c].op)
  BY Requesting
<1>2. Away.at = "none" /\ Away.op = "none"
  BY DEF Away
<1>3. Return(c) => cs'[c] = Away
  BY <1>1, ReturnMoves
<1>4. \A a \in Spots : Goto(c, a) => cs'[c].r = cs[c].r /\ cs'[c].at = a /\ cs'[c].op = cs[c].op
  BY <1>1, GotoMoves
<1> QED
  BY <1>1, <1>2, <1>3, <1>4, Nones DEF RuntimeType

LEMMA StartCallWalks ==
    ASSUME IInv, NEW c \in Callers, StartCall(c)
    PROVE  Walk(c)
<1> DEFINE r == cs[c].r
<1>1. cs[c].op \in {"start", "wake", "boot"} /\ cs[c].at = "call" /\ "save" \in Spots
      /\ UNCHANGED <<life, disk, mem, listed, word>>
  BY DEF StartCall, At, Spots
<1>c. cs[c].at \in InHand
  BY <1>1 DEF InHand
<1>2. Flags(c)
  <2>1. CASE Handled(c, Running)
    <3>1. Sets(r, TRUE, rt[r].draining, rt[r].maint)
      BY <1>c, Caller, <2>1, HandledFlags DEF Running
    <3>2. (Goto(c, "save") /\ cs[c].op # "boot") \/ Return(c)
      BY DEF StartCall
    <3> QED
      BY <1>1, <1>c, Caller, <3>1, <3>2, SetsFlags
  <2>2. CASE Handled(c, <<>>) /\ Return(c)
    <3>1. Sets(r, rt[r].run, rt[r].draining, rt[r].maint)
      BY <1>c, Caller, <2>2, HandledFlags
    <3> QED
      BY <1>1, <1>c, Caller, <2>2, <3>1, SetsFlags
  <2>3. CASE UNCHANGED rt /\ Return(c)
    BY <1>1, <1>c, Caller, <2>3, IdleFlags
  <2> QED
    BY <2>1, <2>2, <2>3 DEF StartCall, Refused
<1>3. CASE Return(c)
  BY <1>1, <1>c, Caller, <1>2, <1>3, ReturnWalks
<1>4. CASE Goto(c, "save") /\ UNCHANGED lock /\ cs[c].op # "boot"
  <2>1. "save" \in Places(cs[c].op)
    BY <1>1, <1>4 DEF Places
  <2> QED
    BY <1>1, <1>c, Caller, <1>2, <1>4, <2>1, GotoWalks
<1> QED
  BY <1>3, <1>4 DEF StartCall

LEMMA drainWalks ==
    ASSUME IInv, NEW c \in Callers, drain(c)
    PROVE  Walk(c)
<1> DEFINE r == cs[c].r
<1>1. cs[c].at = "drain" /\ "call" \in Spots /\ Goto(c, "call")
      /\ UNCHANGED <<life, disk, mem, listed, lock, word>>
  BY DEF drain, Spots
<1>c. cs[c].at \in InHand
  BY <1>1 DEF InHand
<1>o. cs[c].op \in {"stop", "restart", "destroy"}
  BY <1>1, <1>c, Caller DEF Places
<1>2. Flags(c)
  <2>1. CASE Handled(c, [draining |-> TRUE])
    <3>1. Sets(r, rt[r].run, TRUE, rt[r].maint)
      BY <1>c, Caller, <2>1, HandledFlags
    <3> QED
      BY <1>1, <1>o, <1>c, Caller, <3>1, SetsFlags
  <2>2. CASE UNCHANGED rt
    BY <1>1, <1>c, Caller, <2>2, IdleFlags
  <2> QED
    BY <2>1, <2>2 DEF drain, Refused
<1>3. "call" \in Places(cs[c].op)
  BY <1>o DEF Places
<1> QED
  BY <1>1, <1>o, <1>c, Caller, <1>2, <1>3, GotoWalks

LEMMA StopCallWalks ==
    ASSUME IInv, NEW c \in Callers, StopCall(c)
    PROVE  Walk(c)
<1> DEFINE r == cs[c].r
           next == IF cs[c].op = "stop" THEN "save"
                   ELSE IF cs[c].op = "destroy" THEN "clear" ELSE "cancel"
<1>1. /\ cs[c].op \in {"stop", "destroy", "close"} /\ cs[c].at = "call" /\ next \in Spots
      /\ UNCHANGED <<life, disk, mem, listed, word>>
      /\ \/ Handled(c, Stopped) /\ Goto(c, next) /\ UNCHANGED lock
         \/ cs[c].op # "close" /\ Refused(c) /\ Return(c)
         \/ cs[c].op = "close" /\ Refused(c) /\ Goto(c, next) /\ UNCHANGED lock
  BY DEF StopCall, At, Spots
<1>c. cs[c].at \in InHand
  BY <1>1 DEF InHand
<1>p. next \in Places(cs[c].op) /\ (next = "cancel" <=> cs[c].op = "close")
      /\ next \notin {"remove", "closed", "delete", "unlist", "scan", "lock"}
  BY <1>1 DEF Places
<1> HIDE DEF next
<1>2. Flags(c)
  <2>1. CASE Handled(c, Stopped)
    <3>1. Sets(r, FALSE, FALSE, rt[r].maint)
      BY <1>c, Caller, <2>1, HandledFlags DEF Stopped
    <3>2. next # "savemaint"
      BY DEF next
    <3> QED
      BY <1>1, <1>c, Caller, <3>1, <3>2, SetsFlags
  <2>2. CASE ~Handled(c, Stopped)
    <3>1. UNCHANGED rt /\ Refuses(r)
      BY <1>1, <2>2 DEF Refused
    <3>2. cs'[c].at \in {"none", "cancel"}
      BY <1>1, <1>p, <1>c, Caller, <2>2
    <3> QED
      BY <1>1, <1>c, Caller, <3>1, <3>2, IdleFlags
  <2> QED
    BY <1>1, <2>1, <2>2
<1>3. CASE Return(c)
  BY <1>1, <1>c, Caller, <1>2, <1>3, ReturnWalks
<1>4. CASE Goto(c, next) /\ UNCHANGED lock
  BY <1>1, <1>p, <1>c, Caller, <1>2, <1>4, GotoWalks
<1> QED
  BY <1>1, <1>3, <1>4

LEMMA RollCallWalks ==
    ASSUME IInv, NEW c \in Callers, RollCall(c)
    PROVE  Walk(c)
<1> DEFINE r == cs[c].r
<1>1. /\ cs[c].op = "restart" /\ cs[c].at = "roll"
      /\ UNCHANGED <<life, disk, mem, listed, word>>
      /\ \/ \E a \in {"rolling", "drain"} : Handled(c, <<>>) /\ Goto(c, a) /\ UNCHANGED lock
         \/ Refused(c) /\ Return(c)
  BY DEF RollCall, At
<1>c. cs[c].at \in InHand
  BY <1>1 DEF InHand
<1>2. CASE \E a \in {"rolling", "drain"} : Handled(c, <<>>) /\ Goto(c, a) /\ UNCHANGED lock
  <2>1. PICK a \in {"rolling", "drain"} : Handled(c, <<>>) /\ Goto(c, a) /\ UNCHANGED lock
    BY <1>2
  <2>2. Sets(r, rt[r].run, rt[r].draining, rt[r].maint)
    BY <1>c, Caller, <2>1, HandledFlags
  <2>3. a \in Places(cs[c].op) /\ a \in Spots
    BY <1>1 DEF Places, Spots
  <2>4. Flags(c)
    BY <1>1, <1>c, Caller, <2>1, <2>2, <2>3, SetsFlags
  <2> QED
    BY <1>1, <1>c, Caller, <2>1, <2>3, <2>4, GotoWalks
<1>3. CASE Refused(c) /\ Return(c)
  <2>1. Flags(c)
    BY <1>1, <1>c, Caller, <1>3, IdleFlags DEF Refused
  <2> QED
    BY <1>1, <1>c, Caller, <1>3, <2>1, ReturnWalks
<1> QED
  BY <1>1, <1>2, <1>3

LEMMA RollEndsWalks ==
    ASSUME IInv, NEW c \in Callers, RollEnds(c)
    PROVE  Walk(c)
<1>1. /\ cs[c].op = "restart" /\ cs[c].at = "rolling"
      /\ UNCHANGED <<life, disk, mem, listed, rt, word>>
      /\ Return(c)
  BY DEF RollEnds, At
<1>c. cs[c].at \in InHand
  BY <1>1 DEF InHand
<1>2. Flags(c)
  BY <1>1, <1>c, Caller, IdleFlags
<1> QED
  BY <1>1, <1>c, <1>2, Caller, ReturnWalks

LEMMA RolledWalks ==
    ASSUME IInv, NEW c \in Callers, Rolled(c)
    PROVE  Walk(c)
<1>1. /\ cs[c].op = "restart" /\ cs[c].at = "rolling" /\ "save" \in Spots
      /\ UNCHANGED <<life, disk, mem, listed, rt, word>>
      /\ (Goto(c, "save") /\ UNCHANGED lock) \/ Return(c)
  BY DEF Rolled, At, Spots
<1>c. cs[c].at \in InHand /\ "save" \in Places(cs[c].op)
  BY <1>1 DEF InHand, Places
<1>2. Flags(c)
  BY <1>1, <1>c, Caller, IdleFlags
<1>3. CASE Return(c)
  BY <1>1, <1>c, Caller, <1>2, <1>3, ReturnWalks
<1>4. CASE Goto(c, "save") /\ UNCHANGED lock
  BY <1>1, <1>c, Caller, <1>2, <1>4, GotoWalks
<1> QED
  BY <1>1, <1>3, <1>4

LEMMA RestartCallWalks ==
    ASSUME IInv, NEW c \in Callers, RestartCall(c)
    PROVE  Walk(c)
<1> DEFINE r == cs[c].r
<1>1. /\ cs[c].op = "restart" /\ cs[c].at = "call" /\ "save" \in Spots
      /\ UNCHANGED <<life, disk, mem, listed, word>>
      /\ \/ Handled(c, [run |-> TRUE, draining |-> FALSE]) /\ Goto(c, "save") /\ UNCHANGED lock
         \/ Handled(c, Stopped) /\ Return(c)
         \/ Refused(c) /\ Return(c)
  BY DEF RestartCall, At, Spots
<1>c. cs[c].at \in InHand /\ "save" \in Places(cs[c].op)
  BY <1>1 DEF InHand, Places
<1>2. CASE Handled(c, [run |-> TRUE, draining |-> FALSE]) /\ Goto(c, "save") /\ UNCHANGED lock
  <2>1. Sets(r, TRUE, FALSE, rt[r].maint)
    BY <1>c, Caller, <1>2, HandledFlags
  <2>2. Flags(c)
    BY <1>1, <1>c, Caller, <1>2, <2>1, SetsFlags
  <2> QED
    BY <1>1, <1>c, Caller, <1>2, <2>2, GotoWalks
<1>3. CASE Handled(c, Stopped) /\ Return(c)
  <2>1. Sets(r, FALSE, FALSE, rt[r].maint)
    BY <1>c, Caller, <1>3, HandledFlags DEF Stopped
  <2>2. Flags(c)
    BY <1>1, <1>c, Caller, <1>3, <2>1, SetsFlags
  <2> QED
    BY <1>1, <1>c, Caller, <1>3, <2>2, ReturnWalks
<1>4. CASE Refused(c) /\ Return(c)
  <2>1. Flags(c)
    BY <1>1, <1>c, Caller, <1>4, IdleFlags DEF Refused
  <2> QED
    BY <1>1, <1>c, Caller, <1>4, <2>1, ReturnWalks
<1> QED
  BY <1>1, <1>2, <1>3, <1>4

LEMMA IdleCallWalks ==
    ASSUME IInv, NEW c \in Callers, IdleCall(c)
    PROVE  Walk(c)
<1> DEFINE r == cs[c].r
<1>1. /\ cs[c].op = "idle" /\ cs[c].at = "call" /\ "save" \in Spots
      /\ UNCHANGED <<life, disk, mem, listed, word>>
      /\ \/ Handled(c, [run |-> FALSE]) /\ Goto(c, "save") /\ UNCHANGED lock
         \/ UNCHANGED rt /\ Return(c)
  BY DEF IdleCall, At, Spots
<1>c. cs[c].at \in InHand /\ "save" \in Places(cs[c].op)
  BY <1>1 DEF InHand, Places
<1>2. CASE Handled(c, [run |-> FALSE]) /\ Goto(c, "save") /\ UNCHANGED lock
  <2>1. Sets(r, FALSE, rt[r].draining, rt[r].maint)
    BY <1>c, Caller, <1>2, HandledFlags
  <2>2. Flags(c)
    BY <1>1, <1>c, Caller, <1>2, <2>1, SetsFlags
  <2> QED
    BY <1>1, <1>c, Caller, <1>2, <2>2, GotoWalks
<1>3. CASE UNCHANGED rt /\ Return(c)
  <2>1. Flags(c)
    BY <1>1, <1>c, Caller, <1>3, IdleFlags
  <2> QED
    BY <1>1, <1>c, Caller, <1>3, <2>1, ReturnWalks
<1> QED
  BY <1>1, <1>2, <1>3

LEMMA MaintenanceCallWalks ==
    ASSUME IInv, NEW c \in Callers, MaintenanceCall(c)
    PROVE  Walk(c)
<1> DEFINE r == cs[c].r
           on == cs[c].op = "on"
<1>1. /\ cs[c].op \in {"on", "off"} /\ cs[c].at = "call" /\ "savemaint" \in Spots /\ on \in BOOLEAN
      /\ UNCHANGED <<life, disk, mem, listed, word>>
      /\ \/ Handled(c, [maint |-> on]) /\ Goto(c, "savemaint") /\ UNCHANGED lock
         \/ Refused(c) /\ Return(c)
  BY DEF MaintenanceCall, At, Spots
<1>c. cs[c].at \in InHand /\ "savemaint" \in Places(cs[c].op)
  BY <1>1 DEF InHand, Places
<1>2. CASE Handled(c, [maint |-> on]) /\ Goto(c, "savemaint") /\ UNCHANGED lock
  <2>1. Sets(r, rt[r].run, rt[r].draining, on)
    BY <1>1, <1>c, Caller, <1>2, HandledFlags
  <2>2. on = (cs'[c].op = "on") /\ on \in BOOLEAN
    BY <1>1, <1>c, Caller, <1>2
  <2>3. cs'[c].at = "savemaint" /\ cs'[c].r = r /\ rt[r].run \in BOOLEAN /\ rt[r].draining \in BOOLEAN
        /\ r \in Runtimes
    BY <1>1, <1>c, Caller, <1>2
  <2> HIDE DEF on
  <2>4. Flags(c)
    BY <1>1, <2>1, <2>2, <2>3, SetsFlags, ZenonT(40)
  <2> QED
    BY <1>1, <1>c, Caller, <1>2, <2>4, GotoWalks
<1>3. CASE Refused(c) /\ Return(c)
  <2>1. Flags(c)
    BY <1>1, <1>c, Caller, <1>3, IdleFlags DEF Refused
  <2> QED
    BY <1>1, <1>c, Caller, <1>3, <2>1, ReturnWalks
<1> QED
  BY <1>1, <1>2, <1>3

LEMMA RemoveCallWalks ==
    ASSUME IInv, NEW c \in Callers, RemoveCall(c)
    PROVE  Walk(c)
<1> DEFINE r == cs[c].r
<1>1. /\ cs[c].at = "remove" /\ "cancel" \in Spots
      /\ UNCHANGED <<life, disk, mem, listed, lock, word>> /\ Goto(c, "cancel")
      /\ Handled(c, Stopped) \/ Refused(c)
  BY DEF RemoveCall, Spots
<1>c. cs[c].at \in InHand
  BY <1>1 DEF InHand
<1>o. cs[c].op \in {"start", "wake", "rescan"} /\ "cancel" \in Places(cs[c].op)
  BY <1>1, <1>c, Caller DEF Places
<1>2. Flags(c)
  <2>1. CASE Handled(c, Stopped)
    <3>1. Sets(r, FALSE, FALSE, rt[r].maint)
      BY <1>c, Caller, <2>1, HandledFlags DEF Stopped
    <3> QED
      BY <1>1, <1>c, Caller, <3>1, SetsFlags
  <2>2. CASE Refused(c)
    BY <1>1, <1>c, Caller, <2>2, IdleFlags DEF Refused
  <2> QED
    BY <1>1, <2>1, <2>2
<1> QED
  BY <1>1, <1>o, <1>c, Caller, <1>2, GotoWalks

LEMMA BootListWalks ==
    ASSUME IInv, NEW c \in Callers, BootList(c)
    PROVE  Walk(c)
<1>t. Types
  BY TypesOK DEF IInv
<1>1. /\ cs[c].op = "boot" /\ cs[c].at = "list" /\ "lookup" \in Spots
      /\ UNCHANGED <<life, disk, mem, listed, rt, word>>
      /\ (mem.desired /\ Goto(c, "lookup") /\ UNCHANGED lock) \/ Return(c)
  BY DEF BootList, At, Spots
<1>2. "lookup" \in Places(cs[c].op) /\ "lookup" \notin InHand
  BY <1>1 DEF Places, InHand
<1>3. CASE Return(c)
  <2>1. cs'[c].at = "none"
    BY <1>t, <1>3, ReturnMoves DEF Away
  <2>2. Flags(c)
    BY <1>1, <2>1, IdleFlags
  <2> QED
    BY <1>1, <1>3, <2>2, ReturnWalks
<1>4. CASE mem.desired /\ Goto(c, "lookup") /\ UNCHANGED lock
  <2>1. cs'[c].at = "lookup"
    BY <1>t, <1>1, <1>4, GotoMoves
  <2>2. Flags(c)
    BY <1>1, <2>1, IdleFlags
  <2> QED
    BY <1>1, <1>2, <1>4, <2>2, GotoWalks
<1> QED
  BY <1>1, <1>3, <1>4

LEMMA lookupWalks ==
    ASSUME IInv, NEW c \in Callers, lookup(c)
    PROVE  Walk(c)
<1>t. Types
  BY TypesOK DEF IInv
<1>1. /\ cs[c].at \in {"lookup", "retry"} /\ {"lock", "cancel", "drain", "roll", "call"} \subseteq Spots
      /\ UNCHANGED <<life, disk, mem, listed, rt, word>>
  BY DEF lookup, Spots
<1>2. cs[c].op # "none" /\ cs[c].at \in Places(cs[c].op) /\ cs[c].op \in AllOps
  BY <1>t, <1>1 DEF IInv, Placed, Places, Types, CallType
<1>3. CASE Return(c)
  <2>1. cs'[c].at = "none"
    BY <1>t, <1>3, ReturnMoves DEF Away
  <2>2. Flags(c)
    BY <1>1, <2>1, IdleFlags
  <2> QED
    BY <1>1, <1>2, <1>3, <2>2, ReturnWalks
<1>4. ASSUME NEW a \in {"lock", "cancel"}, Goto(c, a), UNCHANGED lock,
             a = "lock" => cs[c].op \in {"start", "wake"}, a = "cancel" => cs[c].op = "close"
      PROVE  Walk(c)
  <2>1. cs'[c].at = a
    BY <1>t, <1>1, <1>4, GotoMoves
  <2>2. Flags(c)
    BY <1>1, <1>4, <2>1, IdleFlags
  <2>3. a \in Places(cs[c].op) /\ a \notin InHand
    BY <1>4 DEF Places, InHand
  <2> QED
    BY <1>1, <1>2, <1>4, <2>2, <2>3, GotoWalks
<1>5. CASE /\ listed # None
           /\ cs' = [cs EXCEPT ![c].r = listed,
                        ![c].at = IF cs[c].op \in {"stop", "destroy"} THEN "drain"
                                  ELSE IF cs[c].op = "restart" THEN "roll" ELSE "call"]
           /\ UNCHANGED lock
  <2> DEFINE a == IF cs[c].op \in {"stop", "destroy"} THEN "drain"
                  ELSE IF cs[c].op = "restart" THEN "roll" ELSE "call"
  <2>1. cs' = [cs EXCEPT ![c] = [cs[c] EXCEPT !.r = listed, !.at = a]] /\ UNCHANGED lock
    BY <1>5, <1>t DEF Types
  <2>2. \A k \in CallType : LET m == [k EXCEPT !.r = listed, !.at = a] IN
           m \in CallType /\ m.op = k.op /\ m.at = a /\ m.r = listed /\ m.clean = k.clean
    BY <1>t, <1>1 DEF CallType, Types
  <2>3. a \in Places(cs[c].op)
    BY <1>1, <1>2 DEF Places, AllOps
  <2>4. a \in {"drain", "roll", "call"} /\ (cs[c].op = "destroy" => a = "drain")
    OBVIOUS
  <2> HIDE DEF a
  <2>5. /\ cs' \in [Callers -> CallType] /\ \A d \in Callers \ {c} : cs'[d] = cs[d]
        /\ cs'[c].op = cs[c].op /\ cs'[c].at = a /\ cs'[c].r = listed /\ cs'[c].clean = cs[c].clean
    BY <1>t, <2>1, <2>2 DEF Types
  <2>6. Flags(c)
    BY <1>1, <2>4, <2>5, IdleFlags
  <2>7. GoesOn(c)
    <3>1. Locked(c)' <=> Locked(c)
      BY <1>1, <2>4, <2>5 DEF Locked
    <3> QED
      BY <1>1, <1>5, <2>1, <2>3, <2>4, <2>5, <3>1 DEF GoesOn
  <2> QED
    BY <1>1, <1>2, <2>5, <2>6, <2>7 DEF Walk
<1> QED
  BY <1>3, <1>4, <1>5 DEF lookup, At

LEMMA InitInv == Init => IInv
<1> SUFFICES ASSUME Init PROVE IInv
  OBVIOUS
<1>1. Types
  BY AwayType DEF Init, Types, DiskType, MemType, WordType, NoMemory
<1>2. Placed
  BY Nones DEF Init, Placed, Places, InHand, Locked, Away
<1>3. Down /\ Tabled /\ Drained
  BY Nones DEF Init, Down, Tabled, Drained, Leaving, Accepts, Away, NoRuntime
<1>4. Alone /\ Reached /\ Kept
  BY DEF Init, Alone, Reached, Kept, Away
<1> QED
  BY <1>1, <1>2, <1>3, <1>4, TypesOK DEF IInv

-----------------------------------------------------------------------------
(* The app goroutine: what it does by itself only makes it accept or run   *)
(* less.                                                                   *)

LEMMA LoopEndsInv ==
    ASSUME IInv, NEW r \in Runtimes, LoopEnds(r)
    PROVE  IInv'
<1>1. Types
  BY TypesOK DEF IInv
<1> DEFINE ended == [NoRuntime EXCEPT !.st = "closed", !.run = rt[r].run]
<1>2. ended \in RuntimeType /\ ended.st = "closed"
  BY <1>1 DEF Types, RuntimeType, NoRuntime
<1>3. /\ rt[r].st = "cancelled" /\ UNCHANGED <<life, disk, mem, listed, lock, cs, word>>
      /\ rt' = [rt EXCEPT ![r] = ended]
  BY DEF LoopEnds
<1> HIDE DEF ended
<1>4. /\ rt' \in [Runtimes -> RuntimeType] /\ rt'[r].st = "closed"
      /\ \A s \in Runtimes \ {r} : rt'[s] = rt[s]
  BY <1>1, <1>2, <1>3 DEF Types
<1>5. \A s \in Runtimes : Accepts(s)' => Accepts(s) /\ rt'[s] = rt[s]
  BY <1>4 DEF Accepts
<1>6. Types'
  BY <1>1, <1>3, <1>4 DEF Types
<1>7. Placed' /\ Alone'
  BY <1>3 DEF IInv, Placed, Locked, Alone
<1>8. life # "down"
  BY <1>3 DEF IInv, Down, NoRuntime
<1>9. Down' /\ Drained'
  BY <1>3, <1>4, <1>8 DEF Down, IInv, Drained
<1>10. Tabled'
  BY <1>3, <1>5 DEF IInv, Tabled, Leaving
<1>11. Quiet => Quiet'
  BY <1>5 DEF Quiet
<1>12. listed # None /\ Accepts(listed)' => Accepts(listed) /\ rt'[listed] = rt[listed]
  BY <1>1, <1>3, <1>5 DEF Types, Accepts
<1>13. Reached'
  BY <1>3, <1>11, <1>12 DEF IInv, Reached
<1>14. Kept'
  BY <1>3, <1>5, <1>11, <1>12 DEF IInv, Kept
<1> QED
  BY <1>6, <1>7, <1>9, <1>10, <1>13, <1>14, TypesOKNext DEF IInv

LEMMA AppExitsInv ==
    ASSUME IInv, NEW r \in Runtimes, AppExits(r)
    PROVE  IInv'
<1>1. Types
  BY TypesOK DEF IInv
<1>2. \A x \in RuntimeType : LET y == [x EXCEPT !.run = FALSE] IN
        y \in RuntimeType /\ y.st = x.st /\ ~y.run /\ y.draining = x.draining /\ y.maint = x.maint
  BY DEF RuntimeType
<1>3. /\ rt' = [rt EXCEPT ![r] = [rt[r] EXCEPT !.run = FALSE]] /\ Accepts(r)
      /\ UNCHANGED <<life, disk, mem, listed, lock, cs, word>>
  BY DEF AppExits
<1>4. /\ rt' \in [Runtimes -> RuntimeType]
      /\ \A s \in Runtimes : /\ rt'[s].st = rt[s].st /\ rt'[s].draining = rt[s].draining
                             /\ rt'[s].maint = rt[s].maint /\ (rt'[s].run => rt[s].run)
  BY <1>1, <1>2, <1>3 DEF Types
<1>5. \A s \in Runtimes : Accepts(s)' <=> Accepts(s)
  BY <1>4 DEF Accepts
<1>6. Types'
  BY <1>1, <1>3, <1>4 DEF Types
<1>7. Placed' /\ Alone'
  BY <1>3 DEF IInv, Placed, Locked, Alone
<1>8. life # "down"
  BY <1>3 DEF IInv, Down, NoRuntime, Accepts
<1>9. Down' /\ Drained'
  BY <1>3, <1>4, <1>8 DEF Down, IInv, Drained
<1>10. Tabled'
  BY <1>3, <1>5 DEF IInv, Tabled, Leaving
<1>11. Quiet => Quiet'
  BY <1>4, <1>5 DEF Quiet
<1>12. listed # None /\ Accepts(listed)' => Accepts(listed) /\ rt'[listed].maint = rt[listed].maint
  BY <1>1, <1>3, <1>4, <1>5 DEF Types, Accepts
<1>13. Reached'
  BY <1>3, <1>11, <1>12 DEF IInv, Reached
<1>14. Kept'
  BY <1>3, <1>5, <1>11, <1>12 DEF IInv, Kept
<1> QED
  BY <1>6, <1>7, <1>9, <1>10, <1>13, <1>14, TypesOKNext DEF IInv

(* The create mark is set by a running app only, so never behind a destroy *)
(* that had the app for itself.                                            *)
LEMMA markCreatedInv ==
    ASSUME IInv, NEW r \in Runtimes, markCreated(r)
    PROVE  IInv'
<1>1. Types
  BY TypesOK DEF IInv
<1>2. \A x \in RuntimeType : LET y == [x EXCEPT !.created = TRUE] IN
        y \in RuntimeType /\ y.st = x.st /\ y.run = x.run /\ y.draining = x.draining /\ y.maint = x.maint
  BY DEF RuntimeType
<1>3. /\ rt' = [rt EXCEPT ![r] = [rt[r] EXCEPT !.created = TRUE]] /\ Accepts(r) /\ rt[r].run
      /\ UNCHANGED <<life, listed, lock, cs, word>>
  BY DEF markCreated
<1>4. /\ rt' \in [Runtimes -> RuntimeType]
      /\ \A s \in Runtimes : /\ rt'[s].st = rt[s].st /\ rt'[s].draining = rt[s].draining
                             /\ rt'[s].maint = rt[s].maint /\ rt'[s].run = rt[s].run
  BY <1>1, <1>2, <1>3 DEF Types
<1>5. \A s \in Runtimes : Accepts(s)' <=> Accepts(s)
  BY <1>4 DEF Accepts
<1>d. /\ disk' \in DiskType /\ disk'.dir = disk.dir /\ disk'.running = disk.running /\ disk'.maint = disk.maint
      /\ mem' \in MemType /\ mem'.desired = mem.desired /\ mem'.maint = mem.maint
  BY <1>1 DEF markCreated, Types, DiskType, MemType
<1>6. Types'
  BY <1>1, <1>3, <1>4, <1>d DEF Types
<1>7. Placed' /\ Alone'
  BY <1>3 DEF IInv, Placed, Locked, Alone
<1>8. life # "down"
  BY <1>3 DEF IInv, Down, NoRuntime, Accepts
<1>9. Down' /\ Drained'
  BY <1>3, <1>4, <1>8 DEF Down, IInv, Drained
<1>10. Tabled'
  BY <1>3, <1>5 DEF IInv, Tabled, Leaving
<1>11. ~Quiet
  BY <1>3 DEF Quiet
<1>12. listed # None /\ Accepts(listed)' => Accepts(listed) /\ rt'[listed].maint = rt[listed].maint
  BY <1>1, <1>3, <1>4, <1>5 DEF Types, Accepts
<1>13. Reached'
  BY <1>3, <1>11, <1>12 DEF IInv, Reached
<1>14. Kept'
  BY <1>3, <1>5, <1>11, <1>12, <1>d DEF IInv, Kept
<1> QED
  BY <1>6, <1>7, <1>9, <1>10, <1>13, <1>14, TypesOKNext DEF IInv

LEMMA FolderChangesInv ==
    ASSUME IInv, FolderChanges
    PROVE  IInv'
<1>1. Types
  BY TypesOK DEF IInv
<1>2. UNCHANGED <<life, mem, listed, rt, lock, cs>>
  BY DEF FolderChanges
<1>3. /\ disk' \in DiskType /\ disk'.running = disk.running /\ disk'.maint = disk.maint
      /\ disk'.created = disk.created
  BY <1>1 DEF FolderChanges, Types, DiskType
<1>4. /\ word' \in WordType
      /\ word'.run = IF word.run = "gone" THEN "unknown" ELSE word.run
      /\ word'.maint = IF word.maint = "gone" THEN "unknown" ELSE word.maint
  BY <1>1 DEF FolderChanges, Types, WordType
<1>5. Types'
  BY <1>1, <1>2, <1>3, <1>4 DEF Types
<1>6. Placed' /\ Down' /\ Tabled' /\ Drained'
  BY <1>2 DEF IInv, Placed, Locked, Down, Tabled, Leaving, Accepts, Drained
<1>7. Alone'
  BY <1>2, <1>4 DEF IInv, Alone
<1>8. Reached' /\ Kept'
  BY <1>2, <1>3, <1>4 DEF IInv, Reached, Kept, Quiet, Accepts
<1> QED
  BY <1>5, <1>6, <1>7, <1>8, TypesOKNext DEF IInv

-----------------------------------------------------------------------------
(* The lists.  A caller that saves is done with the app goroutine.         *)

LEMMA setDesiredInv ==
    ASSUME IInv, NEW c \in Callers, setDesired(c)
    PROVE  IInv'
<1> DEFINE on == cs[c].op \notin {"stop", "idle"}
           w == IF on THEN "on" ELSE "off"
<1>1. /\ cs[c].at = "save" /\ Types /\ Return(c) /\ UNCHANGED <<life, listed, rt>>
      /\ cs[c].op \in {"start", "wake", "stop", "restart", "idle"}
  <2>1. cs[c].at = "save" /\ Return(c) /\ UNCHANGED <<life, listed, rt>>
    BY DEF setDesired
  <2> QED
    BY <2>1, TypesOK DEF IInv, Placed, Places
<1>2. /\ cs' \in [Callers -> CallType] /\ cs'[c] = Away
      /\ \A d \in Callers \ {c} : cs'[d] = cs[d]
      /\ lock' = IF lock = c THEN None ELSE lock
  BY <1>1, ReturnMoves
<1>3. lock # c
  BY <1>1 DEF IInv, Placed, Locked
<1>4. /\ mem' \in MemType /\ mem'.desired = on /\ mem'.maint = mem.maint
  BY <1>1 DEF setDesired, Types, MemType
<1>5. \/ disk' = disk /\ word' = word
      \/ /\ disk' = [disk EXCEPT !.running = w]
         /\ word' = IF cs[c].clean THEN [word EXCEPT !.run = w] ELSE word
  BY DEF setDesired, Told
<1>6. /\ disk' \in DiskType /\ disk'.dir = disk.dir /\ disk'.maint = disk.maint
      /\ disk'.created = disk.created
      /\ word' \in WordType /\ word'.maint = word.maint
      /\ \/ disk'.running = disk.running /\ word'.run = word.run
         \/ disk'.running = w /\ word'.run = IF cs[c].clean THEN w ELSE word.run
  BY <1>1, <1>5 DEF Types, DiskType, WordType
<1>7. "run" \in Kinds(cs[c].op) /\ cs[c].op \notin {"boot", "close"}
  BY <1>1, KindsOf DEF AllOps
<1>8. word.run = "unknown"
  BY <1>7 DEF IInv, Alone
<1>9. \A d \in Callers \ {c} : "run" \in Kinds(cs[d].op) => ~cs[c].clean /\ ~cs[d].clean
  BY <1>7 DEF IInv, Alone
<1>10. \A d \in Callers : cs'[d] = cs[d] \/ cs'[d] = Away
  BY <1>2
<1>a. Away.op = "none" /\ Away.at = "none" /\ ~Away.clean /\ Kinds("none") = {}
  BY DEF Away, Kinds
<1>11. Types'
  BY <1>1, <1>2, <1>4, <1>6 DEF Types
<1>12. Placed'
  BY <1>2, <1>3, Nones DEF IInv, Placed, Places, Locked, Away, InHand
<1>13. Down'
  BY <1>1, <1>2, <1>10 DEF IInv, Down
<1>14. Tabled'
  BY <1>1, <1>2, <1>3, Nones DEF IInv, Tabled, Leaving, Accepts
<1>15. Drained'
  BY <1>1, <1>2 DEF IInv, Drained
<1>16. Alone'
  <2>1. \A d, e \in Callers : cs'[d].clean /\ d # e => Kinds(cs'[d].op) \cap Kinds(cs'[e].op) = {}
    BY <1>10, <1>a DEF IInv, Alone
  <2>2. ASSUME NEW d \in Callers, word'.run # "unknown", "run" \in Kinds(cs'[d].op)
        PROVE  FALSE
    BY <2>2, <1>6, <1>8, <1>9, <1>2, <1>a
  <2>3. \A d \in Callers : word'.maint # "unknown" => "maint" \notin Kinds(cs'[d].op)
    BY <1>6, <1>10, <1>a DEF IInv, Alone
  <2> QED
    BY <2>1, <2>2, <2>3 DEF Alone
<1>17. Reached'
  <2> SUFFICES ASSUME NEW d \in Callers, cs'[d].clean
               PROVE  /\ cs'[d].op \in {"stop", "idle"} /\ cs'[d].at = "save" => Quiet'
                      /\ cs'[d].op = "destroy" /\ cs'[d].at \in {"clear", "unlist", "cancel", "closed", "delete"} => Quiet'
                      /\ cs'[d].op = "destroy" /\ cs'[d].at \in {"unlist", "cancel", "closed", "delete"} =>
                           disk'.running = "off" /\ ~disk'.maint /\ ~disk'.created
                      /\ cs'[d].at = "savemaint" /\ listed' # None /\ Accepts(listed)' =>
                           rt'[listed'].maint = (cs'[d].op = "on")
    BY DEF Reached
  <2>1. cs'[d] = cs[d] /\ d # c
    BY <1>2, <1>a
  <2>2. cs[d].op = "destroy" => "run" \in Kinds(cs[d].op)
    BY KindsOf DEF AllOps
  <2>3. cs[d].op # "destroy"
    BY <1>9, <2>1, <2>2
  <2> QED
    BY <1>1, <2>1, <2>3 DEF IInv, Reached, Quiet, Accepts
<1>18. Kept'
  <2>1. word'.run = "on" => disk'.running = "on"
    BY <1>6, <1>8
  <2>2. word'.run = "off" => /\ disk'.running = "off" /\ Quiet' /\ ~mem'.desired
                             /\ \A d \in Callers : cs'[d].op = "boot" => cs'[d].at = "list"
    <3> SUFFICES ASSUME word'.run = "off"
                 PROVE  /\ disk'.running = "off" /\ Quiet' /\ ~mem'.desired
                        /\ \A d \in Callers : cs'[d].op = "boot" => cs'[d].at = "list"
      OBVIOUS
    <3>1. cs[c].clean /\ ~on /\ disk'.running = "off"
      BY <1>6, <1>8
    <3>2. cs[c].op \in {"stop", "idle"}
      BY <3>1
    <3>3. Quiet'
      BY <1>1, <3>1, <3>2 DEF IInv, Reached, Quiet, Accepts
    <3>4. \A d \in Callers \ {c} : cs[d].op # "boot"
      BY <1>9, <3>1, KindsOf DEF AllOps
    <3> QED
      BY <1>2, <1>4, <1>a, <3>1, <3>3, <3>4
  <2>3. word'.run # "gone"
    BY <1>6, <1>8
  <2> QED
    BY <1>1, <1>4, <1>6, <2>1, <2>2, <2>3 DEF IInv, Kept, Accepts
<1> QED
  BY <1>11, <1>12, <1>13, <1>14, <1>15, <1>16, <1>17, <1>18, TypesOKNext DEF IInv

LEMMA saveMaintenanceInv ==
    ASSUME IInv, NEW c \in Callers, saveMaintenance(c)
    PROVE  IInv'
<1> DEFINE w == cs[c].op
<1>1. /\ cs[c].at = "savemaint" /\ Types /\ Return(c) /\ UNCHANGED <<life, listed, rt>>
      /\ w \in {"on", "off"}
  <2>1. cs[c].at = "savemaint" /\ Return(c) /\ UNCHANGED <<life, listed, rt>>
    BY DEF saveMaintenance
  <2> QED
    BY <2>1, TypesOK DEF IInv, Placed, Places
<1>2. /\ cs' \in [Callers -> CallType] /\ cs'[c] = Away
      /\ \A d \in Callers \ {c} : cs'[d] = cs[d]
      /\ lock' = IF lock = c THEN None ELSE lock
  BY <1>1, ReturnMoves
<1>3. lock # c
  BY <1>1 DEF IInv, Placed, Locked
<1>4. /\ mem' \in MemType /\ mem'.desired = mem.desired /\ mem'.maint = (w = "on")
  BY <1>1 DEF saveMaintenance, Types, MemType
<1>5. \/ disk' = disk /\ word' = word
      \/ /\ disk' = [disk EXCEPT !.maint = w = "on"]
         /\ word' = IF cs[c].clean THEN [word EXCEPT !.maint = w] ELSE word
  BY DEF saveMaintenance, Told
<1>6. /\ disk' \in DiskType /\ disk'.dir = disk.dir /\ disk'.running = disk.running
      /\ disk'.created = disk.created
      /\ word' \in WordType /\ word'.run = word.run
      /\ \/ word'.maint = word.maint
         \/ disk'.maint = (w = "on") /\ word'.maint = IF cs[c].clean THEN w ELSE word.maint
  BY <1>1, <1>5 DEF Types, DiskType, WordType
<1>7. "maint" \in Kinds(cs[c].op)
  BY <1>1, KindsOf DEF AllOps
<1>8. word.maint = "unknown"
  BY <1>7 DEF IInv, Alone
<1>9. \A d \in Callers \ {c} : "maint" \in Kinds(cs[d].op) => ~cs[c].clean /\ ~cs[d].clean
  BY <1>7 DEF IInv, Alone
<1>10. \A d \in Callers : cs'[d] = cs[d] \/ cs'[d] = Away
  BY <1>2
<1>a. Away.op = "none" /\ Away.at = "none" /\ ~Away.clean /\ Kinds("none") = {}
  BY DEF Away, Kinds
<1>11. Types'
  BY <1>1, <1>2, <1>4, <1>6 DEF Types
<1>12. Placed'
  BY <1>2, <1>3, Nones DEF IInv, Placed, Places, Locked, Away, InHand
<1>13. Down'
  BY <1>1, <1>2, <1>10 DEF IInv, Down
<1>14. Tabled'
  BY <1>1, <1>2, <1>3, Nones DEF IInv, Tabled, Leaving, Accepts
<1>15. Drained'
  BY <1>1, <1>2 DEF IInv, Drained
<1>16. Alone'
  <2>1. \A d, e \in Callers : cs'[d].clean /\ d # e => Kinds(cs'[d].op) \cap Kinds(cs'[e].op) = {}
    BY <1>10, <1>a DEF IInv, Alone
  <2>2. ASSUME NEW d \in Callers, word'.maint # "unknown", "maint" \in Kinds(cs'[d].op)
        PROVE  FALSE
    BY <2>2, <1>6, <1>8, <1>9, <1>2, <1>a
  <2>3. \A d \in Callers : word'.run # "unknown" /\ "run" \in Kinds(cs'[d].op) => cs'[d].op \in {"boot", "close"}
    BY <1>6, <1>10, <1>a DEF IInv, Alone
  <2> QED
    BY <2>1, <2>2, <2>3 DEF Alone
<1>17. Reached'
  <2> SUFFICES ASSUME NEW d \in Callers, cs'[d].clean
               PROVE  /\ cs'[d].op \in {"stop", "idle"} /\ cs'[d].at = "save" => Quiet'
                      /\ cs'[d].op = "destroy" /\ cs'[d].at \in {"clear", "unlist", "cancel", "closed", "delete"} => Quiet'
                      /\ cs'[d].op = "destroy" /\ cs'[d].at \in {"unlist", "cancel", "closed", "delete"} =>
                           disk'.running = "off" /\ ~disk'.maint /\ ~disk'.created
                      /\ cs'[d].at = "savemaint" /\ listed' # None /\ Accepts(listed)' =>
                           rt'[listed'].maint = (cs'[d].op = "on")
    BY DEF Reached
  <2>1. cs'[d] = cs[d] /\ d # c
    BY <1>2, <1>a
  <2>2. cs[d].op = "destroy" => "maint" \in Kinds(cs[d].op)
    BY KindsOf DEF AllOps
  <2>3. cs[d].op # "destroy"
    BY <1>9, <2>1, <2>2
  <2> QED
    BY <1>1, <2>1, <2>3 DEF IInv, Reached, Quiet, Accepts
<1>18. Kept'
  <2>1. word'.maint \in {"on", "off"} =>
          /\ cs[c].clean /\ word'.maint = w /\ disk'.maint = (w = "on")
          /\ listed # None /\ Accepts(listed) => rt[listed].maint = (w = "on")
    BY <1>1, <1>6, <1>8 DEF IInv, Reached
  <2>2. word'.maint # "gone"
    BY <1>1, <1>6, <1>8
  <2>3. \A d \in Callers : cs'[d].op = "boot" => cs'[d] = cs[d]
    BY <1>2, <1>10, <1>a
  <2>4. word.run = "on" => disk'.running = "on"
    BY <1>6 DEF IInv, Kept
  <2>5. word.run = "off" => /\ disk'.running = "off" /\ Quiet' /\ (life' # "down" => ~mem'.desired)
                            /\ \A d \in Callers : cs'[d].op = "boot" => cs'[d].at = "list"
    BY <1>1, <1>4, <1>6, <2>3 DEF IInv, Kept, Quiet, Accepts
  <2> QED
    BY <1>1, <1>4, <1>6, <2>1, <2>2, <2>4, <2>5 DEF Kept, Accepts
<1> QED
  BY <1>11, <1>12, <1>13, <1>14, <1>15, <1>16, <1>17, <1>18, TypesOKNext DEF IInv

(* Clearing the marks of a destroyed app, all of them or a few.            *)
LEMMA clearAppStateInv ==
    ASSUME IInv, NEW c \in Callers, clearAppState(c)
    PROVE  IInv'
<1>1. /\ cs[c].at = "clear" /\ Types /\ UNCHANGED <<life, listed, rt, word>>
      /\ cs[c].op = "destroy"
  <2>1. cs[c].at = "clear" /\ UNCHANGED <<life, listed, rt, word>>
    BY DEF clearAppState
  <2> QED
    BY <2>1, TypesOK DEF IInv, Placed, Places
<1>2. /\ cs' \in [Callers -> CallType] /\ \A d \in Callers \ {c} : cs'[d] = cs[d]
      /\ \/ /\ cs'[c].op = "destroy" /\ cs'[c].at = "unlist" /\ cs'[c].r = cs[c].r
            /\ cs'[c].clean = cs[c].clean /\ lock' = lock
            /\ disk' = Cleared(disk, 3)
         \/ cs'[c] = Away /\ lock' = IF lock = c THEN None ELSE lock
  BY <1>1, ReturnMoves, GotoMoves DEF clearAppState, Spots
<1>3. lock = c /\ cs[c].r # None
  BY <1>1 DEF IInv, Placed, Locked, InHand
<1>4. mem' \in MemType
  BY <1>1 DEF clearAppState, Types, MemType
<1>5. /\ disk' \in DiskType
      /\ disk' = Cleared(disk, 3) => disk'.running = "off" /\ ~disk'.maint /\ ~disk'.created
  <2>1. \A n \in 0..3 : Cleared(disk, n) \in DiskType
    BY <1>1 DEF Types, DiskType, Cleared
  <2>2. LET x == Cleared(disk, 3) IN x.running = "off" /\ ~x.maint /\ ~x.created
    BY <1>1 DEF Types, DiskType, Cleared
  <2> QED
    BY <2>1, <2>2 DEF clearAppState
<1>7. "run" \in Kinds(cs[c].op) /\ "maint" \in Kinds(cs[c].op)
  BY <1>1, KindsOf DEF AllOps
<1>8. word.run = "unknown" /\ word.maint = "unknown"
  BY <1>1, <1>7 DEF IInv, Alone
<1>9. \A d \in Callers \ {c} : Kinds(cs[d].op) \cap {"run", "maint"} # {} => ~cs[c].clean /\ ~cs[d].clean
  BY <1>7 DEF IInv, Alone
<1>10. \A d \in Callers : \/ cs'[d].op = cs[d].op /\ cs'[d].clean = cs[d].clean
                          \/ cs'[d] = Away
  BY <1>1, <1>2
<1>a. Away.op = "none" /\ Away.at = "none" /\ ~Away.clean /\ Kinds("none") = {}
  BY DEF Away, Kinds
<1>11. Types'
  BY <1>1, <1>2, <1>4, <1>5 DEF Types
<1>12. Placed'
  <2>1. \A d \in Callers \ {c} : lock' # d
    BY <1>2, <1>3, Nones
  <2>2. \A d \in Callers \ {c} : lock' = d <=> Locked(d)'
    BY <1>2, <1>3, <2>1 DEF IInv, Placed, Locked
  <2>3. lock' = c <=> Locked(c)'
    BY <1>2, <1>3, <1>a, Nones DEF Locked
  <2> QED
    BY <1>2, <1>3, <2>2, <2>3, <1>a DEF IInv, Placed, Places, InHand
<1>13. Down'
  BY <1>1, <1>2, <1>a DEF IInv, Down
<1>14. Tabled'
  <2>1. ~Leaving(c) /\ ~Leaving(c)'
    BY <1>1, <1>2, <1>a DEF Leaving
  <2>2. \A d \in Callers \ {c} : ~Leaving(d) /\ ~Leaving(d)' /\ lock' # d
    BY <1>2, <1>3, Nones DEF Leaving
  <2>3. lock' = c => listed' = cs'[c].r
    BY <1>1, <1>2, <1>3, Nones DEF IInv, Tabled
  <2> QED
    BY <1>1, <2>1, <2>2, <2>3 DEF IInv, Tabled, Accepts
<1>15. Drained'
  BY <1>1, <1>2 DEF IInv, Drained
<1>16. Alone'
  BY <1>1, <1>8, <1>10, <1>a DEF IInv, Alone
<1>17. Reached'
  <2> SUFFICES ASSUME NEW d \in Callers, cs'[d].clean
               PROVE  /\ cs'[d].op \in {"stop", "idle"} /\ cs'[d].at = "save" => Quiet'
                      /\ cs'[d].op = "destroy" /\ cs'[d].at \in {"clear", "unlist", "cancel", "closed", "delete"} => Quiet'
                      /\ cs'[d].op = "destroy" /\ cs'[d].at \in {"unlist", "cancel", "closed", "delete"} =>
                           disk'.running = "off" /\ ~disk'.maint /\ ~disk'.created
                      /\ cs'[d].at = "savemaint" /\ listed' # None /\ Accepts(listed)' =>
                           rt'[listed'].maint = (cs'[d].op = "on")
    BY DEF Reached
  <2>1. CASE d = c
    <3>1. cs[c].clean /\ cs'[c].at = "unlist" /\ disk' = Cleared(disk, 3)
      BY <1>2, <2>1, <1>a
    <3>2. Quiet'
      BY <1>1, <3>1 DEF IInv, Reached, Quiet, Accepts
    <3> QED
      BY <1>2, <1>5, <2>1, <3>1, <3>2
  <2>2. CASE d # c
    <3>1. cs'[d] = cs[d]
      BY <1>2, <2>2
    <3>2. cs[d].op \notin {"stop", "idle", "destroy", "on", "off"}
      BY <1>9, <2>2, <3>1, KindsOf DEF AllOps
    <3>3. cs[d].at # "savemaint"
      BY <1>1, <3>2 DEF IInv, Placed, Places
    <3> QED
      BY <3>1, <3>2, <3>3
  <2> QED
    BY <2>1, <2>2
<1>18. Kept'
  BY <1>1, <1>8 DEF Kept
<1> QED
  BY <1>11, <1>12, <1>13, <1>14, <1>15, <1>16, <1>17, <1>18, TypesOKNext DEF IInv

-----------------------------------------------------------------------------
(* The app table, the rescan lock and the end of goroutines.               *)

LEMMA LockInv ==
    ASSUME IInv, NEW c \in Callers, Lock(c)
    PROVE  IInv'
<1> DEFINE a == IF cs[c].op = "destroy" THEN "lookup" ELSE "scan"
<1>1. /\ cs[c].at = "lock" /\ Types /\ lock = None /\ lock' = c /\ Goto(c, a)
      /\ UNCHANGED <<life, disk, mem, listed, rt, word>>
      /\ cs[c].op \in {"start", "wake", "destroy", "rescan"}
  <2>1. cs[c].at = "lock" /\ lock = None /\ lock' = c /\ Goto(c, a)
        /\ UNCHANGED <<life, disk, mem, listed, rt, word>>
    BY DEF Lock
  <2> QED
    BY <2>1, TypesOK DEF IInv, Placed, Places
<1>2. a \in Spots /\ a \in {"lookup", "scan"} /\ a \in Places(cs[c].op) /\ (cs[c].op # "destroy" => a = "scan")
  BY <1>1 DEF Spots, Places
<1> HIDE DEF a
<1>3. /\ cs' \in [Callers -> CallType] /\ \A d \in Callers \ {c} : cs'[d] = cs[d]
      /\ cs'[c].op = cs[c].op /\ cs'[c].at = a /\ cs'[c].r = cs[c].r /\ cs'[c].clean = cs[c].clean
  BY <1>1, <1>2, GotoMoves
<1>4. Types'
  BY <1>1, <1>3 DEF Types
<1>5. Placed'
  BY <1>1, <1>2, <1>3, Nones DEF IInv, Placed, Locked, InHand
<1>6. Down'
  BY <1>1, Nones DEF IInv, Down, Away
<1>7. Tabled'
  BY <1>1, <1>2, <1>3, Nones DEF IInv, Tabled, Leaving, Accepts
<1>8. Drained'
  BY <1>1, <1>3 DEF IInv, Drained
<1>9. Alone'
  BY <1>1, <1>3, ZenonT(40) DEF IInv, Alone
<1>10. Reached' /\ Kept'
  BY <1>1, <1>2, <1>3 DEF IInv, Reached, Kept, Quiet, Accepts
<1> QED
  BY <1>4, <1>5, <1>6, <1>7, <1>8, <1>9, <1>10, TypesOKNext DEF IInv

LEMMA UnlistInv ==
    ASSUME IInv, NEW c \in Callers, Unlist(c)
    PROVE  IInv'
<1>1. /\ cs[c].at = "unlist" /\ Types /\ Goto(c, "cancel") /\ listed' = None
      /\ UNCHANGED <<life, disk, mem, rt, lock, word>>
      /\ cs[c].op = "destroy" /\ lock = c /\ cs[c].r # None
  <2>1. /\ cs[c].at = "unlist" /\ Goto(c, "cancel") /\ listed' = None
        /\ UNCHANGED <<life, disk, mem, rt, lock, word>>
    BY DEF Unlist
  <2> QED
    BY <2>1, TypesOK DEF IInv, Placed, Places, Locked, InHand
<1>3. /\ cs' \in [Callers -> CallType] /\ \A d \in Callers \ {c} : cs'[d] = cs[d]
      /\ cs'[c].op = cs[c].op /\ cs'[c].at = "cancel" /\ cs'[c].r = cs[c].r /\ cs'[c].clean = cs[c].clean
  BY <1>1, GotoMoves DEF Spots
<1>4. Types'
  BY <1>1, <1>3 DEF Types
<1>5. Placed'
  BY <1>1, <1>3, Nones DEF IInv, Placed, Locked, InHand, Places
<1>6. Down'
  BY <1>1, Nones DEF IInv, Down, Away
<1>7. Tabled'
  <2>1. listed = cs[c].r
    BY <1>1 DEF IInv, Tabled
  <2>2. Leaving(c)' /\ \A d \in Callers \ {c} : lock' # d /\ ~Leaving(d)
    BY <1>1, <1>3 DEF Leaving
  <2>3. ~Leaving(c)
    BY <1>1 DEF Leaving
  <2>4. \A r \in Runtimes : Accepts(r)' => r = cs'[c].r
    BY <1>1, <1>3, <2>1, <2>2, <2>3 DEF IInv, Tabled, Accepts
  <2> QED
    BY <1>1, <1>3, <2>2, <2>4 DEF Tabled
<1>8. Drained'
  BY <1>1, <1>3 DEF IInv, Drained
<1>9. Alone'
  BY <1>1, <1>3 DEF IInv, Alone
<1>10. Quiet => Quiet'
  BY <1>1 DEF Quiet, Accepts
<1>11. Reached'
  BY <1>1, <1>3, <1>10 DEF IInv, Reached
<1>12. Kept'
  BY <1>1, <1>3, <1>10 DEF IInv, Kept, Accepts
<1> QED
  BY <1>4, <1>5, <1>6, <1>7, <1>8, <1>9, <1>11, <1>12, TypesOKNext DEF IInv

(* The one who cancels holds the goroutine until it has ended.             *)
LEMMA CancelInv ==
    ASSUME IInv, NEW c \in Callers, Cancel(c)
    PROVE  IInv'
<1>1. /\ cs[c].at = "cancel" /\ Types /\ Goto(c, "closed")
      /\ UNCHANGED <<disk, mem, listed, lock, word>>
      /\ life' = IF cs[c].op = "close" THEN "closing" ELSE life
      /\ cs[c].op \in {"start", "wake", "rescan", "destroy", "close"}
      /\ cs[c].op # "close" => lock = c
  <2>1. /\ cs[c].at = "cancel" /\ Goto(c, "closed")
        /\ UNCHANGED <<disk, mem, listed, lock, word>>
        /\ life' = IF cs[c].op = "close" THEN "closing" ELSE life
    BY DEF Cancel
  <2> QED
    BY <2>1, TypesOK DEF IInv, Placed, Places, Locked
<1>2. \A x \in RuntimeType : LET y == [x EXCEPT !.st = "cancelled"] IN
        y \in RuntimeType /\ y.st = "cancelled" /\ y.run = x.run /\ y.draining = x.draining /\ y.maint = x.maint
  BY DEF RuntimeType
<1>3. /\ rt' \in [Runtimes -> RuntimeType]
      /\ \A r \in Runtimes : \/ rt'[r] = rt[r]
                             \/ /\ rt[r].st = "open" /\ rt'[r].st = "cancelled" /\ rt'[r].run = rt[r].run
                                /\ rt'[r].maint = rt[r].maint
  BY <1>1, <1>2 DEF Types, Cancel
<1>4. \A r \in Runtimes : Accepts(r)' <=> Accepts(r)
  BY <1>3 DEF Accepts
<1>5. /\ cs' \in [Callers -> CallType] /\ \A d \in Callers \ {c} : cs'[d] = cs[d]
      /\ cs'[c].op = cs[c].op /\ cs'[c].at = "closed" /\ cs'[c].r = cs[c].r /\ cs'[c].clean = cs[c].clean
  BY <1>1, GotoMoves DEF Spots
<1>6. Types'
  BY <1>1, <1>3, <1>5 DEF Types
<1>7. Placed'
  BY <1>1, <1>5, Nones DEF IInv, Placed, Locked, InHand, Places
<1>8. life # "down" /\ life' # "down"
  BY <1>1 DEF IInv, Down, Away
<1>9. Down'
  BY <1>8 DEF Down
<1>10. Tabled'
  BY <1>1, <1>4, <1>5 DEF IInv, Tabled, Leaving
<1>11. Drained'
  BY <1>1, <1>3, <1>5 DEF IInv, Drained
<1>12. Alone'
  BY <1>1, <1>5 DEF IInv, Alone
<1>13. Quiet => Quiet'
  BY <1>3, <1>4 DEF Quiet
<1>14. listed # None /\ Accepts(listed)' => Accepts(listed) /\ rt'[listed].maint = rt[listed].maint
  BY <1>1, <1>3, <1>4 DEF Types
<1>15. Reached'
  BY <1>1, <1>5, <1>13, <1>14 DEF IInv, Reached
<1>16. Kept'
  BY <1>1, <1>4, <1>5, <1>8, <1>13, <1>14 DEF IInv, Kept
<1> QED
  BY <1>6, <1>7, <1>9, <1>10, <1>11, <1>12, <1>15, <1>16, TypesOKNext DEF IInv

LEMMA DeleteInv ==
    ASSUME IInv, NEW c \in Callers, Delete(c)
    PROVE  IInv'
<1>1. /\ cs[c].at = "delete" /\ Types /\ Return(c) /\ UNCHANGED <<life, mem, listed, rt>>
      /\ cs[c].op = "destroy" /\ lock = c
  <2>1. cs[c].at = "delete" /\ Return(c) /\ UNCHANGED <<life, mem, listed, rt>>
    BY DEF Delete
  <2> QED
    BY <2>1, TypesOK DEF IInv, Placed, Places, Locked
<1>2. /\ cs' \in [Callers -> CallType] /\ cs'[c] = Away /\ \A d \in Callers \ {c} : cs'[d] = cs[d]
      /\ lock' = None
  BY <1>1, ReturnMoves
<1>3. \/ disk' = disk /\ word' = word
      \/ /\ disk' = [disk EXCEPT !.dir = FALSE]
         /\ word' = IF cs[c].clean THEN [k \in DOMAIN word |-> "gone"] ELSE word
  BY DEF Delete
<1>4. /\ disk' \in DiskType /\ disk'.running = disk.running /\ disk'.maint = disk.maint
      /\ disk'.created = disk.created
      /\ word' \in WordType
      /\ \/ word' = word
         \/ cs[c].clean /\ ~disk'.dir /\ word'.run = "gone" /\ word'.maint = "gone"
  BY <1>1, <1>3 DEF Types, DiskType, WordType
<1>7. "run" \in Kinds(cs[c].op) /\ "maint" \in Kinds(cs[c].op)
  BY <1>1, KindsOf DEF AllOps
<1>8. word.run = "unknown" /\ word.maint = "unknown"
  BY <1>1, <1>7 DEF IInv, Alone
<1>9. \A d \in Callers \ {c} : Kinds(cs[d].op) \cap {"run", "maint"} # {} => ~cs[c].clean /\ ~cs[d].clean
  BY <1>7 DEF IInv, Alone
<1>10. \A d \in Callers : cs'[d] = cs[d] \/ cs'[d] = Away
  BY <1>2
<1>a. Away.op = "none" /\ Away.at = "none" /\ ~Away.clean /\ Kinds("none") = {}
  BY DEF Away, Kinds
<1>11. Types'
  BY <1>1, <1>2, <1>4 DEF Types
<1>12. Placed'
  BY <1>1, <1>2, Nones DEF IInv, Placed, Places, Locked, Away, InHand
<1>13. Down'
  BY <1>1, <1>2, <1>10 DEF IInv, Down
<1>14. Tabled'
  BY <1>1, <1>2, Nones DEF IInv, Tabled, Leaving, Accepts
<1>15. Drained'
  BY <1>1, <1>2 DEF IInv, Drained
<1>16. Alone'
  <2>1. \A d, e \in Callers : cs'[d].clean /\ d # e => Kinds(cs'[d].op) \cap Kinds(cs'[e].op) = {}
    BY <1>10, <1>a DEF IInv, Alone
  <2>2. ASSUME NEW d \in Callers, word' # word
        PROVE  Kinds(cs'[d].op) \cap {"run", "maint"} = {}
    BY <2>2, <1>2, <1>4, <1>9, <1>a
  <2> QED
    BY <1>8, <2>1, <2>2 DEF Alone
<1>17. Reached'
  <2> SUFFICES ASSUME NEW d \in Callers, cs'[d].clean
               PROVE  /\ cs'[d].op \in {"stop", "idle"} /\ cs'[d].at = "save" => Quiet'
                      /\ cs'[d].op = "destroy" /\ cs'[d].at \in {"clear", "unlist", "cancel", "closed", "delete"} => Quiet'
                      /\ cs'[d].op = "destroy" /\ cs'[d].at \in {"unlist", "cancel", "closed", "delete"} =>
                           disk'.running = "off" /\ ~disk'.maint /\ ~disk'.created
                      /\ cs'[d].at = "savemaint" /\ listed' # None /\ Accepts(listed)' =>
                           rt'[listed'].maint = (cs'[d].op = "on")
    BY DEF Reached
  <2>1. cs'[d] = cs[d] /\ d # c
    BY <1>2, <1>a
  <2> QED
    BY <1>1, <1>4, <2>1 DEF IInv, Reached, Quiet, Accepts
<1>18. Kept'
  <2>1. CASE word' = word
    BY <1>8, <2>1 DEF Kept
  <2>2. CASE cs[c].clean /\ ~disk'.dir /\ word'.run = "gone" /\ word'.maint = "gone"
    <3>1. disk'.running = "off" /\ ~disk'.maint /\ ~disk'.created
      BY <1>1, <1>4, <2>2 DEF IInv, Reached
    <3>2. listed = None /\ \A d \in Callers : Leaving(d) => d = c
      BY <1>1 DEF IInv, Tabled, Leaving
    <3>3. \A r \in Runtimes : ~Accepts(r)
      BY <1>1, <3>2, Nones DEF IInv, Tabled, Accepts
    <3> QED
      BY <1>1, <2>2, <3>1, <3>3 DEF Kept, Accepts
  <2> QED
    BY <1>4, <2>1, <2>2
<1> QED
  BY <1>11, <1>12, <1>13, <1>14, <1>15, <1>16, <1>17, <1>18, TypesOKNext DEF IInv

(* The daemon is gone, and only the files are left.                        *)
LEMMA VanishInv ==
    ASSUME IInv, Vanish, UNCHANGED word, disk' \in DiskType,
           disk' = disk \/ (word.run = "unknown" /\ word.maint = "unknown")
    PROVE  IInv'
<1>1. Types
  BY TypesOK DEF IInv
<1>2. /\ life' = "down" /\ mem' = NoMemory /\ listed' = None /\ lock' = None /\ word' = word
      /\ \A r \in Runtimes : rt'[r] = NoRuntime
      /\ \A c \in Callers : cs'[c] = Away
      /\ rt' \in [Runtimes -> RuntimeType] /\ cs' \in [Callers -> CallType]
  BY AwayType DEF Vanish
<1>a. /\ Away.op = "none" /\ Away.at = "none" /\ ~Away.clean /\ Kinds("none") = {}
      /\ NoRuntime.st = "new" /\ Places("none") = {"none"}
  BY DEF Away, Kinds, NoRuntime, Places
<1>3. Types'
  BY <1>1, <1>2, AwayType DEF Types
<1>4. Placed'
  BY <1>2, <1>a, Nones DEF Placed, Locked, InHand
<1>5. Down'
  BY <1>2 DEF Down
<1>6. \A r \in Runtimes : ~Accepts(r)'
  BY <1>2, <1>a DEF Accepts
<1>7. Tabled' /\ Drained'
  BY <1>2, <1>6, <1>a, Nones DEF Tabled, Leaving, Drained
<1>8. Alone' /\ Reached'
  BY <1>2, <1>a DEF Alone, Reached
<1>9. Kept'
  BY <1>2, <1>6, <1>a DEF IInv, Kept, Quiet
<1> QED
  BY <1>3, <1>4, <1>5, <1>7, <1>8, <1>9, TypesOKNext DEF IInv

LEMMA CrashInv ==
    ASSUME IInv, Crash
    PROVE  IInv'
<1>1. Types
  BY TypesOK DEF IInv
<1>2. CASE UNCHANGED disk
  BY <1>1, <1>2, VanishInv DEF Crash, Types
<1>3. CASE /\ \E c \in Callers : cs[c].at = "clear"
           /\ \E n \in 1..2 : disk' = Cleared(disk, n)
  <2>1. PICK c \in Callers : cs[c].at = "clear"
    BY <1>3
  <2>2. cs[c].op = "destroy"
    BY <1>1, <2>1 DEF IInv, Placed, Places, Types, CallType, AllOps
  <2>3. "run" \in Kinds(cs[c].op) /\ "maint" \in Kinds(cs[c].op)
    BY <2>2, KindsOf DEF AllOps
  <2>4. word.run = "unknown" /\ word.maint = "unknown"
    BY <2>2, <2>3 DEF IInv, Alone
  <2>5. disk' \in DiskType
    BY <1>1, <1>3 DEF Types, DiskType, Cleared
  <2> QED
    BY <2>4, <2>5, VanishInv DEF Crash
<1> QED
  BY <1>2, <1>3 DEF Crash

(* <-closed: the one who took the app off the table lets go of it when     *)
(* nothing takes requests any more.                                        *)
LEMMA RescannedMoves ==
    ASSUME Types, NEW c \in Callers, NEW others \in [Callers -> CallType], others[c] = cs[c],
           Rescanned(c, others)
    PROVE  /\ cs' \in [Callers -> CallType] /\ \A d \in Callers \ {c} : cs'[d] = others[d]
           /\ lock' = None
           /\ \/ cs'[c] = Away
              \/ /\ cs[c].op # "rescan" /\ cs'[c].op = cs[c].op /\ cs'[c].at = "retry"
                 /\ cs'[c].clean = cs[c].clean
<1>1. \A k \in CallType : LET m == [k EXCEPT !.at = "retry", !.r = None] IN
         m \in CallType /\ m.op = k.op /\ m.at = "retry" /\ m.clean = k.clean
  BY DEF CallType, Spots
<1> DEFINE again == [cs[c] EXCEPT !.at = "retry", !.r = None]
           u == IF cs[c].op = "rescan" THEN Away ELSE again
<1>2. cs' = [others EXCEPT ![c] = u] /\ lock' = None
  BY DEF Rescanned
<1>3. /\ again \in CallType /\ again.op = cs[c].op /\ again.at = "retry"
      /\ again.clean = cs[c].clean
  BY <1>1 DEF Types
<1>4. u \in CallType /\ (u = Away \/ (cs[c].op # "rescan" /\ u = again))
  BY <1>3, AwayType
<1> HIDE DEF u, again
<1> QED
  BY <1>2, <1>3, <1>4

LEMMA ClosedInv ==
    ASSUME IInv, NEW c \in Callers, Closed(c)
    PROVE  IInv'
<1>1. /\ cs[c].at = "closed" /\ Types /\ UNCHANGED <<disk, word>>
      /\ cs[c].r # None => rt[cs[c].r].st = "closed"
      /\ cs[c].op # "close" => lock = c /\ cs[c].r \in Runtimes
  <2>1. cs[c].at = "closed" /\ UNCHANGED <<disk, word>> /\ (cs[c].r # None => rt[cs[c].r].st = "closed")
    BY DEF Closed
  <2>2. Types
    BY TypesOK DEF IInv
  <2>3. cs[c].op \in {"start", "wake", "rescan", "destroy", "close"}
    BY <2>1, <2>2 DEF IInv, Placed, Places, Types, CallType, AllOps
  <2> QED
    BY <2>1, <2>2, <2>3 DEF IInv, Placed, Locked, Types, CallType
<1>2. CASE cs[c].op = "close"
  BY <1>1, <1>2, VanishInv DEF Closed, Types
<1>3. CASE cs[c].op # "close"
  <2>1. /\ UNCHANGED <<life, disk, mem, listed, rt, word>>
        /\ cs' \in [Callers -> CallType] /\ \A d \in Callers \ {c} : cs'[d] = cs[d]
        /\ \/ /\ cs[c].op = "destroy" /\ lock' = lock /\ cs'[c].op = "destroy" /\ cs'[c].at = "delete"
              /\ cs'[c].clean = cs[c].clean /\ cs'[c].r = cs[c].r
           \/ cs[c].op \in {"rescan", "start", "wake"} /\ cs'[c] = Away /\ lock' = None
           \/ /\ cs[c].op \in {"start", "wake"} /\ cs'[c].op = cs[c].op /\ cs'[c].at = "retry"
              /\ cs'[c].clean = cs[c].clean /\ lock' = None
    <3>1. cs \in [Callers -> CallType]
      BY <1>1 DEF Types
    <3> QED
      BY <1>1, <1>3, <3>1, GotoMoves, RescannedMoves DEF Closed, Spots
  <2>a. Away.op = "none" /\ Away.at = "none" /\ ~Away.clean /\ Kinds("none") = {}
    BY DEF Away, Kinds
  <2>2. Types'
    BY <1>1, <2>1 DEF Types
  <2>3. \A d \in Callers \ {c} : ~Locked(d) /\ lock # d /\ lock' # d
    BY <1>1, <1>3, <2>1, Nones DEF IInv, Placed
  <2>4. Placed'
    <3>1. \A d \in Callers \ {c} : Locked(d)' <=> Locked(d)
      BY <2>1 DEF Locked
    <3>2. lock' = c <=> Locked(c)'
      BY <1>1, <1>3, <2>1, <2>a, Nones DEF Locked
    <3>3. cs'[c].at \in Places(cs'[c].op)
      BY <2>1, <2>a DEF Places
    <3>4. /\ cs'[c].at \in InHand => cs'[c].r # None
          /\ cs'[c].at \notin {"cancel", "closed"}
      BY <1>1, <1>3, <2>1, <2>a, Nones DEF InHand
    <3> QED
      BY <2>1, <2>3, <3>1, <3>2, <3>3, <3>4 DEF IInv, Placed
  <2>5. Down'
    BY <1>1, <2>1, <2>a DEF IInv, Down
  <2>6. Leaving(c) /\ listed = None
    BY <1>1, <1>3 DEF IInv, Tabled, Leaving
  <2>7. \A r \in Runtimes : ~Accepts(r)
    BY <1>1, <1>3, <2>3, <2>6, Nones DEF IInv, Tabled, Leaving, Accepts
  <2>8. Tabled'
    BY <2>1, <2>3, <2>6, <2>7, Nones DEF Tabled, Leaving, Accepts
  <2>9. Drained'
    BY <2>1, <2>7 DEF Drained, Accepts
  <2>10. Alone'
    <3>1. \A d \in Callers : \/ cs'[d].op = cs[d].op /\ cs'[d].clean = cs[d].clean
                             \/ cs'[d].op = "none" /\ ~cs'[d].clean
      BY <2>1, <2>a
    <3> QED
      BY <2>1, <3>1, <2>a DEF IInv, Alone
  <2>11. Quiet' /\ (listed' = None)
    BY <2>1, <2>6, <2>7 DEF Quiet, Accepts
  <2>12. Reached'
    BY <1>1, <2>1, <2>11, <2>a DEF IInv, Reached
  <2>13. Kept'
    BY <2>1, <2>6, <2>7, <2>11, <2>a DEF IInv, Kept, Accepts
  <2> QED
    BY <2>2, <2>4, <2>5, <2>8, <2>9, <2>10, <2>12, <2>13, TypesOKNext DEF IInv
<1> QED
  BY <1>2, <1>3

(* New reads what the files say.                                           *)
LEMMA NewInv ==
    ASSUME IInv, New
    PROVE  IInv'
<1>1. Types
  BY TypesOK DEF IInv
<1> DEFINE m == [desired |-> \/ disk.running = "on"
                             \/ disk.running = "absent" /\ disk.dir /\ Autostart,
                 maint |-> disk.maint, created |-> disk.created, booted |-> FALSE]
           n == NewRuntime(m, "open")
           q == CHOOSE r \in Runtimes : TRUE
<1>2. Runtimes # {}
  BY CallersAssumption, FS_EmptySet, FS_CardinalityType
<1>3. q \in Runtimes
  BY <1>2
<1>4. /\ m \in MemType /\ m.maint = disk.maint
      /\ disk.running = "off" => ~m.desired
  BY <1>1, CallersAssumption DEF Types, DiskType, MemType
<1>5. n \in RuntimeType /\ n.st = "open" /\ ~n.run /\ ~n.draining /\ n.maint = disk.maint
  BY <1>1 DEF NewRuntime, NoRuntime, RuntimeType, Types, DiskType
<1>6. /\ life = "down" /\ life' = "up" /\ mem' = m /\ UNCHANGED <<disk, lock, cs, word>>
      /\ listed' = IF disk.dir THEN q ELSE None
      /\ rt' = IF disk.dir THEN [rt EXCEPT ![q] = n] ELSE rt
  BY DEF New
<1> HIDE DEF m, n, q
<1>7. /\ listed = None /\ \A r \in Runtimes : rt[r] = NoRuntime
      /\ \A c \in Callers : cs[c] = Away
  BY <1>6 DEF IInv, Down
<1>a. /\ Away.op = "none" /\ Away.at = "none" /\ ~Away.clean /\ Kinds("none") = {}
      /\ NoRuntime.st = "new" /\ ~NoRuntime.run /\ ~NoRuntime.draining
  BY DEF Away, Kinds, NoRuntime
<1>8. Types'
  BY <1>1, <1>3, <1>4, <1>5, <1>6 DEF Types
<1>9. Placed' /\ Alone'
  BY <1>6 DEF IInv, Placed, Locked, Alone
<1>10. Down'
  BY <1>6 DEF Down
<1>11. /\ \A r \in Runtimes : ~rt'[r].run /\ ~rt'[r].draining
       /\ \A r \in Runtimes : Accepts(r)' => disk.dir /\ r = q
  BY <1>1, <1>3, <1>5, <1>6, <1>7, <1>a DEF Types, Accepts
<1>12. Tabled' /\ Drained'
  BY <1>6, <1>7, <1>11, <1>a DEF Tabled, Leaving, Drained
<1>13. Reached'
  BY <1>6, <1>7, <1>a DEF Reached
<1>14. listed' # None => rt'[listed'].maint = disk.maint
  BY <1>1, <1>3, <1>5, <1>6 DEF Types
<1>15. Kept'
  <2>1. \A c \in Callers : cs'[c].op # "boot"
    BY <1>6, <1>7, <1>a
  <2> QED
    BY <1>4, <1>6, <1>11, <1>14, <2>1 DEF IInv, Kept, Quiet
<1> QED
  BY <1>8, <1>9, <1>10, <1>12, <1>13, <1>15, TypesOKNext DEF IInv

(* A rescan.  Of as many goroutines as there are callers and one more,     *)
(* one is free for the app that is added.                                  *)
LEMMA OneFree ==
    ASSUME IInv, listed = None, \A c \in Callers : ~Leaving(c)
    PROVE  \E r \in Runtimes : Unreferenced(r)
<1> SUFFICES ASSUME \A r \in Runtimes : ~Unreferenced(r) PROVE FALSE
  OBVIOUS
<1>1. Types
  BY TypesOK DEF IInv
<1>2. ASSUME NEW r \in Runtimes PROVE \E c \in Callers : cs[c].r = r
  <2>1. ~Accepts(r)
    BY Nones DEF IInv, Tabled
  <2>2. rt[r].st \in {"new", "closed"}
    BY <1>1, <2>1 DEF Types, RuntimeType, Accepts
  <2> QED
    BY <2>2, Nones DEF Unreferenced
<1> DEFINE f == [r \in Runtimes |-> CHOOSE c \in Callers : cs[c].r = r]
<1>3. f \in [Runtimes -> Callers] /\ \A r \in Runtimes : cs[f[r]].r = r
  BY <1>2
<1> HIDE DEF f
<1>4. Cardinality(Callers) < Cardinality(Runtimes)
  BY CallersAssumption, FS_CardinalityType
<1>5. \E r, s \in Runtimes : r # s /\ f[r] = f[s]
  BY <1>3, <1>4, CallersAssumption, FS_PigeonHole
<1> QED
  BY <1>3, <1>5

LEMMA RescanTableInv ==
    ASSUME IInv, NEW c \in Callers, RescanTable(c)
    PROVE  IInv'
<1>1. /\ cs[c].at = "scan" /\ Types /\ UNCHANGED <<life, disk, mem, word>>
      /\ lock = c /\ cs[c].op \in {"start", "wake", "rescan"}
  <2>1. cs[c].at = "scan" /\ UNCHANGED <<life, disk, mem, word>>
    BY DEF RescanTable
  <2>2. Types
    BY TypesOK DEF IInv
  <2>3. cs[c].op \in {"start", "wake", "rescan"}
    BY <2>1, <2>2 DEF IInv, Placed, Places, Types, CallType, AllOps
  <2> QED
    BY <2>1, <2>2, <2>3 DEF IInv, Placed, Locked
<1>a. Away.op = "none" /\ Away.at = "none" /\ ~Away.clean /\ Kinds("none") = {} /\ Places("none") = {"none"}
  BY DEF Away, Kinds, Places
<1>b. /\ \A d \in Callers : ~Leaving(d)
      /\ \A d \in Callers \ {c} : lock # d /\ ~Locked(d)
      /\ \A r \in Runtimes : Accepts(r) => listed = r
      /\ life # "down"
  BY <1>1, <1>a DEF IInv, Placed, Tabled, Leaving, Down
<1>n. "maint" \notin Kinds(cs[c].op)
  BY <1>1, KindsOf DEF AllOps
<1>m. /\ Missed \in [Callers -> CallType] /\ Missed[c] = cs[c]
      /\ \A d \in Callers : /\ Missed[d].op = cs[d].op /\ Missed[d].at = cs[d].at /\ Missed[d].r = cs[d].r
                            /\ Missed[d].clean => cs[d].clean /\ "maint" \notin Kinds(cs[d].op)
  <2>1. \A k \in CallType : LET y == [k EXCEPT !.clean = FALSE] IN
          y \in CallType /\ y.op = k.op /\ y.at = k.at /\ y.r = k.r /\ ~y.clean
    BY DEF CallType
  <2> QED
    BY <1>1, <1>n, <2>1 DEF Missed, Types
<1> DEFINE Ended == /\ cs' \in [Callers -> CallType] /\ lock' = None
                    /\ \A d \in Callers \ {c} :
                          /\ cs'[d].op = cs[d].op /\ cs'[d].at = cs[d].at /\ cs'[d].r = cs[d].r
                          /\ cs'[d].clean => cs[d].clean
                    /\ \/ cs'[c] = Away
                       \/ /\ cs[c].op # "rescan" /\ cs'[c].op = cs[c].op /\ cs'[c].at = "retry"
                          /\ cs'[c].clean = cs[c].clean
<1>e. ASSUME Ended
      PROVE  Placed' /\ Alone' /\ Down'
  <2>1. \A d \in Callers \ {c} : (Locked(d)' <=> Locked(d)) /\ lock' # d
    BY <1>1, <1>e, Nones DEF Locked
  <2>2. ~Locked(c)' /\ lock' # c
    BY <1>1, <1>e, <1>a, Nones DEF Locked
  <2>3. cs'[c].at \in Places(cs'[c].op) /\ cs'[c].at \notin InHand \cup {"cancel", "closed"}
    BY <1>1, <1>e, <1>a DEF Places, InHand
  <2>4. Placed'
    BY <1>b, <1>e, <2>1, <2>2, <2>3 DEF IInv, Placed
  <2>5. \A d \in Callers : /\ cs'[d].op = cs[d].op \/ cs'[d].op = "none"
                           /\ cs'[d].clean => cs[d].clean /\ cs'[d].op = cs[d].op
    BY <1>1, <1>e, <1>a
  <2>6. Alone'
    BY <1>1, <2>5, <1>a DEF IInv, Alone
  <2> QED
    BY <1>1, <1>b, <2>4, <2>6 DEF Down
<1>2. CASE Ended /\ UNCHANGED <<listed, rt>>
  <2>1. Types'
    BY <1>1, <1>2 DEF Types
  <2>2. Tabled'
    BY <1>b, <1>2, Nones DEF Tabled, Leaving, Accepts
  <2>3. Drained'
    BY <1>1, <1>2 DEF IInv, Drained
  <2>4. Reached'
    <3>1. cs'[c].at \in {"none", "retry"} /\ cs'[c].op # "destroy"
      BY <1>1, <1>2, <1>a
    <3> QED
      BY <1>1, <1>2, <3>1 DEF IInv, Reached, Quiet, Accepts
  <2>5. Kept'
    <3>1. cs'[c].op # "boot"
      BY <1>1, <1>2, <1>a
    <3> QED
      BY <1>1, <1>2, <3>1 DEF IInv, Kept, Quiet, Accepts
  <2> QED
    BY <1>2, <1>e, <2>1, <2>2, <2>3, <2>4, <2>5, TypesOKNext DEF IInv
<1> DEFINE q == CHOOSE r \in Runtimes : Unreferenced(r)
           st == IF life = "closing" THEN "cancelled" ELSE "open"
           n == NewRuntime(mem, st)
<1>3. CASE /\ disk.dir /\ listed = None /\ listed' = q /\ rt' = [rt EXCEPT ![q] = n]
           /\ Rescanned(c, Missed)
  <2>1. q \in Runtimes
    BY <1>3, <1>b, OneFree
  <2>2. n \in RuntimeType /\ ~n.run /\ ~n.draining /\ n.maint = mem.maint
    BY <1>1 DEF NewRuntime, NoRuntime, RuntimeType, Types, MemType
  <2> HIDE DEF q, n, st
  <2>3. Ended /\ \A d \in Callers \ {c} : cs'[d].clean => "maint" \notin Kinds(cs[d].op)
    BY <1>1, <1>3, <1>m, RescannedMoves
  <2>4. Types'
    BY <1>1, <1>3, <2>1, <2>2, <2>3 DEF Types
  <2>5. \A r \in Runtimes : Accepts(r)' => r = q /\ ~rt'[r].run /\ ~rt'[r].draining
    BY <1>1, <1>3, <1>b, <2>1, <2>2, Nones DEF Types, Accepts
  <2>6. Tabled'
    BY <1>3, <2>3, <2>5, Nones DEF Tabled, Leaving
  <2>7. Drained'
    BY <2>5 DEF Drained, Accepts
  <2>8. Quiet'
    BY <2>5 DEF Quiet
  <2>9. Reached'
    <3> SUFFICES ASSUME NEW d \in Callers, cs'[d].clean
                 PROVE  /\ ~(cs'[d].op = "destroy" /\ cs'[d].at \in {"clear", "unlist", "cancel", "closed", "delete"})
                        /\ cs'[d].at # "savemaint"
      BY <2>8 DEF Reached
    <3>1. CASE d = c
      BY <1>1, <2>3, <3>1, <1>a
    <3>2. CASE d # c
      <4>1. cs'[d].op = cs[d].op /\ cs'[d].at = cs[d].at /\ "maint" \notin Kinds(cs[d].op)
        BY <2>3, <3>2
      <4>2. cs[d].op \notin {"on", "off", "destroy"}
        BY <4>1, KindsOf DEF AllOps
      <4>3. cs[d].at # "savemaint"
        BY <1>1, <4>2 DEF IInv, Placed, Places
      <4> QED
        BY <4>1, <4>2, <4>3
    <3> QED
      BY <3>1, <3>2
  <2>10. Kept'
    <3>1. rt'[listed'].maint = mem.maint
      BY <1>1, <1>3, <2>1, <2>2 DEF Types
    <3>2. cs'[c].op # "boot"
      BY <1>1, <2>3, <1>a
    <3>3. \A d \in Callers : cs'[d].op = "boot" => cs[d].op = "boot" /\ cs'[d].at = cs[d].at
      BY <2>3, <3>2
    <3> QED
      BY <1>1, <1>3, <1>b, <2>8, <3>1, <3>3 DEF IInv, Kept
  <2> QED
    BY <2>3, <1>e, <2>4, <2>6, <2>7, <2>9, <2>10, TypesOKNext DEF IInv
<1>4. CASE /\ listed # None /\ cs' = [cs EXCEPT ![c].r = listed, ![c].at = "remove"]
           /\ listed' = None /\ UNCHANGED <<rt, lock>>
  <2>1. \A k \in CallType : LET y == [k EXCEPT !.r = listed, !.at = "remove"] IN
          y \in CallType /\ y.op = k.op /\ y.at = "remove" /\ y.r = listed /\ y.clean = k.clean
    BY <1>1 DEF CallType, Spots, Types
  <2>2. cs' = [cs EXCEPT ![c] = [cs[c] EXCEPT !.r = listed, !.at = "remove"]]
    BY <1>4, <1>1 DEF Types
  <2>3. /\ cs' \in [Callers -> CallType] /\ \A d \in Callers \ {c} : cs'[d] = cs[d]
        /\ cs'[c].op = cs[c].op /\ cs'[c].at = "remove" /\ cs'[c].r = listed
        /\ cs'[c].clean = cs[c].clean
    BY <1>1, <2>1, <2>2 DEF Types
  <2>4. Types'
    BY <1>1, <1>4, <2>3 DEF Types
  <2>5. Placed'
    <3>1. cs'[c].at \in Places(cs'[c].op)
      BY <1>1, <2>3 DEF Places
    <3>2. Locked(c)' /\ \A d \in Callers \ {c} : Locked(d)' <=> Locked(d)
      BY <1>1, <2>3 DEF Locked
    <3> QED
      BY <1>1, <1>4, <2>3, <3>1, <3>2 DEF IInv, Placed
  <2>6. Down'
    BY <1>1, <1>b DEF Down
  <2>7. Tabled'
    <3>1. Leaving(c)' /\ \A d \in Callers \ {c} : lock' # d
      BY <1>1, <1>4, <2>3 DEF Leaving
    <3>2. \A r \in Runtimes : Accepts(r)' => cs'[c].r = r
      BY <1>b, <1>4, <2>3 DEF Accepts
    <3> QED
      BY <1>1, <1>4, <2>3, <3>1, <3>2 DEF Tabled
  <2>8. Drained'
    BY <1>1, <1>4, <2>3 DEF IInv, Drained
  <2>9. Alone'
    BY <1>1, <2>3 DEF IInv, Alone
  <2>10. Quiet => Quiet'
    BY <1>4 DEF Quiet, Accepts
  <2>11. Reached'
    BY <1>1, <1>4, <2>3, <2>10 DEF IInv, Reached
  <2>12. Kept'
    BY <1>1, <1>4, <2>3, <2>10 DEF IInv, Kept, Accepts
  <2> QED
    BY <2>4, <2>5, <2>6, <2>7, <2>8, <2>9, <2>11, <2>12, TypesOKNext DEF IInv
<1> HIDE DEF q, n, st
<1>5. ASSUME Rescanned(c, cs) \/ Rescanned(c, Missed) \/ Return(c) PROVE Ended
  <2>1. cs \in [Callers -> CallType]
    BY <1>1 DEF Types
  <2>2. CASE Rescanned(c, cs)
    BY <1>1, <2>1, <2>2, RescannedMoves
  <2>3. CASE Rescanned(c, Missed)
    BY <1>1, <1>m, <2>3, RescannedMoves
  <2>4. CASE Return(c)
    BY <1>1, <2>4, ReturnMoves
  <2> QED
    BY <1>5, <2>2, <2>3, <2>4
<1> HIDE DEF Ended
<1> QED
  BY <1>2, <1>3, <1>4, <1>5 DEF RescanTable, q, n, st

-----------------------------------------------------------------------------
(* A call that begins takes back what was told about the same list, and is *)
(* clean when it finds nobody there.                                       *)
LEMMA BeginInv ==
    ASSUME IInv, NEW c \in Callers, NEW op \in Ops, Begin(c, op)
    PROVE  IInv'
<1> DEFINE peers == {d \in Callers : Kinds(cs[d].op) \cap Kinds(op) # {}}
           fresh == [Away EXCEPT !.op = op, !.at = First(op), !.clean = peers = {}]
<1>t. Types
  BY TypesOK DEF IInv
<1>o. op \in AllOps /\ op \in AllOps \cup {"none"}
  BY OpsAssumption
<1>1. /\ life = "up" /\ cs[c].op = "none" /\ UNCHANGED <<life, disk, listed, rt, lock>>
      /\ mem' \in MemType /\ mem'.desired = mem.desired /\ mem'.maint = mem.maint
  BY <1>t DEF Begin, Types, MemType
<1>2. fresh \in CallType /\ fresh.op = op /\ fresh.at = First(op) /\ fresh.clean = (peers = {})
  BY <1>o DEF Away, CallType, Spots, First
<1>3. \A k \in CallType : LET y == [k EXCEPT !.clean = FALSE] IN
        y \in CallType /\ y.op = k.op /\ y.at = k.at /\ y.r = k.r /\ ~y.clean
  BY DEF CallType
<1>4. cs' = [d \in Callers |-> IF d = c THEN fresh
                              ELSE IF d \in peers THEN [cs[d] EXCEPT !.clean = FALSE] ELSE cs[d]]
  BY DEF Begin
<1>5. /\ cs' \in [Callers -> CallType]
      /\ cs'[c].op = op /\ cs'[c].at = First(op)
      /\ cs'[c].clean => peers = {}
      /\ \A d \in Callers \ {c} : /\ cs'[d].op = cs[d].op /\ cs'[d].at = cs[d].at /\ cs'[d].r = cs[d].r
                                  /\ cs'[d].clean => cs[d].clean /\ d \notin peers
  <2> HIDE DEF fresh, peers
  <2> QED
    BY <1>t, <1>2, <1>3, <1>4 DEF Types
<1>6. /\ word' \in WordType
      /\ word'.run = IF "run" \in Kinds(op) /\ op \notin {"boot", "close"} THEN "unknown" ELSE word.run
      /\ word'.maint = IF "maint" \in Kinds(op) /\ op \notin {"boot", "close"} THEN "unknown" ELSE word.maint
  BY <1>t DEF Begin, Types, WordType
<1>7. lock # c /\ cs[c].at = "none"
  BY <1>1 DEF IInv, Placed, Locked, Places
<1>8. First(op) \in Places(op) /\ First(op) \in {"lock", "list", "lookup"}
      /\ (op = "boot" => First(op) = "list") /\ (op \in {"destroy", "rescan"} => First(op) = "lock")
  BY <1>o DEF First, Places, AllOps
<1>9. Types'
  BY <1>t, <1>1, <1>5, <1>6 DEF Types
<1>10. Placed'
  <2>1. ~Locked(c)'
    BY <1>5, <1>8 DEF Locked
  <2>2. \A d \in Callers \ {c} : Locked(d)' <=> Locked(d)
    BY <1>5 DEF Locked
  <2> QED
    BY <1>1, <1>5, <1>7, <1>8, <2>1, <2>2 DEF IInv, Placed, InHand
<1>11. Down'
  BY <1>1 DEF Down
<1>12. Tabled'
  <2>1. \A d \in Callers : Leaving(d)' <=> Leaving(d)
    BY <1>1, <1>5, <1>7 DEF Leaving
  <2> QED
    BY <1>1, <1>5, <1>7, <2>1 DEF IInv, Tabled, Leaving, Accepts
<1>13. Drained'
  <2> SUFFICES ASSUME NEW r \in Runtimes, rt[r].st = "open", rt[r].draining
               PROVE  \E d \in Callers : cs'[d].r = r /\ cs'[d].at = "call" /\ cs'[d].op \in {"stop", "restart", "destroy"}
    BY <1>1 DEF Drained
  <2>1. PICK d \in Callers : cs[d].r = r /\ cs[d].at = "call" /\ cs[d].op \in {"stop", "restart", "destroy"}
    BY DEF IInv, Drained
  <2> QED
    BY <1>5, <1>7, <2>1
<1>14. Alone'
  <2>1. Kinds("none") = {}
    BY DEF Kinds
  <2>2. ASSUME NEW d \in Callers, NEW e \in Callers, cs'[d].clean, d # e
        PROVE  Kinds(cs'[d].op) \cap Kinds(cs'[e].op) = {}
    <3>1. CASE d = c
      BY <1>5, <2>2, <3>1
    <3>2. CASE e = c
      BY <1>5, <2>2, <3>2
    <3>3. CASE d # c /\ e # c
      BY <1>5, <2>2, <3>3 DEF IInv, Alone
    <3> QED
      BY <3>1, <3>2, <3>3
  <2>3. ASSUME NEW d \in Callers
        PROVE  /\ word'.run # "unknown" /\ "run" \in Kinds(cs'[d].op) => cs'[d].op \in {"boot", "close"}
               /\ word'.maint # "unknown" => "maint" \notin Kinds(cs'[d].op)
    <3>1. CASE d = c
      <4>1. op \in {"boot", "close"} => "maint" \notin Kinds(op)
        BY <1>o, KindsOf
      <4> QED
        BY <1>5, <1>6, <3>1, <4>1
    <3>2. CASE d # c
      BY <1>5, <1>6, <3>2 DEF IInv, Alone
    <3> QED
      BY <3>1, <3>2
  <2> QED
    BY <2>2, <2>3 DEF Alone
<1>15. Reached'
  <2> SUFFICES ASSUME NEW d \in Callers, cs'[d].clean
               PROVE  /\ cs'[d].op \in {"stop", "idle"} /\ cs'[d].at = "save" => Quiet'
                      /\ cs'[d].op = "destroy" /\ cs'[d].at \in {"clear", "unlist", "cancel", "closed", "delete"} => Quiet'
                      /\ cs'[d].op = "destroy" /\ cs'[d].at \in {"unlist", "cancel", "closed", "delete"} =>
                           disk'.running = "off" /\ ~disk'.maint /\ ~disk'.created
                      /\ cs'[d].at = "savemaint" /\ listed' # None /\ Accepts(listed)' =>
                           rt'[listed'].maint = (cs'[d].op = "on")
    BY DEF Reached
  <2>1. CASE d = c
    BY <1>5, <1>8, <2>1
  <2>2. CASE d # c
    BY <1>1, <1>5, <2>2 DEF IInv, Reached, Quiet, Accepts
  <2> QED
    BY <2>1, <2>2
<1>16. Kept'
  <2>1. word'.run \in {"unknown", word.run} /\ word'.maint \in {"unknown", word.maint}
    BY <1>6
  <2>2. \A d \in Callers : cs'[d].op = "boot" =>
           cs'[d].at = "list" \/ (cs[d].op = "boot" /\ cs'[d].at = cs[d].at)
    BY <1>5, <1>8
  <2> QED
    BY <1>1, <2>1, <2>2 DEF IInv, Kept, Quiet, Accepts
<1> QED
  BY <1>9, <1>10, <1>11, <1>12, <1>13, <1>14, <1>15, <1>16, TypesOKNext DEF IInv

-----------------------------------------------------------------------------
(* The invariant is inductive.                                             *)

LEMMA StutterInv ==
    ASSUME IInv, UNCHANGED vars
    PROVE  IInv'
<1>1. UNCHANGED <<life, disk, mem, listed, rt, lock, cs, word>>
  BY DEF vars
<1>2. TypeOK'
  BY <1>1 DEF IInv, TypeOK
<1>3. Placed' /\ Down' /\ Tabled' /\ Drained'
  BY <1>1 DEF IInv, Placed, Locked, Down, Tabled, Leaving, Accepts, Drained
<1>4. Alone' /\ Reached' /\ Kept'
  BY <1>1 DEF IInv, Alone, Reached, Kept, Quiet, Accepts
<1> QED
  BY <1>2, <1>3, <1>4 DEF IInv

LEMMA NextInv == IInv /\ [Next]_vars => IInv'
<1> SUFFICES ASSUME IInv, [Next]_vars PROVE IInv'
  OBVIOUS
<1>1. ASSUME NEW c \in Callers, Step(c) PROVE IInv'
  <2>1. CASE \/ lookup(c) \/ StartCall(c) \/ BootList(c) \/ drain(c) \/ StopCall(c)
             \/ RollCall(c) \/ RollEnds(c) \/ RestartCall(c) \/ IdleCall(c)
             \/ MaintenanceCall(c) \/ RemoveCall(c)
    <3>1. Walk(c)
      BY <2>1, lookupWalks, StartCallWalks, BootListWalks, drainWalks, StopCallWalks,
         RollCallWalks, RollEndsWalks, RestartCallWalks, IdleCallWalks,
         MaintenanceCallWalks, RemoveCallWalks
    <3> QED
      BY <3>1, WalkInv
  <2>2. CASE setDesired(c) \/ saveMaintenance(c) \/ clearAppState(c)
    BY <2>2, setDesiredInv, saveMaintenanceInv, clearAppStateInv
  <2>3. CASE RescanTable(c) \/ Unlist(c) \/ Cancel(c) \/ Closed(c) \/ Delete(c)
    BY <2>3, RescanTableInv, UnlistInv, CancelInv, ClosedInv, DeleteInv
  <2> QED
    BY <1>1, <2>1, <2>2, <2>3 DEF Step
<1>2. ASSUME NEW c \in Callers, Rolled(c) \/ Lock(c) \/ \E op \in Ops : Begin(c, op)
      PROVE  IInv'
  BY <1>2, RolledWalks, WalkInv, LockInv, BeginInv
<1>3. ASSUME NEW r \in Runtimes, LoopEnds(r) \/ AppExits(r) \/ markCreated(r) PROVE IInv'
  BY <1>3, LoopEndsInv, AppExitsInv, markCreatedInv
<1>4. CASE New \/ Crash \/ FolderChanges
  BY <1>4, NewInv, CrashInv, FolderChangesInv
<1>5. CASE UNCHANGED vars
  BY <1>5, StutterInv
<1> QED
  BY <1>1, <1>2, <1>3, <1>4, <1>5 DEF Next

LEMMA Inductive == Spec => []IInv
<1> QED
  BY InitInv, NextInv, PTL DEF Spec

-----------------------------------------------------------------------------
(* Whatever starts, stops, rescans, destroys, boots, closes and crashes    *)
(* interleave, an app has one goroutine, and that one answers 503 only for *)
(* a caller that is about to stop it (Rescan, cancel, stopApp, drain).     *)
THEOREM OneOwner == Spec => []LoopsOwned
<1>1. IInv => LoopsOwned
  BY OneAccepts DEF LoopsOwned, OneLoop, DrainingOwned, IInv, Drained
<1> QED
  BY <1>1, Inductive, PTL

(* What startApp, stopApp and SetMaintenance answered is in the lists, in  *)
(* the goroutine and, after a crash, in the next daemon.                   *)
THEOREM IntentSurvives == Spec => []IntentKept
<1>1. IInv => IntentKept
  BY DEF IntentKept, RunIntentKept, MaintenanceKept, IInv, Kept, Quiet
<1> QED
  BY <1>1, Inductive, PTL

(* Destroy leaves no folder, no mark and nothing that runs, unless another *)
(* call for the app overlapped it.                                         *)
THEOREM DestroyIsClean == Spec => []DestroyLeavesNothing
<1>1. IInv => DestroyLeavesNothing
  BY DEF DestroyLeavesNothing, IInv, Kept
<1> QED
  BY <1>1, Inductive, PTL
=============================================================================
