---------------------------- MODULE TrafficProofs ----------------------------
(* Theorems about Traffic, for every finite set of requests, ports and     *)
(* upstream objects.                                                       *)
EXTENDS Traffic, FiniteSetTheorems, TLAPS

-----------------------------------------------------------------------------
(* The inductive invariant.                                                *)

Holding == {"picked", "counted", "serving", "served"}

(* A request holds an upstream from pick to done.                          *)
Placed ==
    \A q \in Reqs : /\ req[q].u # None <=> req[q].at \in Holding
                    /\ req[q].tied => req[q].u # None

(* An upstream that is routed is that of its port, and one that a request  *)
(* holds has a port, routed or not.                                        *)
Routed ==
    /\ \A p \in Ports : set[p] # None => hosts /\ up[set[p]].port = p
    /\ \A q \in Reqs : req[q].u # None => up[req[q].u].port \in Ports

(* The copy of a tied request is alive; the route table leads to it while  *)
(* it is ready, and the goroutine that retires it watches the counter this *)
(* request is in.                                                          *)
Attached ==
    \A q \in Reqs : req[q].tied =>
        LET p == up[req[q].u].port IN
        /\ hosts
        /\ copy[p] \in {"ready", "retiring", "signalled"}
        /\ copy[p] = "ready" => set[p] = req[q].u
        /\ copy[p] = "retiring" => ret[p].u = req[q].u

(* idleLoop found no request counted, so those counted came after.         *)
Watched == halt.op = "idle" => Counted \subseteq halt.since

IInv == TypeOK /\ CountersExact /\ Placed /\ Routed /\ Attached /\ Watched

-----------------------------------------------------------------------------
(* Counting.                                                               *)

(* A set of requests that gains one, that loses one.                       *)
LEMMA OneMore ==
    ASSUME NEW S \in SUBSET Reqs, NEW q \in Reqs, q \notin S
    PROVE  Cardinality(S \cup {q}) = Cardinality(S) + 1
<1>1. IsFiniteSet(S)
  BY FS_Subset, PortsAssumption
<1> QED
  BY <1>1, FS_AddElement

LEMMA OneLess ==
    ASSUME NEW S \in SUBSET Reqs, NEW q \in S
    PROVE  /\ Cardinality(S \ {q}) = Cardinality(S) - 1
           /\ Cardinality(S) - 1 \in Nat
<1>1. IsFiniteSet(S) /\ IsFiniteSet(S \ {q})
  BY FS_Subset, PortsAssumption
<1>2. Cardinality(S \ {q}) = Cardinality(S) - 1
  BY <1>1, FS_RemoveElement
<1>3. Cardinality(S \ {q}) \in Nat
  BY <1>1, FS_CardinalityType
<1> QED
  BY <1>2, <1>3

LEMMA NoneCounted ==
    ASSUME NEW S \in SUBSET Reqs
    PROVE  Cardinality(S) = 0 <=> S = {}
<1>1. IsFiniteSet(S)
  BY FS_Subset, PortsAssumption
<1> QED
  BY <1>1, FS_EmptySet

-----------------------------------------------------------------------------
(* The route table.                                                        *)

(* A new table routes the ports asked for and no others; a port that stays *)
(* keeps its upstream; an upstream changes only when nothing refers to it. *)
LEMMA SetApp ==
    ASSUME TypeOK, Routed, CountersExact, NEW S \in SUBSET Ports, setApp(S)
    PROVE  /\ set' \in [Ports -> Upstreams \cup {None}]
           /\ up' \in [Upstreams -> [port : Ports \cup {None}, inflight : Nat]]
           /\ \A p \in Ports : set'[p] # None => p \in S /\ up'[set'[p]].port = p
           /\ \A p \in S : set[p] # None => set'[p] = set[p]
           /\ \A q \in Reqs : req[q].u # None => up'[req[q].u] = up[req[q].u]
           /\ \A u \in Upstreams : up'[u].inflight = up[u].inflight
<1> DEFINE new == {p \in S : set[p] = None}
           kept == [p \in Ports |-> IF p \in S THEN set[p] ELSE None]
           live == [u \in Upstreams |-> IF Unreferenced(u) THEN NoUpstream ELSE up[u]]
<1>1. ASSUME NEW u \in Upstreams, Unreferenced(u)
      PROVE  up[u].inflight = 0
  <2>1. OnUpstream(u) = {}
    BY <1>1 DEF Unreferenced, OnUpstream
  <2> QED
    BY <2>1, NoneCounted DEF CountersExact
<1>2. \A u \in Upstreams : /\ live[u] \in [port : Ports \cup {None}, inflight : Nat]
                           /\ live[u].inflight = up[u].inflight
  BY <1>1 DEF TypeOK, NoUpstream
<1>3. /\ \A p \in Ports : set[p] # None => live[set[p]] = up[set[p]]
      /\ \A q \in Reqs : req[q].u # None => live[req[q].u] = up[req[q].u]
  BY DEF TypeOK, Unreferenced
<1>4. kept \in [Ports -> Upstreams \cup {None}]
  BY DEF TypeOK
<1>5. CASE new = {} /\ set' = kept /\ up' = live
  <2> HIDE DEF live
  <2>1. up' \in [Upstreams -> [port : Ports \cup {None}, inflight : Nat]]
    BY <1>2, <1>5 DEF live
  <2> QED
    BY <1>2, <1>3, <1>4, <1>5, <2>1 DEF TypeOK, Routed
<1>6. CASE \E p \in Ports, u \in Upstreams :
              /\ new = {p} /\ Unreferenced(u)
              /\ set' = [kept EXCEPT ![p] = u]
              /\ up' = [live EXCEPT ![u] = [port |-> p, inflight |-> 0]]
  <2> PICK p \in Ports, u \in Upstreams :
              /\ new = {p} /\ Unreferenced(u)
              /\ set' = [kept EXCEPT ![p] = u]
              /\ up' = [live EXCEPT ![u] = [port |-> p, inflight |-> 0]]
    BY <1>6
  <2>1. live \in [Upstreams -> [port : Ports \cup {None}, inflight : Nat]]
    BY <1>2
  <2> HIDE DEF live
  <2>2. /\ \A o \in Ports : set[o] # u
        /\ \A q \in Reqs : req[q].u # u
    BY DEF Unreferenced
  <2>3. up' \in [Upstreams -> [port : Ports \cup {None}, inflight : Nat]]
    BY <2>1
  <2>4. \A o \in Ports : /\ set'[o] = IF o = p THEN u ELSE kept[o]
                         /\ set'[o] # None => o \in S /\ up'[set'[o]].port = o
    BY <1>3, <1>4, <2>1, <2>2, PortsAssumption DEF TypeOK, Routed
  <2>5. \A v \in Upstreams : up'[v].inflight = up[v].inflight
    BY <1>1, <1>2, <2>1
  <2>6. \A q \in Reqs : req[q].u # None => up'[req[q].u] = up[req[q].u]
    BY <1>3, <2>1, <2>2 DEF TypeOK
  <2>7. set' \in [Ports -> Upstreams \cup {None}]
    BY <1>4
  <2> QED
    BY <2>3, <2>4, <2>5, <2>6, <2>7
<1> QED
  BY <1>5, <1>6 DEF setApp

LEMMA Publish ==
    ASSUME TypeOK, Routed, CountersExact, NEW S \in SUBSET Ports, NEW h \in BOOLEAN,
           publishRoutes(S, h)
    PROVE  /\ set' \in [Ports -> Upstreams \cup {None}]
           /\ up' \in [Upstreams -> [port : Ports \cup {None}, inflight : Nat]]
           /\ \A p \in Ports : set'[p] # None => h /\ p \in S /\ up'[set'[p]].port = p
           /\ h => \A p \in S : set[p] # None => set'[p] = set[p]
           /\ \A q \in Reqs : req[q].u # None => up'[req[q].u] = up[req[q].u]
           /\ \A u \in Upstreams : up'[u].inflight = up[u].inflight
<1>1. CASE h
  <2>1. setApp(S)
    BY <1>1 DEF publishRoutes
  <2> QED
    BY <1>1, <2>1, SetApp
<1>2. CASE ~h
  <2>1. setApp({})
    BY <1>2 DEF publishRoutes
  <2> HIDE DEF setApp
  <2> QED
    BY <1>2, <2>1, SetApp
<1> QED
  BY <1>1, <1>2

-----------------------------------------------------------------------------
(* The steps of the requests.                                              *)

RequestType == [at : RequestStates, u : Upstreams \cup {None}, tied : BOOLEAN]

LEMMA ToMoves ==
    ASSUME TypeOK, NEW q \in Reqs, NEW at \in RequestStates, To(q, at)
    PROVE  /\ req' \in [Reqs -> RequestType]
           /\ req'[q].at = at /\ req'[q].u = req[q].u /\ req'[q].tied = req[q].tied
           /\ \A r \in Reqs : r # q => req'[r] = req[r]
<1>1. req \in [Reqs -> RequestType]
  BY DEF TypeOK, RequestType
<1>2. \A r \in RequestType : /\ [r EXCEPT !.at = at] \in RequestType
                             /\ [r EXCEPT !.at = at].at = at
                             /\ [r EXCEPT !.at = at].u = r.u
                             /\ [r EXCEPT !.at = at].tied = r.tied
  BY DEF RequestType
<1>3. req' = [req EXCEPT ![q] = [req[q] EXCEPT !.at = at]]
  BY DEF To
<1> QED
  BY <1>1, <1>2, <1>3

LEMMA ResolveInv ==
    ASSUME IInv, NEW q \in Reqs, Resolve(q) \/ PickNone(q)
    PROVE  IInv'
<1> USE DEF Holding
<1>1. /\ UNCHANGED <<copy, set, up, app, ret, halt, state, draining, hosts, touched>>
      /\ req' \in [Reqs -> RequestType]
      /\ req'[q].at \in {"resolved", "none"} /\ req[q].at \in {"resolved", "none"}
      /\ req[q].u = None /\ req'[q].u = None /\ ~req'[q].tied
      /\ \A r \in Reqs : r # q => req'[r] = req[r]
  <2>1. CASE Resolve(q)
    BY <2>1, ToMoves DEF IInv, Placed, Resolve, RequestStates
  <2>2. CASE PickNone(q)
    BY <2>2 DEF IInv, TypeOK, Placed, PickNone, NotAsked, RequestStates, RequestType
  <2> QED
    BY <2>1, <2>2
<1>2. Counted' = Counted /\ \A u \in Upstreams : OnUpstream(u)' = OnUpstream(u)
  BY <1>1, PortsAssumption DEF Counted, OnUpstream
<1>3. TypeOK' /\ CountersExact' /\ Watched'
  BY <1>1, <1>2 DEF IInv, TypeOK, CountersExact, Watched, RequestType
<1>4. Placed' /\ Routed' /\ Attached'
  BY <1>1 DEF IInv, Placed, Routed, Attached
<1> QED
  BY <1>3, <1>4 DEF IInv

LEMMA PickInv ==
    ASSUME IInv, NEW q \in Reqs, Pick(q)
    PROVE  IInv'
<1> USE DEF Holding
<1> PICK p \in Ports, u \in Upstreams :
      /\ set[p] = u /\ u # None
      /\ req' = [req EXCEPT ![q] = [at |-> "picked", u |-> u, tied |-> copy[p] = "ready"]]
      /\ up' = [up EXCEPT ![u].inflight = @ + 1]
  BY DEF IInv, TypeOK, Pick, pick
<1>1. /\ req[q].at = "resolved" /\ req[q].u = None
      /\ UNCHANGED <<state, draining, hosts, copy, set, app, ret, halt, touched>>
      /\ hosts /\ up[u].port = p
  BY DEF IInv, TypeOK, Placed, Routed, Pick
<1>2. /\ req' \in [Reqs -> RequestType]
      /\ req'[q] = [at |-> "picked", u |-> u, tied |-> copy[p] = "ready"]
      /\ \A r \in Reqs : r # q => req'[r] = req[r]
  BY <1>1 DEF IInv, TypeOK, RequestStates, RequestType
<1>3. /\ up' \in [Upstreams -> [port : Ports \cup {None}, inflight : Nat]]
      /\ \A v \in Upstreams : /\ up'[v].port = up[v].port
                             /\ up'[v].inflight = up[v].inflight + (IF v = u THEN 1 ELSE 0)
  BY <1>1 DEF IInv, TypeOK
<1>4. Counted' = Counted
  BY <1>1, <1>2 DEF Counted
<1>5. \A v \in Upstreams : OnUpstream(v)' = IF v = u THEN OnUpstream(v) \cup {q} ELSE OnUpstream(v)
  BY <1>1, <1>2, PortsAssumption DEF OnUpstream
<1>6. CountersExact'
  <2>1. OnUpstream(u) \in SUBSET Reqs /\ q \notin OnUpstream(u)
    BY <1>1 DEF OnUpstream
  <2>2. Cardinality(OnUpstream(u)') = Cardinality(OnUpstream(u)) + 1
    BY <1>1, <1>5, <2>1, OneMore
  <2>3. \A v \in Upstreams : up'[v].inflight = Cardinality(OnUpstream(v)')
    BY <1>1, <1>3, <1>5, <2>2 DEF IInv, TypeOK, CountersExact
  <2> QED
    BY <1>1, <1>4, <2>3 DEF IInv, CountersExact
<1>7. TypeOK'
  BY <1>1, <1>2, <1>3 DEF IInv, TypeOK, RequestType
<1>8. Placed' /\ Routed' /\ Attached'
  <2>1. Placed'
    BY <1>1, <1>2 DEF IInv, Placed
  <2>2. Routed'
    BY <1>1, <1>2, <1>3 DEF IInv, TypeOK, Routed
  <2>3. Attached'
    <3>1. \A r \in Reqs : r # q /\ req[r].tied => up'[req[r].u].port = up[req[r].u].port
      BY <1>3, PortsAssumption DEF IInv, TypeOK, Placed
    <3>2. \A r \in Reqs : r # q /\ req'[r].tied => up'[req'[r].u].port = up[req[r].u].port
      BY <1>2, <3>1
    <3>3. req'[q].tied => copy[p] = "ready" /\ up'[req'[q].u].port = p /\ req'[q].u = set[p]
      BY <1>1, <1>2, <1>3
    <3> QED
      BY <1>1, <1>2, <3>2, <3>3 DEF IInv, Attached
  <2> QED
    BY <2>1, <2>2, <2>3
<1>9. Watched'
  BY <1>1, <1>4 DEF IInv, Watched
<1> QED
  BY <1>6, <1>7, <1>8, <1>9 DEF IInv

LEMMA CountInv ==
    ASSUME IInv, NEW q \in Reqs, Count(q)
    PROVE  IInv'
<1> USE DEF Holding
<1>1. /\ req[q].at = "picked"
      /\ UNCHANGED <<state, draining, hosts, copy, set, up, ret, touched>>
      /\ app' = app + 1 /\ app' \in Nat
      /\ req' \in [Reqs -> RequestType]
      /\ req'[q].at = "counted" /\ req'[q].u = req[q].u /\ req'[q].tied = req[q].tied
      /\ \A r \in Reqs : r # q => req'[r] = req[r]
  BY ToMoves DEF IInv, TypeOK, Count, RequestStates
<1>2. /\ Counted' = Counted \cup {q} /\ q \notin Counted
      /\ \A u \in Upstreams : OnUpstream(u)' = OnUpstream(u)
  BY <1>1 DEF Counted, OnUpstream
<1>3. /\ halt' \in [op : {"none", "drain", "stop", "idle"}, late : BOOLEAN, since : SUBSET Reqs]
      /\ halt'.op = halt.op
      /\ halt.op = "idle" => halt'.since = halt.since \cup {q}
  BY DEF IInv, TypeOK, Count, Since
<1>4. CountersExact'
  <2>1. Counted \in SUBSET Reqs
    BY DEF Counted
  <2> QED
    BY <1>1, <1>2, <2>1, OneMore DEF IInv, CountersExact
<1>5. TypeOK' /\ Watched'
  BY <1>1, <1>2, <1>3 DEF IInv, TypeOK, Watched, RequestType
<1>6. Placed' /\ Routed' /\ Attached'
  BY <1>1 DEF IInv, Placed, Routed, Attached
<1> QED
  BY <1>4, <1>5, <1>6 DEF IInv

LEMMA ServeInv ==
    ASSUME IInv, NEW q \in Reqs, Dial(q) \/ Serve(q)
    PROVE  IInv'
<1> USE DEF Holding
<1>1. /\ req[q].at \in {"counted", "serving"}
      /\ UNCHANGED <<state, draining, hosts, copy, set, up, app, ret, halt>>
      /\ touched' \in BOOLEAN
      /\ req' \in [Reqs -> RequestType]
      /\ req'[q].at \in {"serving", "served"}
      /\ req'[q].u = req[q].u /\ req'[q].tied = req[q].tied
      /\ \A r \in Reqs : r # q => req'[r] = req[r]
  BY ToMoves DEF IInv, TypeOK, Dial, Serve, Touch, RequestStates
<1>2. Counted' = Counted /\ \A u \in Upstreams : OnUpstream(u)' = OnUpstream(u)
  BY <1>1 DEF Counted, OnUpstream
<1>3. TypeOK' /\ CountersExact' /\ Watched'
  BY <1>1, <1>2 DEF IInv, TypeOK, CountersExact, Watched, RequestType
<1>4. Placed' /\ Routed' /\ Attached'
  BY <1>1 DEF IInv, Placed, Routed, Attached
<1> QED
  BY <1>3, <1>4 DEF IInv

LEMMA DoneCopyInv ==
    ASSUME IInv, NEW q \in Reqs, DoneCopy(q)
    PROVE  IInv'
<1> USE DEF Holding
<1> PICK u \in Upstreams : u = req[q].u /\ u # None
  BY DEF IInv, TypeOK, Placed, DoneCopy
<1>1. /\ req[q].at = "served"
      /\ UNCHANGED <<state, draining, hosts, copy, set, app, ret, halt, touched>>
      /\ up' = [up EXCEPT ![u].inflight = @ - 1]
      /\ req' \in [Reqs -> RequestType]
      /\ req'[q].at = "left" /\ req'[q].u = None /\ ~req'[q].tied
      /\ \A r \in Reqs : r # q => req'[r] = req[r]
  BY DEF IInv, TypeOK, DoneCopy, NotAsked, RequestStates, RequestType
<1>2. Counted' = Counted
  BY <1>1 DEF Counted
<1>3. \A v \in Upstreams : OnUpstream(v)' = IF v = u THEN OnUpstream(v) \ {q} ELSE OnUpstream(v)
  BY <1>1, PortsAssumption DEF OnUpstream
<1>4. /\ Cardinality(OnUpstream(u)') = Cardinality(OnUpstream(u)) - 1
      /\ Cardinality(OnUpstream(u)) - 1 \in Nat
  <2>1. OnUpstream(u) \in SUBSET Reqs /\ q \in OnUpstream(u)
    BY DEF OnUpstream
  <2>2. OnUpstream(u)' = OnUpstream(u) \ {q}
    BY <1>1, <1>3
  <2> QED
    BY <2>1, <2>2, OneLess
<1>5. /\ up' \in [Upstreams -> [port : Ports \cup {None}, inflight : Nat]]
      /\ \A v \in Upstreams : /\ up'[v].port = up[v].port
                             /\ up'[v].inflight = up[v].inflight - (IF v = u THEN 1 ELSE 0)
  BY <1>1, <1>4 DEF IInv, TypeOK, CountersExact
<1>6. CountersExact'
  <2>1. \A v \in Upstreams : up'[v].inflight = Cardinality(OnUpstream(v)')
    BY <1>1, <1>3, <1>4, <1>5 DEF IInv, TypeOK, CountersExact
  <2> QED
    BY <1>1, <1>2, <2>1 DEF IInv, CountersExact
<1>7. TypeOK' /\ Watched'
  BY <1>1, <1>2, <1>5 DEF IInv, TypeOK, Watched, RequestType
<1>8. Placed' /\ Routed' /\ Attached'
  <2>1. \A r \in Reqs : req[r].u # None => up'[req[r].u].port = up[req[r].u].port
    BY <1>5 DEF IInv, TypeOK
  <2>2. \A p \in Ports : set[p] # None => up'[set[p]].port = up[set[p]].port
    BY <1>5 DEF IInv, TypeOK
  <2> QED
    <3>1. Placed'
      BY <1>1 DEF IInv, Placed
    <3>2. Routed'
      <4>1. \A p \in Ports : set'[p] # None => hosts' /\ up'[set'[p]].port = p
        BY <1>1, <2>2 DEF IInv, Routed
      <4>2. \A r \in Reqs : req'[r].u # None => up'[req'[r].u].port \in Ports
        BY <1>1, <2>1 DEF IInv, Routed
      <4> QED
        BY <4>1, <4>2 DEF Routed
    <3>3. Attached'
      <4>1. ASSUME NEW r \in Reqs, req'[r].tied
            PROVE  LET p == up'[req'[r].u].port IN
                   /\ hosts'
                   /\ copy'[p] \in {"ready", "retiring", "signalled"}
                   /\ copy'[p] = "ready" => set'[p] = req'[r].u
                   /\ copy'[p] = "retiring" => ret'[p].u = req'[r].u
        <5>1. r # q /\ req'[r] = req[r]
          BY <1>1, <4>1
        <5>2. up'[req[r].u].port = up[req[r].u].port
          BY <2>1, <4>1, <5>1 DEF IInv, Placed
        <5>3. LET p == up[req[r].u].port IN
              /\ hosts
              /\ copy[p] \in {"ready", "retiring", "signalled"}
              /\ copy[p] = "ready" => set[p] = req[r].u
              /\ copy[p] = "retiring" => ret[p].u = req[r].u
          BY <4>1, <5>1 DEF IInv, Attached
        <5> QED
          BY <1>1, <5>1, <5>2, <5>3
      <4> QED
        BY <4>1, Zenon DEF Attached
    <3> QED
      BY <3>1, <3>2, <3>3
<1> QED
  BY <1>6, <1>7, <1>8 DEF IInv

LEMMA DoneAppInv ==
    ASSUME IInv, NEW q \in Reqs, DoneApp(q)
    PROVE  IInv'
<1> USE DEF Holding
<1>1. /\ req[q].at = "left" /\ req[q].u = None
      /\ UNCHANGED <<state, draining, hosts, copy, set, up, ret, halt, touched>>
      /\ app' = app - 1
      /\ req' \in [Reqs -> RequestType]
      /\ req'[q].at = "none" /\ req'[q].u = None /\ req'[q].tied = req[q].tied
      /\ \A r \in Reqs : r # q => req'[r] = req[r]
  BY ToMoves DEF IInv, TypeOK, Placed, DoneApp, RequestStates
<1>2. /\ Counted' = Counted \ {q} /\ q \in Counted
      /\ \A u \in Upstreams : OnUpstream(u)' = OnUpstream(u)
  BY <1>1 DEF Counted, OnUpstream
<1>3. CountersExact' /\ app' \in Nat
  <2>1. Counted \in SUBSET Reqs
    BY DEF Counted
  <2> QED
    BY <1>1, <1>2, <2>1, OneLess DEF IInv, CountersExact
<1>4. TypeOK' /\ Watched'
  BY <1>1, <1>2, <1>3 DEF IInv, TypeOK, Watched, RequestType
<1>5. Placed' /\ Routed' /\ Attached'
  BY <1>1 DEF IInv, Placed, Routed, Attached
<1> QED
  BY <1>3, <1>4, <1>5 DEF IInv

-----------------------------------------------------------------------------
(* The messages of the app goroutine.                                      *)

(* A step of the app leaves every request where it is; at most it is no    *)
(* longer tied to its copy.                                                *)
Loosened ==
    /\ req' \in [Reqs -> RequestType]
    /\ \A q \in Reqs : /\ req'[q].u = req[q].u /\ req'[q].at = req[q].at
                       /\ req'[q].tied => req[q].tied

HaltType == [op : {"none", "drain", "stop", "idle"}, late : BOOLEAN, since : SUBSET Reqs]

LEMMA HaltTypes ==
    ASSUME TypeOK
    PROVE  /\ halt \in HaltType /\ NoHalt \in HaltType /\ NoHalt.op = "none"
           /\ \A o \in {"none", "drain", "stop", "idle"} :
                /\ [NoHalt EXCEPT !.op = o] \in HaltType /\ [NoHalt EXCEPT !.op = o].op = o
                /\ [halt EXCEPT !.op = o] \in HaltType /\ [halt EXCEPT !.op = o].op = o
           /\ [halt EXCEPT !.late = TRUE] \in HaltType
           /\ [halt EXCEPT !.late = TRUE].op = halt.op
<1>1. NoHalt \in HaltType /\ halt \in HaltType /\ NoHalt.op = "none"
  BY DEF TypeOK, NoHalt, HaltType
<1>2. ASSUME NEW h \in HaltType, NEW o \in {"none", "drain", "stop", "idle"}
      PROVE  /\ [h EXCEPT !.op = o] \in HaltType /\ [h EXCEPT !.op = o].op = o
             /\ [h EXCEPT !.late = TRUE] \in HaltType /\ [h EXCEPT !.late = TRUE].op = h.op
  <2>1. [h EXCEPT !.op = o] \in HaltType /\ [h EXCEPT !.op = o].op = o
    BY DEF HaltType
  <2>2. [h EXCEPT !.late = TRUE] \in HaltType /\ [h EXCEPT !.late = TRUE].op = h.op
    BY DEF HaltType
  <2> QED
    BY <2>1, <2>2
<1> QED
  BY <1>1, <1>2

LEMMA BrokenLoosens ==
    ASSUME TypeOK, NEW D \in SUBSET Ports, req' = Broken(D)
    PROVE  /\ Loosened
           /\ \A q \in Reqs : req'[q].tied => req[q].u = None \/ up[req[q].u].port \notin D
<1>1. req \in [Reqs -> RequestType]
  BY DEF TypeOK, RequestType
<1>2. \A r \in RequestType : /\ [r EXCEPT !.tied = FALSE] \in RequestType
                             /\ [r EXCEPT !.tied = FALSE].at = r.at
                             /\ [r EXCEPT !.tied = FALSE].u = r.u
                             /\ ~[r EXCEPT !.tied = FALSE].tied
  BY DEF RequestType
<1> QED
  BY <1>1, <1>2 DEF Broken, Loosened

LEMMA SameLoosens ==
    ASSUME TypeOK, req' = req
    PROVE  Loosened
BY DEF TypeOK, Loosened, RequestType

LEMMA CountsStay ==
    ASSUME IInv, Loosened, app' = app,
           \A u \in Upstreams : up'[u].inflight = up[u].inflight
    PROVE  CountersExact' /\ Placed' /\ Counted' = Counted
<1>1. Counted' = Counted /\ \A u \in Upstreams : OnUpstream(u)' = OnUpstream(u)
  BY DEF Loosened, Counted, OnUpstream
<1>2. CountersExact'
  BY <1>1 DEF IInv, CountersExact
<1>3. Placed'
  BY DEF IInv, Placed, Loosened
<1> QED
  BY <1>1, <1>2, <1>3

(* A step that publishes new routes: what is left to show is that tied     *)
(* requests are still attached.                                            *)
LEMMA PublishInv ==
    ASSUME IInv, Loosened, NEW S \in SUBSET Ports, publishRoutes(S, hosts'),
           app' = app, halt' \in {halt, NoHalt},
           state' \in {"stopped", "starting", "running", "stopping"},
           draining' \in BOOLEAN, hosts' \in BOOLEAN, touched' \in BOOLEAN,
           copy' \in [Ports -> CopyStates],
           ret' \in [Ports -> [on : BOOLEAN, u : Upstreams \cup {None}, late : BOOLEAN]],
           \A q \in Reqs : req'[q].tied =>
             LET p == up[req[q].u].port IN
             /\ hosts'
             /\ copy'[p] \in {"ready", "retiring", "signalled"}
             /\ copy'[p] = "ready" => copy[p] = "ready" /\ p \in S
             /\ copy'[p] = "retiring" => ret'[p].u = req[q].u
    PROVE  IInv'
<1> HIDE DEF publishRoutes
<1>1. /\ set' \in [Ports -> Upstreams \cup {None}]
      /\ up' \in [Upstreams -> [port : Ports \cup {None}, inflight : Nat]]
      /\ \A p \in Ports : set'[p] # None => hosts' /\ p \in S /\ up'[set'[p]].port = p
      /\ hosts' => \A p \in S : set[p] # None => set'[p] = set[p]
      /\ \A q \in Reqs : req[q].u # None => up'[req[q].u] = up[req[q].u]
      /\ \A u \in Upstreams : up'[u].inflight = up[u].inflight
  BY Publish DEF IInv
<1>2. CountersExact' /\ Placed' /\ Counted' = Counted
  BY <1>1, CountsStay
<1>3. TypeOK'
  <2>1. halt' \in HaltType
    BY HaltTypes DEF IInv
  <2> QED
    BY <1>1, <2>1 DEF IInv, TypeOK, Loosened, RequestType, HaltType
<1>4. Routed'
  BY <1>1 DEF IInv, Routed, Loosened
<1>5. Attached'
  <2> SUFFICES ASSUME NEW q \in Reqs, req'[q].tied
               PROVE  LET p == up'[req'[q].u].port IN
                      /\ hosts'
                      /\ copy'[p] \in {"ready", "retiring", "signalled"}
                      /\ copy'[p] = "ready" => set'[p] = req'[q].u
                      /\ copy'[p] = "retiring" => ret'[p].u = req'[q].u
    BY DEF Attached
  <2>1. /\ req[q].tied /\ req[q].u # None /\ req'[q].u = req[q].u
        /\ up'[req[q].u].port = up[req[q].u].port
    BY <1>1 DEF IInv, Placed, Loosened
  <2>2. PICK o : o = up[req[q].u].port
    OBVIOUS
  <2>3. copy[o] = "ready" => set[o] = req'[q].u
    BY <2>1, <2>2 DEF IInv, Attached
  <2>4. up'[req'[q].u].port = o
    BY <2>1, <2>2
  <2>5. /\ hosts' /\ copy'[o] \in {"ready", "retiring", "signalled"}
        /\ copy'[o] = "ready" => set'[o] = req'[q].u
        /\ copy'[o] = "retiring" => ret'[o].u = req'[q].u
    BY <1>1, <2>1, <2>2, <2>3
  <2> QED
    BY <2>4, <2>5
<1>6. Watched'
  BY <1>2 DEF IInv, Watched, NoHalt
<1> QED
  BY <1>2, <1>3, <1>4, <1>5, <1>6 DEF IInv

(* What a tied request is attached to, for the uses below.                 *)
LEMMA TiedTo ==
    ASSUME IInv, NEW q \in Reqs, req[q].tied
    PROVE  /\ hosts /\ req[q].u \in Upstreams /\ req[q].u # None
           /\ up[req[q].u].port \in Ports
           /\ copy[up[req[q].u].port] \in {"ready", "retiring", "signalled"}
           /\ copy[up[req[q].u].port] = "ready" => set[up[req[q].u].port] = req[q].u
           /\ copy[up[req[q].u].port] = "retiring" => ret[up[req[q].u].port].u = req[q].u
BY DEF IInv, TypeOK, Placed, Routed, Attached

LEMMA CopyReadyInv ==
    ASSUME IInv, NEW p \in Ports, CopyReady(p)
    PROVE  IInv'
<1> DEFINE S == Copies("ready") \cup {p}
<1>1. publishRoutes(S, hosts) /\ S \in SUBSET Ports
  BY DEF CopyReady, Copies
<1>2. /\ UNCHANGED <<draining, hosts, app, ret, halt, req>>
      /\ copy' \in [Ports -> CopyStates] /\ touched' \in BOOLEAN
      /\ state' \in {"stopped", "starting", "running", "stopping"}
      /\ copy[p] = "boot" /\ copy' = [copy EXCEPT ![p] = "ready"]
  BY DEF IInv, TypeOK, CopyReady, CopyStates
<1>3. Loosened
  BY <1>2, SameLoosens DEF IInv
<1>4. \A q \in Reqs : req'[q].tied =>
        LET o == up[req[q].u].port IN
        /\ hosts /\ copy'[o] = copy[o] /\ copy'[o] \in {"ready", "retiring", "signalled"}
        /\ copy'[o] = "ready" => copy[o] = "ready" /\ o \in S
        /\ copy'[o] = "retiring" => ret'[o].u = req[q].u
  BY <1>2, TiedTo DEF IInv, TypeOK, Copies
<1> HIDE DEF S
<1> QED
  BY <1>1, <1>2, <1>3, <1>4, PublishInv DEF IInv, TypeOK

LEMMA RetireInv ==
    ASSUME IInv, NEW p \in Ports, NEW S \in SUBSET Ports, Copies("ready") \ {p} \subseteq S,
           copy[p] = "ready", ret' = Retiring(p), publishRoutes(S, hosts),
           copy' \in [Ports -> CopyStates], copy'[p] = "retiring",
           \A o \in Ports \ {p} : copy'[o] = copy[o] \/ (copy[o] = "boot" /\ copy'[o] = "ready"),
           UNCHANGED <<state, draining, hosts, app, halt, touched, req>>
    PROVE  IInv'
<1>1. Loosened
  BY SameLoosens DEF IInv
<1>2. /\ ret' \in [Ports -> [on : BOOLEAN, u : Upstreams \cup {None}, late : BOOLEAN]]
      /\ hosts => ret'[p].u = set[p]
      /\ \A o \in Ports \ {p} : ret'[o] = ret[o]
  BY DEF IInv, TypeOK, Retiring
<1>3. ASSUME NEW q \in Reqs, req'[q].tied
      PROVE  LET o == up[req[q].u].port IN
             /\ hosts /\ copy'[o] \in {"ready", "retiring", "signalled"}
             /\ copy'[o] = "ready" => copy[o] = "ready" /\ o \in S
             /\ copy'[o] = "retiring" => ret'[o].u = req[q].u
  <2>1. req[q].tied
    BY <1>3
  <2> QED
    BY <1>2, <2>1, TiedTo DEF Copies
<1> QED
  BY <1>1, <1>2, <1>3, PublishInv DEF IInv, TypeOK

LEMMA SwapInv ==
    ASSUME IInv, NEW old \in Ports, NEW new \in Ports, Swap(old, new)
    PROVE  IInv'
<1> DEFINE S == (Copies("ready") \ {old}) \cup {new}
<1>1. publishRoutes(S, hosts) /\ S \in SUBSET Ports /\ Copies("ready") \ {old} \subseteq S
  BY DEF Swap, Copies
<1>2. /\ copy[old] = "ready" /\ copy[new] = "boot" /\ ret' = Retiring(old)
      /\ UNCHANGED <<state, draining, hosts, app, halt, touched, req>>
      /\ copy' \in [Ports -> CopyStates] /\ copy'[old] = "retiring"
      /\ \A o \in Ports \ {old} : copy'[o] = copy[o] \/ (copy[o] = "boot" /\ copy'[o] = "ready")
  BY DEF IInv, TypeOK, Swap, CopyStates
<1> HIDE DEF S
<1> QED
  BY <1>1, <1>2, RetireInv

LEMMA RetireSurplusInv ==
    ASSUME IInv, NEW p \in Ports, RetireSurplus(p)
    PROVE  IInv'
<1> DEFINE S == Copies("ready") \ {p}
<1>1. publishRoutes(S, hosts) /\ S \in SUBSET Ports /\ Copies("ready") \ {p} \subseteq S
  BY DEF RetireSurplus, Copies
<1>2. /\ copy[p] = "ready" /\ ret' = Retiring(p)
      /\ UNCHANGED <<state, draining, hosts, app, halt, touched, req>>
      /\ copy' \in [Ports -> CopyStates] /\ copy'[p] = "retiring"
      /\ \A o \in Ports \ {p} : copy'[o] = copy[o]
  BY DEF IInv, TypeOK, RetireSurplus, CopyStates
<1> HIDE DEF S
<1> QED
  BY <1>1, <1>2, RetireInv

LEMMA ExitedInv ==
    ASSUME IInv, NEW p \in Ports, Exited(p)
    PROVE  IInv'
<1> DEFINE S == Copies("ready")
<1>1. publishRoutes(S, hosts) /\ S \in SUBSET Ports
  BY DEF Exited, Copies
<1>2. /\ copy[p] = "dead" /\ copy' = [copy EXCEPT ![p] = "none"]
      /\ UNCHANGED <<state, draining, hosts, app, halt, touched, req>>
      /\ copy' \in [Ports -> CopyStates]
      /\ ret' = [ret EXCEPT ![p] = NoRetire]
      /\ ret' \in [Ports -> [on : BOOLEAN, u : Upstreams \cup {None}, late : BOOLEAN]]
  BY DEF IInv, TypeOK, Exited, CopyStates, NoRetire
<1>3. Loosened
  BY <1>2, SameLoosens DEF IInv
<1>4. \A q \in Reqs : req'[q].tied =>
        LET o == up[req[q].u].port IN
        /\ hosts /\ copy'[o] \in {"ready", "retiring", "signalled"}
        /\ copy'[o] = "ready" => copy[o] = "ready" /\ o \in S
        /\ copy'[o] = "retiring" => ret'[o].u = req[q].u
  BY <1>2, TiedTo DEF IInv, TypeOK, Copies
<1> HIDE DEF S
<1> QED
  BY <1>1, <1>2, <1>3, <1>4, PublishInv DEF IInv, TypeOK

LEMMA UpdateInv ==
    ASSUME IInv, Update
    PROVE  IInv'
<1> DEFINE S == Copies("ready")
<1>1. publishRoutes(S, hosts') /\ S \in SUBSET Ports
  BY DEF Update, Copies
<1>2. UNCHANGED <<state, draining, copy, app, ret, halt, touched>> /\ hosts' = ~hosts
  BY DEF Update
<1>3. Loosened /\ \A q \in Reqs : req'[q].tied => ~hosts
  <2>1. CASE hosts
    <3>1. req' = Broken(Ports)
      BY <2>1 DEF Update
    <3>2. \A q \in Reqs : req'[q].tied => req[q].u # None /\ up[req[q].u].port \in Ports
      BY <3>1, BrokenLoosens DEF IInv, Loosened, Placed, Routed
    <3> QED
      BY <3>1, <3>2, BrokenLoosens DEF IInv
  <2>2. CASE ~hosts
    BY <2>2, SameLoosens DEF Update, IInv
  <2> QED
    BY <2>1, <2>2
<1>4. \A q \in Reqs : ~req'[q].tied
  BY <1>3, TiedTo DEF Loosened
<1> HIDE DEF S
<1>5. hosts' \in BOOLEAN
  BY <1>2
<1> QED
  BY <1>1, <1>2, <1>3, <1>4, <1>5, PublishInv DEF IInv, TypeOK

LEMMA StoppedInv ==
    ASSUME IInv, Stopped
    PROVE  IInv'
<1>1. /\ publishRoutes({}, hosts) /\ req' = Broken(Ports)
      /\ UNCHANGED <<draining, hosts, app, touched>>
      /\ state' = "stopped" /\ halt' = NoHalt
      /\ copy' \in [Ports -> CopyStates]
      /\ ret' \in [Ports -> [on : BOOLEAN, u : Upstreams \cup {None}, late : BOOLEAN]]
  BY DEF Stopped, CopyStates, NoRetire
<1>2. Loosened /\ \A q \in Reqs : ~req'[q].tied
  BY <1>1, BrokenLoosens, TiedTo DEF IInv, Loosened
<1> QED
  BY <1>1, <1>2, PublishInv DEF IInv, TypeOK

(* Steps that leave the routes and the counters alone.                     *)
LEMMA CopyStepInv ==
    ASSUME IInv, NEW p \in Ports, Boot(p) \/ Deadline(p) \/ Signal(p) \/ Die(p)
    PROVE  IInv'
<1>1. /\ UNCHANGED <<draining, hosts, set, up, app, halt, touched>>
      /\ state' \in {"stopped", "starting", "running", "stopping"}
      /\ copy' \in [Ports -> CopyStates]
      /\ ret' \in [Ports -> [on : BOOLEAN, u : Upstreams \cup {None}, late : BOOLEAN]]
      /\ \A o \in Ports : ret'[o].u = ret[o].u
      /\ \A o \in Ports : o # p => copy'[o] = copy[o]
  <2>1. CASE Boot(p) \/ Signal(p) \/ Die(p)
    BY <2>1 DEF IInv, TypeOK, CopyStates, Boot, Signal, Die
  <2>2. CASE Deadline(p)
    BY <2>2, ZenonT(40) DEF IInv, TypeOK, Deadline
  <2> QED
    BY <2>1, <2>2
<1>2. Loosened
  <2>1. CASE Die(p)
    BY <2>1, BrokenLoosens DEF Die, IInv
  <2>2. CASE ~Die(p)
    BY <2>2, SameLoosens DEF Boot, Deadline, Signal, IInv
  <2> QED
    BY <2>1, <2>2
<1>3. CountersExact' /\ Placed' /\ Counted' = Counted
  BY <1>1, <1>2, CountsStay
<1>4. TypeOK'
  BY <1>1, <1>2 DEF IInv, TypeOK, Loosened, RequestType
<1>5. Routed' /\ Watched'
  BY <1>1, <1>2, <1>3 DEF IInv, Routed, Watched, Loosened
<1>6. ASSUME NEW q \in Reqs, req'[q].tied
      PROVE  LET o == up[req[q].u].port IN
             copy'[o] = copy[o] \/ (copy[o] = "retiring" /\ copy'[o] = "signalled")
  <2>1. req[q].tied
    BY <1>2, <1>6 DEF Loosened
  <2>2. CASE Die(p)
    <3>1. req' = Broken({p}) /\ {p} \in SUBSET Ports /\ TypeOK
      BY <2>2 DEF Die, IInv
    <3>2. req[q].u = None \/ up[req[q].u].port # p
      BY <1>6, <3>1, BrokenLoosens
    <3> QED
      BY <1>1, <2>1, <3>2, TiedTo
  <2>3. CASE Boot(p)
    BY <1>1, <2>1, <2>3, TiedTo DEF Boot, IInv, TypeOK
  <2>4. CASE Deadline(p)
    BY <2>4 DEF Deadline
  <2>5. CASE Signal(p)
    BY <1>1, <2>1, <2>5, TiedTo DEF Signal, IInv, TypeOK
  <2> QED
    BY <2>2, <2>3, <2>4, <2>5
<1>7. Attached'
  <2> SUFFICES ASSUME NEW q \in Reqs, req'[q].tied
               PROVE  LET o == up[req[q].u].port IN
                      /\ hosts
                      /\ copy'[o] \in {"ready", "retiring", "signalled"}
                      /\ copy'[o] = "ready" => set[o] = req[q].u
                      /\ copy'[o] = "retiring" => ret'[o].u = req[q].u
    BY <1>1, <1>2 DEF Attached, Loosened
  <2>1. req[q].tied
    BY <1>2 DEF Loosened
  <2> QED
    BY <1>1, <1>6, <2>1, TiedTo, ZenonT(40)
<1> QED
  BY <1>3, <1>4, <1>5, <1>7 DEF IInv

LEMMA StopStepInv ==
    ASSUME IInv, DrainOn \/ DrainLate \/ DrainDone \/ Stop \/ IdleRead \/ Idle \/ Quiet
    PROVE  IInv'
<1>1. /\ UNCHANGED <<hosts, copy, set, up, app, ret, req>>
      /\ state' \in {"stopped", "starting", "running", "stopping"}
      /\ draining' \in BOOLEAN /\ touched' \in BOOLEAN
      /\ halt' \in HaltType
      /\ halt'.op = "idle" => halt' = halt \/ app = 0
  <2>1. CASE DrainOn \/ DrainDone \/ IdleRead
    BY <2>1, HaltTypes DEF IInv, TypeOK, DrainOn, DrainDone, IdleRead
  <2>2. CASE DrainLate
    BY <2>2, HaltTypes DEF IInv, TypeOK, DrainLate
  <2>3. CASE Stop \/ Quiet
    BY <2>3, HaltTypes DEF IInv, TypeOK, Stop, Quiet
  <2>4. CASE Idle
    BY <2>4, HaltTypes DEF IInv, TypeOK, Idle
  <2> QED
    BY <2>1, <2>2, <2>3, <2>4
<1>2. Loosened
  BY <1>1, SameLoosens DEF IInv
<1>3. CountersExact' /\ Placed' /\ Counted' = Counted
  BY <1>1, <1>2, CountsStay
<1>4. TypeOK' /\ Routed' /\ Attached'
  BY <1>1 DEF IInv, TypeOK, Routed, Attached, HaltType
<1>5. app = 0 => Counted = {}
  <2>1. Counted \in SUBSET Reqs
    BY DEF Counted
  <2> QED
    BY <2>1, NoneCounted DEF IInv, CountersExact
<1>6. Watched'
  BY <1>1, <1>3, <1>5 DEF IInv, Watched
<1> QED
  BY <1>3, <1>4, <1>6 DEF IInv

-----------------------------------------------------------------------------
(* The theorems.                                                           *)

LEMMA InitInv == Init => IInv
<1> SUFFICES ASSUME Init PROVE IInv
  OBVIOUS
<1>1. TypeOK /\ Placed /\ Routed /\ Attached /\ Watched
  BY PortsAssumption DEF Init, TypeOK, Placed, Routed, Attached, Watched, NoUpstream, NoRetire,
     NoHalt, NotAsked, CopyStates, RequestStates, Holding
<1>2. Counted = {} /\ \A u \in Upstreams : OnUpstream(u) = {}
  BY PortsAssumption DEF Init, NotAsked, Counted, OnUpstream
<1>3. CountersExact
  BY <1>2, FS_EmptySet DEF Init, NoUpstream, CountersExact
<1> QED
  BY <1>1, <1>3 DEF IInv

LEMMA NextInv == IInv /\ [Next]_vars => IInv'
<1> SUFFICES ASSUME IInv, [Next]_vars PROVE IInv'
  OBVIOUS
<1>1. ASSUME NEW q \in Reqs, Request(q) PROVE IInv'
  BY <1>1, ResolveInv, PickInv, CountInv, ServeInv, DoneCopyInv, DoneAppInv DEF Request
<1>2. ASSUME NEW p \in Ports,
             \/ Boot(p) \/ CopyReady(p) \/ RetireSurplus(p) \/ Deadline(p)
             \/ Signal(p) \/ Die(p) \/ Exited(p)
      PROVE  IInv'
  BY <1>2, CopyReadyInv, RetireSurplusInv, ExitedInv, CopyStepInv
<1>3. ASSUME NEW old \in Ports, NEW new \in Ports, Swap(old, new) PROVE IInv'
  BY <1>3, SwapInv
<1>4. CASE \/ Update \/ DrainOn \/ DrainLate \/ DrainDone \/ Stop
           \/ IdleRead \/ Idle \/ Quiet \/ Stopped
  BY <1>4, UpdateInv, StopStepInv, StoppedInv
<1>5. CASE UNCHANGED vars
  <2>1. TypeOK'
    BY <1>5 DEF vars, IInv, TypeOK
  <2>2. CountersExact' /\ Placed'
    <3>1. UNCHANGED <<up, app, req>>
      BY <1>5 DEF vars
    <3>2. Counted' = Counted /\ \A u \in Upstreams : OnUpstream(u)' = OnUpstream(u)
      BY <3>1 DEF Counted, OnUpstream
    <3>3. CountersExact'
      BY <3>1, <3>2 DEF IInv, CountersExact
    <3>4. Placed'
      BY <3>1 DEF IInv, Placed
    <3> QED
      BY <3>3, <3>4
  <2>3. Routed'
    BY <1>5 DEF vars, IInv, Routed
  <2>5. Attached'
    <3>1. Attached
      BY DEF IInv
    <3>2. UNCHANGED <<hosts, copy, set, ret, req, up>>
      BY <1>5 DEF vars
    <3>3. ASSUME NEW r \in Reqs, req'[r].tied
          PROVE  LET p == up'[req'[r].u].port IN
                 /\ hosts'
                 /\ copy'[p] \in {"ready", "retiring", "signalled"}
                 /\ copy'[p] = "ready" => set'[p] = req'[r].u
                 /\ copy'[p] = "retiring" => ret'[p].u = req'[r].u
      <4>1. LET p == up[req[r].u].port IN
            /\ hosts
            /\ copy[p] \in {"ready", "retiring", "signalled"}
            /\ copy[p] = "ready" => set[p] = req[r].u
            /\ copy[p] = "retiring" => ret[p].u = req[r].u
        BY <3>1, <3>2, <3>3 DEF Attached
      <4> QED
        BY <3>2, <4>1
    <3> QED
      BY <3>3, Zenon DEF Attached
  <2>4. Watched'
    BY <1>5 DEF vars, IInv, Watched, Counted
  <2> QED
    BY <2>1, <2>2, <2>3, <2>4, <2>5 DEF IInv
<1> QED
  BY <1>1, <1>2, <1>3, <1>4, <1>5 DEF Next

LEMMA Invariant == Spec => []IInv
BY InitInv, NextInv, PTL DEF Spec

(* The counters a drain waits on are exact in every behaviour, however     *)
(* many requests, ports and changes of the routes there are (routes.go     *)
(* setApp, pick; proxy.go forward).                                        *)
THEOREM CountsAreExact == Spec => []CountersExact
BY Invariant, PTL DEF IInv

(* The counter of an upstream no port routes never grows (routes.go setApp *)
(* and pick).                                                              *)
THEOREM OldCopiesDrain == Spec => OldCopyOnlyDrains
<1>1. IInv /\ [Next]_vars =>
        [\A u \in Upstreams : (\A p \in Ports : set[p] # u) => up'[u].inflight <= up[u].inflight]_vars
  <2> SUFFICES ASSUME IInv, Next, NEW u \in Upstreams, \A p \in Ports : set[p] # u
               PROVE  up'[u].inflight <= up[u].inflight
    OBVIOUS
  <2>1. IInv'
    BY NextInv
  <2>2. up[u] \in [port : Ports \cup {None}, inflight : Nat]
    BY DEF IInv, TypeOK
  <2>3. CASE up' = up
    BY <2>2, <2>3
  <2>4. ASSUME NEW q \in Reqs, Pick(q) PROVE up'[u].inflight <= up[u].inflight
    BY <2>2, <2>4 DEF Pick, pick, IInv, TypeOK
  <2>5. ASSUME NEW q \in Reqs, DoneCopy(q) PROVE up'[u].inflight <= up[u].inflight
    BY <2>2, <2>5 DEF DoneCopy, IInv, TypeOK
  <2>6. ASSUME NEW S \in SUBSET Ports, NEW h \in BOOLEAN, publishRoutes(S, h)
        PROVE  up'[u].inflight <= up[u].inflight
    BY <2>2, <2>6, Publish DEF IInv
  <2>7. ASSUME NEW p \in Ports, CopyReady(p) \/ RetireSurplus(p) \/ Exited(p)
        PROVE  up'[u].inflight <= up[u].inflight
    BY <2>6, <2>7 DEF CopyReady, RetireSurplus, Exited, Copies, IInv, TypeOK
  <2>8. ASSUME NEW old \in Ports, NEW new \in Ports, Swap(old, new)
        PROVE  up'[u].inflight <= up[u].inflight
    BY <2>6, <2>8 DEF Swap, Copies, IInv, TypeOK
  <2>9. CASE Update \/ Stopped
    BY <2>6, <2>9, ZenonT(40) DEF Update, Stopped, Copies, IInv, TypeOK
  <2> QED
    BY <2>3, <2>4, <2>5, <2>7, <2>8, <2>9 DEF Next, Request, Resolve, PickNone, Count, Dial, Serve,
       DoneApp, Boot, Deadline, Signal, Die, DrainOn, DrainLate, DrainDone, Stop, IdleRead, Idle, Quiet
<1> QED
  BY <1>1, Invariant, PTL DEF Spec, OldCopyOnlyDrains

(* A retired copy is signalled in time only when no request tied to it is  *)
(* left: the goroutine watches the counter those requests are in           *)
(* (runtime.go retire).                                                    *)
THEOREM RollsCutNothing == Spec => RollCutsNothing
<1>1. IInv /\ [Next]_vars =>
        [\A p \in Ports : copy[p] = "retiring" /\ copy'[p] = "signalled" /\ ~ret[p].late =>
          \A q \in Reqs : req[q].u # None /\ req[q].tied => up[req[q].u].port # p]_vars
  <2> SUFFICES ASSUME IInv, Next, NEW p \in Ports,
                      copy[p] = "retiring", copy'[p] = "signalled", ~ret[p].late,
                      NEW q \in Reqs, req[q].tied, up[req[q].u].port = p
               PROVE  FALSE
    OBVIOUS
  <2>1. Signal(p)
    BY ZenonT(40) DEF IInv, TypeOK, Next, Request, Resolve, Pick, PickNone, Count, Dial, Serve, DoneCopy,
       DoneApp, Boot, CopyReady, RetireSurplus, Deadline, Signal, Die, Exited, Swap, Update,
       DrainOn, DrainLate, DrainDone, Stop, IdleRead, Idle, Quiet, Stopped
  <2>2. ret[p].u = req[q].u /\ req[q].u \in Upstreams /\ req[q].u # None
    BY TiedTo
  <2>3. up[req[q].u].inflight = 0
    BY <2>1, <2>2 DEF Signal
  <2>4. OnUpstream(req[q].u) \in SUBSET Reqs /\ q \in OnUpstream(req[q].u)
    BY DEF OnUpstream
  <2> QED
    BY <2>2, <2>3, <2>4, NoneCounted DEF IInv, CountersExact
<1> QED
  BY <1>1, Invariant, PTL DEF Spec, RollCutsNothing

(* What idle_stop stops serves only requests counted after the counter was *)
(* read (supervisor.go idleLoop).                                          *)
THEOREM OldRequestsSpared == Spec => IdleSparesOld
<1>1. IInv /\ [Next]_vars =>
        [Idle /\ state' = "stopping" =>
          {q \in Reqs : req[q].at = "serving"} \subseteq halt.since]_vars
  BY DEF IInv, Watched, Counted, Idle
<1> QED
  BY <1>1, Invariant, PTL DEF Spec, IdleSparesOld

=============================================================================
