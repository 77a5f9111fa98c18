------------------------------ MODULE Traffic ------------------------------
(***************************************************************************)
(* Requests on their way to the copies of one web process (internal/proxy: *)
(* forward; internal/supervisor: routes.go, drain.go, retire and           *)
(* publishRoutes, idleLoop).  Every request is a goroutine: it reads a     *)
(* snapshot of the app, picks a copy from the route table and is counted,  *)
(* then talks to the copy.  The app goroutine changes the table meanwhile, *)
(* and a copy is signalled once the requests counted on it are done.       *)
(*                                                                         *)
(* Which copies run is AppRuntime's business: here they boot, become       *)
(* ready, are replaced, retired, stopped and die as that module lets them. *)
(***************************************************************************)
EXTENDS Integers, FiniteSets

CONSTANTS
    Reqs,       \* requests
    Ports,      \* one per slot of the web process
    Upstreams,  \* bound: upstream objects routed or still referenced
    None        \* nil

ASSUME PortsAssumption ==
    /\ IsFiniteSet(Reqs) /\ IsFiniteSet(Ports) /\ IsFiniteSet(Upstreams)
    /\ Reqs # {} /\ Ports # {} /\ Upstreams # {}
    /\ None \notin Upstreams \cup Ports

VARIABLES
    state,     \* a.state
    draining,  \* a.draining
    hosts,     \* the spec lists hosts for the process
    copy,      \* the process in each slot
    set,       \* the routeSet: the upstream of each routed port
    up,        \* the upstream objects
    app,       \* m.inflight[name]
    ret,       \* the goroutine that retires the copy of a slot
    halt,      \* the goroutine in Manager.Stop, or idleLoop
    touched,   \* lastActivity is more recent than idle_stop
    req        \* where each request is

vars == <<state, draining, hosts, copy, set, up, app, ret, halt, touched, req>>

NoUpstream == [port |-> None, inflight |-> 0]
NoRetire == [on |-> FALSE, u |-> None, late |-> FALSE]
NoHalt == [op |-> "none", late |-> FALSE, since |-> {}]

(* tied: the copy the request picked is alive, and its upstream was never  *)
(* unrouted by a change of the spec.                                       *)
NotAsked == [at |-> "none", u |-> None, tied |-> FALSE]

Copies(kind) == {p \in Ports : copy[p] = kind}

(* An upstream nobody refers to is garbage.                                *)
Unreferenced(u) ==
    /\ \A p \in Ports : set[p] # u /\ ret[p].u # u
    /\ \A q \in Reqs : req[q].u # u

Init ==
    /\ state = "stopped" /\ draining = FALSE /\ hosts = TRUE
    /\ copy = [p \in Ports |-> "none"]
    /\ set = [p \in Ports |-> None]
    /\ up = [u \in Upstreams |-> NoUpstream]
    /\ app = 0
    /\ ret = [p \in Ports |-> NoRetire]
    /\ halt = NoHalt
    /\ touched = TRUE
    /\ req = [q \in Reqs |-> NotAsked]

-----------------------------------------------------------------------------
(* the route table *)

(* setApp with the ports S: a port that stays keeps its upstream, so its   *)
(* count carries over.  The app goroutine publishes after every message,   *)
(* so at most one port is new.                                             *)
setApp(S) ==
    LET new == {p \in S : set[p] = None}
        kept == [p \in Ports |-> IF p \in S THEN set[p] ELSE None]
        live == [u \in Upstreams |-> IF Unreferenced(u) THEN NoUpstream ELSE up[u]]
    IN
    \/ new = {} /\ set' = kept /\ up' = live
    \/ \E p \in Ports, u \in Upstreams :
         /\ new = {p} /\ Unreferenced(u)
         /\ set' = [kept EXCEPT ![p] = u]
         /\ up' = [live EXCEPT ![u] = [port |-> p, inflight |-> 0]]

(* publishRoutes: the ready copies, when the spec has hosts for them.      *)
publishRoutes(S, h) == setApp(IF h THEN S ELSE {})

(* Mutant: the choice and the count are not under one lock, so the table   *)
(* may have changed in between.                                            *)
PickUnlocked(q) ==
    \E u \in Upstreams :
      /\ up[u].port # None
      /\ req' = [req EXCEPT ![q] = [at |-> "picked", u |-> u, tied |-> FALSE]]
      /\ up' = [up EXCEPT ![u].inflight = @ + 1]

(* pick: an upstream nobody beats, seen while other picks count theirs     *)
(* (readers share the lock), so any routed one; the count is added before  *)
(* the lock is released.                                                   *)
pick(q) ==
    \E p \in Ports :
      /\ set[p] # None
      /\ req' = [req EXCEPT ![q] = [at |-> "picked", u |-> set[p], tied |-> copy[p] = "ready"]]
      /\ up' = [up EXCEPT ![set[p]].inflight = @ + 1]

-----------------------------------------------------------------------------
(* requests *)

To(q, at) == req' = [req EXCEPT ![q].at = at]

(* Resolve: the snapshot decides; a draining or not running app is         *)
(* answered by the proxy.  The app goroutine answers between messages.     *)
Resolve(q) ==
    /\ req[q].at = "none"
    /\ state = "running" /\ ~draining
    /\ To(q, "resolved")
    /\ UNCHANGED <<state, draining, hosts, copy, set, up, app, ret, halt, touched>>

Pick(q) ==
    /\ req[q].at = "resolved"
    /\ pick(q)
    /\ UNCHANGED <<state, draining, hosts, copy, set, app, ret, halt, touched>>

(* No copy is ready: 502.                                                  *)
PickNone(q) ==
    /\ req[q].at = "resolved"
    /\ \A p \in Ports : set[p] = None
    /\ req' = [req EXCEPT ![q] = NotAsked]
    /\ UNCHANGED <<state, draining, hosts, copy, set, up, app, ret, halt, touched>>

(* idleLoop has read the counter: since are the requests counted after it. *)
Since(q) == IF halt.op = "idle" THEN [halt EXCEPT !.since = @ \cup {q}] ELSE halt

(* Mutant: the counter goes the wrong way.                                 *)
CountDown(q) ==
    /\ req[q].at = "picked"
    /\ app' = app - 1
    /\ halt' = Since(q)
    /\ To(q, "counted")
    /\ UNCHANGED <<state, draining, hosts, copy, set, up, ret, touched>>

Count(q) ==
    /\ req[q].at = "picked"
    /\ app' = app + 1
    /\ halt' = Since(q)
    /\ To(q, "counted")
    /\ UNCHANGED <<state, draining, hosts, copy, set, up, ret, touched>>

(* Touch does not wait: unless the app goroutine is just then waiting for  *)
(* a message, it is dropped.                                               *)
Touch == touched' \in {touched, TRUE}

(* Touch, then the transport dials the port: without a process there the   *)
(* request fails.                                                          *)
Dial(q) ==
    /\ req[q].at = "counted"
    /\ Touch
    /\ To(q, IF copy[up[req[q].u].port] \in {"none", "dead"} THEN "served" ELSE "serving")
    /\ UNCHANGED <<state, draining, hosts, copy, set, up, app, ret, halt>>

(* The answer is copied, or the connection breaks: Touch.                  *)
Serve(q) ==
    /\ req[q].at = "serving"
    /\ Touch
    /\ To(q, "served")
    /\ UNCHANGED <<state, draining, hosts, copy, set, up, app, ret, halt>>

(* Mutant: a request that failed is not taken off its copy.                *)
DoneForgetsCopy(q) ==
    /\ req[q].at = "served"
    /\ up' = IF req[q].tied THEN [up EXCEPT ![req[q].u].inflight = @ - 1] ELSE up
    /\ req' = [req EXCEPT ![q] = [NotAsked EXCEPT !.at = "left"]]
    /\ UNCHANGED <<state, draining, hosts, copy, set, app, ret, halt, touched>>

(* done: first off the copy ...                                            *)
DoneCopy(q) ==
    /\ req[q].at = "served"
    /\ up' = [up EXCEPT ![req[q].u].inflight = @ - 1]
    /\ req' = [req EXCEPT ![q] = [NotAsked EXCEPT !.at = "left"]]
    /\ UNCHANGED <<state, draining, hosts, copy, set, app, ret, halt, touched>>

(* ... then off the app.                                                   *)
DoneApp(q) ==
    /\ req[q].at = "left"
    /\ app' = app - 1
    /\ To(q, "none")
    /\ UNCHANGED <<state, draining, hosts, copy, set, up, ret, halt, touched>>

Request(q) == \/ Resolve(q) \/ Pick(q) \/ PickNone(q) \/ Count(q)
              \/ Dial(q) \/ Serve(q) \/ DoneCopy(q) \/ DoneApp(q)

-----------------------------------------------------------------------------
(* copies: the messages of the app goroutine that change the routes *)

(* What is connected to a process that goes away loses its connection.     *)
Broken(dead) ==
    [q \in Reqs |-> IF req[q].u # None /\ up[req[q].u].port \in dead
                    THEN [req[q] EXCEPT !.tied = FALSE] ELSE req[q]]

(* start, a roll's replacement, a restart under the policy.                *)
Boot(p) ==
    /\ state \in {"stopped", "running"}
    /\ copy[p] = "none" /\ ~ret[p].on
    /\ copy' = [copy EXCEPT ![p] = "boot"]
    /\ state' = IF state = "stopped" THEN "starting" ELSE state
    /\ UNCHANGED <<draining, hosts, set, up, app, ret, halt, touched, req>>

(* The first or one more copy is ready.                                    *)
CopyReady(p) ==
    /\ copy[p] = "boot" /\ state # "stopping"
    /\ copy' = [copy EXCEPT ![p] = "ready"]
    /\ state' = "running"
    /\ touched' = TRUE
    /\ publishRoutes(Copies("ready") \cup {p}, hosts)
    /\ UNCHANGED <<draining, hosts, app, ret, halt, req>>

(* Mutant: the upstream is looked up once the route is published.          *)
RetiringLate(p) == [ret EXCEPT ![p] = [on |-> TRUE, u |-> None, late |-> FALSE]]

(* retire: the upstream is looked up before the route drops it.            *)
Retiring(p) == [ret EXCEPT ![p] = [on |-> TRUE, u |-> IF hosts THEN set[p] ELSE None,
                                   late |-> FALSE]]

(* rollEvent ready: the replacement takes the name, the old copy retires.  *)
Swap(old, new) ==
    /\ state = "running" /\ copy[old] = "ready" /\ copy[new] = "boot"
    /\ copy' = [copy EXCEPT ![old] = "retiring", ![new] = "ready"]
    /\ ret' = Retiring(old)
    /\ publishRoutes((Copies("ready") \ {old}) \cup {new}, hosts)
    /\ UNCHANGED <<state, draining, hosts, app, halt, touched, req>>

(* advanceRoll stepRetire: a copy the spec no longer asks for.             *)
RetireSurplus(p) ==
    /\ state = "running" /\ copy[p] = "ready" /\ Cardinality(Copies("ready")) > 1
    /\ copy' = [copy EXCEPT ![p] = "retiring"]
    /\ ret' = Retiring(p)
    /\ publishRoutes(Copies("ready") \ {p}, hosts)
    /\ UNCHANGED <<state, draining, hosts, app, halt, touched, req>>

(* stop_timeout passes.                                                    *)
Deadline(p) ==
    /\ ret[p].on /\ ~ret[p].late
    /\ ret' = [ret EXCEPT ![p].late = TRUE]
    /\ UNCHANGED <<state, draining, hosts, copy, set, up, app, halt, touched, req>>

(* The goroutine signals the copy when the counter it watches is 0, when   *)
(* it has none, or late.                                                   *)
Signal(p) ==
    /\ ret[p].on /\ copy[p] = "retiring"
    /\ IF ret[p].u = None THEN TRUE ELSE up[ret[p].u].inflight = 0 \/ ret[p].late
    /\ copy' = [copy EXCEPT ![p] = "signalled"]
    /\ UNCHANGED <<state, draining, hosts, set, up, app, ret, halt, touched, req>>

(* A copy dies: by itself, by the signal, or killed when it ignores it.    *)
Die(p) ==
    /\ copy[p] \in {"boot", "ready", "retiring", "signalled"}
    /\ copy' = [copy EXCEPT ![p] = "dead"]
    /\ req' = Broken({p})
    /\ UNCHANGED <<state, draining, hosts, set, up, app, ret, halt, touched>>

(* The exit, or the end of retire, reaches the app goroutine.              *)
Exited(p) ==
    /\ copy[p] = "dead" /\ state # "stopping"
    /\ copy' = [copy EXCEPT ![p] = "none"]
    /\ ret' = [ret EXCEPT ![p] = NoRetire]
    /\ publishRoutes(Copies("ready"), hosts)
    /\ UNCHANGED <<state, draining, hosts, app, halt, touched, req>>

(* requestUpdate: hosts come and go.                                       *)
Update ==
    /\ state # "stopping"
    /\ hosts' = ~hosts
    /\ Cardinality(Copies("ready")) <= 1
    /\ publishRoutes(Copies("ready"), ~hosts)
    /\ req' = IF hosts THEN Broken(Ports) ELSE req
    /\ UNCHANGED <<state, draining, copy, app, ret, halt, touched>>

-----------------------------------------------------------------------------
(* stops *)

(* Manager.Stop asks the app to drain ...                                  *)
DrainOn ==
    /\ halt.op = "none" /\ state = "running"
    /\ draining' = TRUE
    /\ halt' = [NoHalt EXCEPT !.op = "drain"]
    /\ UNCHANGED <<state, hosts, copy, set, up, app, ret, touched, req>>

DrainLate ==
    /\ halt.op = "drain" /\ ~halt.late
    /\ halt' = [halt EXCEPT !.late = TRUE]
    /\ UNCHANGED <<state, draining, hosts, copy, set, up, app, ret, touched, req>>

(* ... polls the counter of the app ...                                    *)
DrainDone ==
    /\ halt.op = "drain"
    /\ app = 0 \/ halt.late
    /\ halt' = [halt EXCEPT !.op = "stop"]
    /\ UNCHANGED <<state, draining, hosts, copy, set, up, app, ret, touched, req>>

(* ... and stops it.                                                       *)
Stop ==
    /\ halt.op = "stop" /\ state # "stopping"
    /\ draining' = FALSE
    /\ state' = "stopping"
    /\ UNCHANGED <<hosts, copy, set, up, app, ret, halt, touched, req>>

(* Mutant: only Touch counts as activity, so a websocket does not.         *)
IdleIgnoresTraffic ==
    /\ halt.op = "none"
    /\ halt' = [NoHalt EXCEPT !.op = "idle"]
    /\ UNCHANGED <<state, draining, hosts, copy, set, up, app, ret, touched, req>>

(* idleLoop: no request is counted ...                                     *)
IdleRead ==
    /\ halt.op = "none" /\ app = 0
    /\ halt' = [NoHalt EXCEPT !.op = "idle"]
    /\ UNCHANGED <<state, draining, hosts, copy, set, up, app, ret, touched, req>>

(* ... and the app has been quiet for idle_stop when it is asked, else it  *)
(* goes on.                                                                *)
Idle ==
    /\ halt.op = "idle" /\ state # "stopping"
    /\ IF state = "running" /\ ~touched
       THEN state' = "stopping" /\ halt' = halt
       ELSE state' = state /\ halt' = NoHalt
    /\ UNCHANGED <<draining, hosts, copy, set, up, app, ret, touched, req>>

(* idle_stop passes without a Touch.  The time a tick compares with was    *)
(* read before the counter, so a Touch after that is recent to this tick.  *)
Quiet ==
    /\ touched /\ halt.op # "idle"
    /\ touched' = FALSE
    /\ UNCHANGED <<state, draining, hosts, copy, set, up, app, ret, halt, req>>

(* stop has waited for every process, the retiring ones too; the loop      *)
(* publishes.  A retire goroutine finds its process reaped and leaves.     *)
Stopped ==
    /\ state = "stopping"
    /\ state' = "stopped"
    /\ copy' = [p \in Ports |-> "none"]
    /\ ret' = [p \in Ports |-> NoRetire]
    /\ halt' = NoHalt
    /\ req' = Broken(Ports)
    /\ publishRoutes({}, hosts)
    /\ UNCHANGED <<draining, hosts, app, touched>>

Next ==
    \/ \E q \in Reqs : Request(q)
    \/ \E p \in Ports : \/ Boot(p) \/ CopyReady(p) \/ RetireSurplus(p) \/ Deadline(p)
                        \/ Signal(p) \/ Die(p) \/ Exited(p)
    \/ \E old, new \in Ports : Swap(old, new)
    \/ Update \/ DrainOn \/ DrainLate \/ DrainDone \/ Stop
    \/ IdleRead \/ Idle \/ Quiet \/ Stopped

Spec == Init /\ [][Next]_vars

-----------------------------------------------------------------------------
(* properties *)

CopyStates == {"none", "boot", "ready", "retiring", "signalled", "dead"}
RequestStates == {"none", "resolved", "picked", "counted", "serving", "served", "left"}

(* The types of the variables.                                             *)
TypeOK ==
    /\ state \in {"stopped", "starting", "running", "stopping"}
    /\ draining \in BOOLEAN /\ hosts \in BOOLEAN /\ touched \in BOOLEAN
    /\ copy \in [Ports -> CopyStates]
    /\ set \in [Ports -> Upstreams \cup {None}]
    /\ up \in [Upstreams -> [port : Ports \cup {None}, inflight : Nat]]
    /\ app \in Nat
    /\ ret \in [Ports -> [on : BOOLEAN, u : Upstreams \cup {None}, late : BOOLEAN]]
    /\ halt \in [op : {"none", "drain", "stop", "idle"}, late : BOOLEAN, since : SUBSET Reqs]
    /\ req \in [Reqs -> [at : RequestStates, u : Upstreams \cup {None}, tied : BOOLEAN]]

OnUpstream(u) == {q \in Reqs : req[q].u = u}
Counted == {q \in Reqs : req[q].at \in {"counted", "serving", "served", "left"}}

(* The counters a drain waits on are exact: a copy's is the number of      *)
(* requests that picked it and are not done, through every change of the   *)
(* routes, and the app's is the number of those counted on it.             *)
CountersExact ==
    /\ \A u \in Upstreams : up[u].inflight = Cardinality(OnUpstream(u))
    /\ app = Cardinality(Counted)

(* "Once set drops a port no request can still land on it and the old      *)
(* copy's counter only goes down": the counter of an upstream no slot      *)
(* routes never grows.                                                     *)
OldCopyOnlyDrains ==
    [][\A u \in Upstreams : (\A p \in Ports : set[p] # u) => up'[u].inflight <= up[u].inflight]_vars

(* A retired copy is signalled only when no request it is serving is       *)
(* left, unless stop_timeout passed.  A request keeps this promise as long *)
(* as the copy it picked lives and no change of the spec unrouted it.      *)
RollCutsNothing ==
    [][\A p \in Ports : copy[p] = "retiring" /\ copy'[p] = "signalled" /\ ~ret[p].late =>
         \A q \in Reqs : req[q].u # None /\ req[q].tied => up[req[q].u].port # p]_vars

(* idleLoop: an in-flight request counts as activity "for as long as it    *)
(* runs": what idle_stop stops serves only requests that came in after     *)
(* the counter was read, never an old websocket.                           *)
IdleSparesOld ==
    [][Idle /\ state' = "stopping" =>
         {q \in Reqs : req[q].at = "serving"} \subseteq halt.since]_vars

(* The same comment goes on "so idle_stop cannot cut it off"; a request    *)
(* that comes in between the read and the stop is cut off.                 *)
IdleCutsNothing ==
    [][Idle /\ state' = "stopping" => \A q \in Reqs : req[q].at # "serving"]_vars

(* drain: "marks the app as draining so the proxy stops sending new        *)
(* requests, then waits for the in-flight ones to finish".  A request that *)
(* read its snapshot before the mark may pick after the wait.              *)
StopCutsNothing ==
    [][Stop /\ ~halt.late => \A q \in Reqs : req[q].at # "serving"]_vars
=============================================================================
