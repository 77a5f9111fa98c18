------------------------------- MODULE MCData -------------------------------
(* What the daemon keeps - events, ports, its configuration, dumps - and   *)
(* what it decides: what a config says, when, who passes.  The parts share *)
(* no state with one another; they are side by side, and the behaviours of *)
(* a part move that part alone, so that the states of the run are those of *)
(* each part in turn.                                                      *)
EXTENDS EventStore, EventFilter, EventQueries, TailLog, AppConfig,
        ConfigPatch, MCSchedule, SignIn, PortRegistry, ConfigStore, Backups, TLC

-----------------------------------------------------------------------------
(* EventFilter *)

FlPlain == [at |-> 2, ns |-> "web", event |-> <<"buy">>, user |-> Null, value |-> Null,
            tags |-> {}, data |-> FlNone]

(* Rows that differ from the plain one in one column each.                 *)
FlRows ==
    {FlPlain, [FlPlain EXCEPT !.ns = "api"], [FlPlain EXCEPT !.at = 5]}
    \cup {[FlPlain EXCEPT !.event = e] : e \in {<<"buy", "now">>, <<"see">>}}
    \cup {[FlPlain EXCEPT !.user = u] : u \in {Text("u"), Text("v")}}
    \cup {[FlPlain EXCEPT !.value = v] : v \in {Num(1), Num(2)}}
    \cup {[FlPlain EXCEPT !.tags = {t}] : t \in {<<"plan", "pro">>, <<"beta">>}}
    \cup {[FlPlain EXCEPT !.data = d] : d \in {Null, Num(2), Text("x")}}
FlVisits == {[FlPlain EXCEPT !.at = a, !.event = e, !.user = Text("u")] :
                a \in 1..4, e \in {<<"see">>, <<"buy">>}}
MCStores == {{r} : r \in FlRows} \cup {{r, FlPlain} : r \in FlRows}
            \cup UNION {kSubset(k, FlVisits) : k \in 0..4}

FlTerm(kind, field, op, values, n) ==
    {[kind |-> kind, not |-> b, field |-> field, op |-> op, values |-> values, number |-> n] : b \in BOOLEAN}
FlTerms ==
    FlTerm("event", "", "", {<<"buy">>}, 0) \cup FlTerm("event", "", "", {<<"buy">>, <<"see">>}, 0)
    \cup FlTerm("prefix", "", "", {<<"buy">>}, 0)
    \cup FlTerm("field", "ns", "", {Text("web")}, 0) \cup FlTerm("field", "user", "", {Text("u")}, 0)
    \cup FlTerm("value", "", ">=", {}, 2)
    \cup FlTerm("tag", "plan", "", {<<"plan", "pro">>}, 0) \cup FlTerm("tagkey", "plan", "", {}, 0)
    \cup FlTerm("tag", "", "", {<<"beta">>}, 0)
    \cup FlTerm("data", "k", "=", {Text("x"), Num(2)}, 0) \cup FlTerm("data", "k", "<", {}, 3)

FlOf(terms, range) == [terms |-> terms, since |-> range[1], from |-> range[2], to |-> range[3]]
FlAlways == <<0, 0, 0>>
FlRanges == {FlAlways, <<2, 0, 0>>, <<0, 2, 0>>, <<0, 2, 4>>, <<2, 1, 4>>}
MCFilters == {FlOf(<<t>>, r) : t \in FlTerms, r \in FlRanges}
             \cup {FlOf(<<t, u>>, FlAlways) : t, u \in FlTerms}
             \cup {FlOf(<<>>, r) : r \in FlRanges}

FlOn(e) == FlOf(<<[kind |-> "event", not |-> FALSE, field |-> "", op |-> "",
                   values |-> {<<e>>}, number |-> 0]>>, FlAlways)
MCFunnels == {[steps |-> <<FlOn("see"), FlOn("buy")>>, window |-> w] : w \in {1, 2}}
             \cup {[steps |-> <<FlOn("see"), FlOn("buy"), FlOn("see")>>, window |-> 2]}

-----------------------------------------------------------------------------
(* TailLog *)

Tailed(f, k, n, m) == [file |-> f, kinds |-> k, lines |-> n, faults |-> m]
MCTailModes == {Tailed("log", {"plain", "more"}, 3, 0), Tailed("log", {"plain", "more", "blank"}, 2, 1),
                Tailed("exceptions", {"plain"}, 3, 1), Tailed("exceptions", {"plain", "blank"}, 2, 1)}

-----------------------------------------------------------------------------
(* AppConfig *)

Host(k, n) == [kind |-> k, name |-> n]
CfX == <<"x">>
CfWWW == <<"x", "www">>
CfWeb == [name |-> "web", command |-> "serve", count |-> 0, hosts |-> {Host("exact", CfX)},
          canonical |-> <<>>, hub |-> "", health |-> ""]
CfWork == [CfWeb EXCEPT !.name = "work", !.hosts = {}]
CfFile == [specs |-> {CfWeb, CfWork}, over |-> Absence, overDev |-> Absence, procs |-> <<>>,
           jobs |-> {}, apps |-> "absent", defaults |-> Absence, listen |-> {80}, ports |-> <<3100, 3990>>,
           console |-> FALSE, admins |-> 0, typo |-> FALSE]
CfHost == [CfFile EXCEPT !.specs = {}, !.apps = "set"]
CfJob(kind, name) == [kind |-> kind, name |-> name, command |-> "run", timeout |-> 0, schedule |-> TRUE, builtin |-> FALSE]
CfEnvs == {("A" :> 1), ("B" :> 2)}
CfLayers == {[Absence EXCEPT !.live = <<5>>, !.env = <<"A" :> 1>>],
             [Absence EXCEPT !.live = <<0>>],
             [Absence EXCEPT !.signal = <<"HUP">>],
             [Absence EXCEPT !.env = <<"B" :> 2>>, !.idle = <<3>>],
             [Absence EXCEPT !.authcog = <<"/a">>]}
CfProc(layer) == "work" :> [layer EXCEPT !.authcog = <<>>]
MCRootFiles ==
  {CfHost, [CfHost EXCEPT !.console = TRUE, !.admins = 1], [CfHost EXCEPT !.listen = {3100}],
   [CfHost EXCEPT !.over = [Absence EXCEPT !.live = <<5>>]],
   [CfHost EXCEPT !.jobs = {[CfJob("hook", "github_pr") EXCEPT !.command = "", !.builtin = TRUE]}],
   [CfFile EXCEPT !.specs = {CfWork}],
   [CfFile EXCEPT !.specs = {[CfWork EXCEPT !.hub = "/a"]}, !.overDev = [Absence EXCEPT !.env = <<"B" :> 3>>]]}
  \union {[CfHost EXCEPT !.defaults = l] : l \in CfLayers}
  \union {[CfFile EXCEPT !.over = l, !.overDev = m] : l, m \in CfLayers}
MCAppFiles ==
  {CfFile, [CfFile EXCEPT !.typo = TRUE], [CfFile EXCEPT !.apps = "set"],
   [CfFile EXCEPT !.jobs = {CfJob("cron", "tidy"), CfJob("lifecycle", "create")}],
   [CfFile EXCEPT !.jobs = {CfJob("lifecycle", "stop")}],
   [CfFile EXCEPT !.specs = {CfWeb, [CfWork EXCEPT !.hosts = {Host("exact", CfX)}]}],
   [CfFile EXCEPT !.specs = {CfWeb, [CfWork EXCEPT !.hosts = {Host("sub", CfX)}, !.canonical = CfWWW, !.health = "/up"]}],
   [CfFile EXCEPT !.specs = {[CfWeb EXCEPT !.canonical = CfWWW]}],
   [CfFile EXCEPT !.specs = {[CfWeb EXCEPT !.hub = "/a", !.hosts = {Host("both", CfX)}]}],
   [CfFile EXCEPT !.specs = {[CfWeb EXCEPT !.hub = "bad"]}],
   [CfFile EXCEPT !.specs = {CfWeb, [CfWork EXCEPT !.hub = "/b"]}]}
  \union {[CfFile EXCEPT !.over = l] : l \in CfLayers}
  \union {[CfFile EXCEPT !.overDev = l] : l \in CfLayers}
  \union {[CfFile EXCEPT !.procs = CfProc(l)] : l \in CfLayers}
  \union {[CfFile EXCEPT !.over = [Absence EXCEPT !.env = <<("A" :> 4)>>, !.signal = <<"INT">>], !.procs = CfProc(l)] : l \in CfLayers}

-----------------------------------------------------------------------------
(* ConfigPatch *)

PatA == <<"a">>
PatM == <<"m">>
PatX == <<"m", "x">>
PatY == <<"m", "y">>
PatN == <<"m", "n">>
PatZ == <<"m", "n", "z">>
MCDocuments ==
    {<<>>,
     (PatA :> "1"),
     (PatA :> "1") @@ (PatM :> "map") @@ (PatX :> "1"),
     (PatM :> "map") @@ (PatX :> "1") @@ (PatY :> "2"),
     (PatM :> "map") @@ (PatN :> "map") @@ (PatZ :> "1"),
     (PatM :> "map") @@ (PatA :> "2"),
     (PatM :> "map") @@ (PatN :> "map") @@ (PatA :> "map"),
     (PatM :> "1") @@ (PatA :> "map") @@ (<<"a", "k">> :> "1")}
MCRecipes == {{PatA, PatX, PatY, PatZ}, {PatX, PatZ}, {PatA, PatY}}
PatSets == {{}, {PatA}, {PatX}, {PatX, PatY}, {PatA, PatZ}, {PatZ, PatX}}
MCForms == [values : UNION {[S -> {"3", ""}] : S \in PatSets},
            reset : {<<>>, <<PatY>>, <<PatZ, PatX>>, <<PatA, PatX>>}]

-----------------------------------------------------------------------------
(* The run *)

VARIABLE moving   \* the part that moves

Parts == {"events", "filter", "queries", "tail", "schema", "patch",
          "schedule", "signin", "ports", "store", "backups"}

\* A part that rests does so in one of its initial states.
AnyOf(S) == CHOOSE x \in S : TRUE
TailLogRests == tailMode = AnyOf(TailModes)
ConfigPatchRests == patDoc = <<>>
SignInRests == sigOwner = [h \in Hosts |-> IF h = ConsoleHost THEN Console ELSE AnyOf(Gates \ {Console})]
ScheduleRests ==
    /\ schZone = AnyOf(Zones)
    /\ schAfter = AnyOf(Moments)
    /\ schDaily = AnyOf(DailyTimes)
    /\ schPc = "daily"

DataInit ==
    /\ moving \in Parts
    /\ moving # "tail" => TailLogRests
    /\ moving # "patch" => ConfigPatchRests
    /\ moving # "schedule" => ScheduleRests
    /\ moving # "signin" => SignInRests
    /\ EvInit /\ FlInit /\ EvqInit /\ TailInit
    /\ CfInit /\ PatInit /\ SchInit
    /\ SignInit /\ RegInit /\ CfgInit /\ BackupsInit

DataNext ==
    /\ UNCHANGED moving
    /\ IF moving = "events"     THEN EvNext      ELSE UNCHANGED evVars
    /\ IF moving = "filter"     THEN FlNext      ELSE UNCHANGED flVars
    /\ IF moving = "queries"    THEN EvqNext     ELSE UNCHANGED evqVars
    /\ IF moving = "tail"       THEN TailNext    ELSE UNCHANGED tailVars
    /\ IF moving = "schema"     THEN CfNext      ELSE UNCHANGED cfVars
    /\ IF moving = "patch"      THEN PatNext     ELSE UNCHANGED patVars
    /\ IF moving = "schedule"   THEN SchNext     ELSE UNCHANGED schVars
    /\ IF moving = "signin"     THEN SignNext    ELSE UNCHANGED sigVars
    /\ IF moving = "ports"      THEN RegNext     ELSE UNCHANGED regVars
    /\ IF moving = "store"      THEN ConfigNext  ELSE UNCHANGED cfgVars
    /\ IF moving = "backups"    THEN BackupsNext ELSE UNCHANGED bakVars

DataVars == <<moving, evVars, flVars, evqVars, tailVars, cfVars, patVars,
              schVars, sigVars, regVars, cfgVars, bakVars>>

DataSpec == DataInit /\ [][DataNext]_DataVars
=============================================================================
