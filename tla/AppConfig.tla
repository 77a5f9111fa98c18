------------------------------ MODULE AppConfig -------------------------------
(***************************************************************************)
(* The config schema (config/app.go, config.go, decode.go, dev.go,         *)
(* overrides.go, validate.go, jobs.go, hosts.go): the root file is a host  *)
(* or a single app, an app file is read under the host's defaults, and     *)
(* process keys are layered: built in, host defaults, app, process.  The   *)
(* maps of the defaults are shared by every app that is loaded, as Go maps *)
(* are; the model keeps that one object and lets a load write to it.       *)
(***************************************************************************)
EXTENDS Integers, Sequences, FiniteSets

CONSTANTS
  CfNames,      \* app folders
  RootFiles,    \* documents the root file may hold
  AppFiles,     \* documents an app's file may hold
  MaxLoads      \* bound on the app files read

VARIABLES
  cfRoot,    \* the root file as parsed: [file, app], or NoRoot
  cfEnv,     \* the env map of the root's defaults, the one object all apps share
  cfApps,    \* what each folder loaded: [file, ok, own, env, procs, web]
  cfLoads

cfVars == <<cfRoot, cfEnv, cfApps, cfLoads>>

NoMap == <<>>
Merge(base, over) == [k \in DOMAIN base \union DOMAIN over |->
                        IF k \in DOMAIN over THEN over[k] ELSE base[k]]

\* A document's optional keys are sequences of at most one value: <<>> is an absent key.
First(options) ==
  LET set == SelectSeq(options, LAMBDA option : option # <<>>) IN Head(Head(set))

\* The keys every layer may set.  signal and live stand for the checked scalars, idle for those
\* that only may not be negative; env is a map, authcog a key of the app as a whole.
Absence == [signal |-> <<>>, live |-> <<>>, idle |-> <<>>, env |-> <<>>, authcog |-> <<>>]
Builtin == [signal |-> "TERM", live |-> 10, idle |-> 0]
Scalars == {"signal", "live", "idle"}

\* applyDev: in a dev session key_dev stands in for key, elsewhere it is dropped.
DevResolved(layer, layerDev, dev) ==
  [k \in DOMAIN layer |-> IF dev /\ layerDev[k] # <<>> THEN layerDev[k] ELSE layer[k]]

\* apply: what the layer sets replaces what was there.
ApplyScalars(target, layer) ==
  [k \in Scalars |-> IF layer[k] # <<>> THEN layer[k][1] ELSE target[k]]

ApplyEnv(env, layer) == IF layer.env = <<>> THEN env ELSE Merge(env, layer.env[1])

\* A map key is merged into the map it finds (mutant).
SharedMerged(shared, layer) == ApplyEnv(shared, layer)

\* A map key is merged into a fresh map: the object the target shared is left as it was.
SharedAfter(shared, layer) == shared

-----------------------------------------------------------------------------
(* Hosts.  A hostname is the sequence of its labels from the right; a      *)
(* pattern adds its kind: "exact", "sub" for *.name, "both" for .name.     *)

Beneath(host, name) == Len(host) > Len(name) /\ SubSeq(host, 1, Len(name)) = name

\* MatchHost; exact beats any suffix, and a longer pattern a shorter.
HostScore(host, pattern) ==
  IF pattern.kind \in {"exact", "both"} /\ host = pattern.name THEN 100 + Len(host)
  ELSE IF pattern.kind \in {"sub", "both"} /\ Beneath(host, pattern.name) THEN Len(pattern.name)
  ELSE 0

HostAllowed(host, patterns) == \E p \in patterns : HostScore(host, p) > 0

DevHost == [kind |-> "both", name |-> <<"me", "lvh">>]

-----------------------------------------------------------------------------
(* Validation. *)

ValidProcess(p) == p.signal \in {"TERM", "INT", "QUIT", "USR1", "USR2"} /\ p.live > 0 /\ p.idle >= 0

\* validateURLPath, for paths "" (unset), "/a", "/b" and the invalid "bad".
ValidPath(path) == path # "bad"

\* A hook may not use the options of the built-in, and a lifecycle step is one of three.
ValidJob(job) ==
  /\ job.command # "" /\ job.timeout >= 0
  /\ CASE job.kind = "cron" -> job.name # "Bad" /\ job.schedule
       [] job.kind = "hook" -> job.name # "Bad" /\ ~job.builtin
       [] job.kind = "lifecycle" -> job.name \in {"create", "start", "destroy"}

\* validateHostHooks.
ValidHostHook(job) ==
  job.name = "github_pr" /\ job.command = "" /\ job.builtin

\* validate: the host's own keys.
ValidHost(file, hasApp) ==
  /\ hasApp \/ file.apps # "empty"
  /\ file.ports[1] >= 1 /\ file.ports[1] <= file.ports[2]
  /\ \A p \in file.listen : p >= 1 /\ p \notin file.ports[1]..file.ports[2]
  /\ IF file.console THEN file.listen # {} /\ (file.admins > 0 \/ hasApp) ELSE file.admins = 0

-----------------------------------------------------------------------------
(* buildApp. *)

NoWeb == [name |-> "", hosts |-> {}, canonical |-> <<>>, hub |-> ""]

\* deriveWeb: a process with hosts serves; a pattern belongs to one process of the app.
GoodSpecs(specs) ==
  /\ specs # {}
  /\ \A s \in specs : s.name # "Bad" /\ s.command # "" /\ s.count \in 0..64
  /\ \A s, t \in specs : s # t => s.hosts \cap t.hosts = {}

WebOf(specs, dev) ==
  LET web == {s \in specs : s.hosts # {}}
      names == {s.name : s \in specs}
      name == IF "web" \in names THEN "web" ELSE CHOOSE n \in names : TRUE
  IN IF web = {} /\ dev
     THEN {[NoWeb EXCEPT !.name = name, !.hosts = {DevHost}]}
     ELSE {[name |-> s.name, hosts |-> s.hosts, canonical |-> s.canonical, hub |-> ""] : s \in web}

HubOf(specs, web) == [web EXCEPT !.hub = (CHOOSE s \in specs : s.name = web.name).hub]

\* resolveHealth, resolvePubsub, resolveCanonical: each is for a process that serves.
GoodWeb(specs, web, authcog) ==
  LET serves == {w.name : w \in web} IN
  /\ \A s \in specs :
       /\ s.health # "" => s.name \in serves /\ s.health # "bad"
       /\ s.hub # "" => s.name \in serves /\ ValidPath(s.hub)
       /\ s.canonical # <<>> => s.name \in serves
  /\ \A w \in web : w.canonical # <<>> => HostAllowed(w.canonical, w.hosts)
  /\ \A w \in web : w.hub # "" /\ authcog # "" => w.hub # authcog

\* The process keys with the overrides of the process, its health path among them.
Process(name, scalars, env, procs, specs) ==
  LET over == IF name \in DOMAIN procs THEN procs[name] ELSE Absence
      spec == CHOOSE s \in specs : s.name = name
  IN [scalars |-> ApplyScalars(scalars, over), env |-> ApplyEnv(env, over),
      health |-> IF spec.health = "" THEN "tcp" ELSE spec.health]

AuthCogOf(host, layer) == IF layer.authcog # <<>> THEN layer.authcog[1] ELSE host

NotBuilt(file) == [file |-> file, ok |-> FALSE, own |-> FALSE, env |-> NoMap,
                scalars |-> Builtin, procs |-> <<>>, web |-> {}]

\* No process is checked on its own (mutant).
CheckedOnce(procs, specs) == {}

\* A process with overrides, of which its health path is one, is checked again.
Checked(procs, specs) == DOMAIN procs \union {s.name : s \in {t \in specs : t.health # ""}}

\* What buildApp makes of a file under the defaults [scalars, env, authcog].
BuildApp(file, defaults, dev) ==
  LET over == DevResolved(file.over, file.overDev, dev)
      scalars == ApplyScalars(defaults.scalars, over)
      env == ApplyEnv(defaults.env, over)
      authcog == AuthCogOf(defaults.authcog, over)
      web == {HubOf(file.specs, w) : w \in WebOf(file.specs, dev)}
  IN IF /\ GoodSpecs(file.specs)
        /\ DOMAIN file.procs \subseteq {s.name : s \in file.specs}
        /\ GoodWeb(file.specs, web, authcog)
        /\ ValidProcess(scalars) /\ ValidPath(authcog)
        /\ \A job \in file.jobs : ValidJob(job)
        /\ \A name \in Checked(file.procs, file.specs) :
             ValidProcess(Process(name, scalars, env, file.procs, file.specs).scalars)
     THEN [file |-> file, ok |-> TRUE, own |-> over.env # <<>>, env |-> env,
           scalars |-> scalars, procs |-> file.procs, web |-> web]
     ELSE NotBuilt(file)

-----------------------------------------------------------------------------
(* Parse, of the root file, and ParseApp, of an app's file under a host. *)

NoRoot == [file |-> <<>>, ok |-> FALSE, app |-> <<>>]

\* decode refuses an unknown key, a misspelt key_dev too.
Decodes(file) == ~file.typo

HasApp(file) == file.specs # {}

HostDefaults(file) ==
  [scalars |-> ApplyScalars(Builtin, file.defaults), env |-> ApplyEnv(NoMap, file.defaults),
   authcog |-> AuthCogOf("", file.defaults)]

\* A file is an app or a host; a host file holds host keys only.
RoleGood(file) ==
  IF HasApp(file) THEN file.apps = "absent"
  ELSE /\ file.over = Absence /\ file.procs = <<>>
       /\ \A job \in file.jobs : job.kind = "hook" /\ ValidHostHook(job)

ParseRoot ==
  /\ cfRoot = NoRoot
  /\ \E file \in RootFiles :
       LET defaults == HostDefaults(file)
           app == BuildApp(file, defaults, TRUE)
       IN
       /\ Decodes(file) /\ RoleGood(file) /\ ValidHost(file, HasApp(file))
       /\ ValidProcess(defaults.scalars) /\ ValidPath(defaults.authcog)
       /\ HasApp(file) => app.ok
       /\ cfRoot' = [file |-> file, ok |-> TRUE, app |-> IF HasApp(file) THEN <<app>> ELSE <<>>]
       /\ cfEnv' = IF HasApp(file)
                   THEN SharedAfter(defaults.env, DevResolved(file.over, file.overDev, TRUE))
                   ELSE defaults.env
  /\ UNCHANGED <<cfApps, cfLoads>>

\* Keys of the host are refused in an app's file.
HostKeysAbsent(file) == file.apps = "absent" /\ file.defaults = Absence /\ file.listen = {80} /\ ~file.console

ParseApp ==
  /\ cfRoot.ok /\ cfRoot.app = <<>> /\ cfLoads < MaxLoads
  /\ cfLoads' = cfLoads + 1
  /\ \E name \in CfNames, file \in AppFiles :
       LET defaults == [HostDefaults(cfRoot.file) EXCEPT !.env = cfEnv]
           good == Decodes(file) /\ HostKeysAbsent(file)
       IN
       /\ cfApps' = [cfApps EXCEPT ![name] =
                       IF good THEN BuildApp(file, defaults, FALSE) ELSE NotBuilt(file)]
       /\ cfEnv' = IF good /\ GoodSpecs(file.specs)
                   THEN SharedAfter(cfEnv, DevResolved(file.over, file.overDev, FALSE))
                   ELSE cfEnv
  /\ UNCHANGED cfRoot

CfInit ==
  /\ cfRoot = NoRoot /\ cfEnv = NoMap
  /\ cfApps = [n \in CfNames |-> NotBuilt(<<>>)]
  /\ cfLoads = 0

CfNext == ParseRoot \/ ParseApp

CfSpec == CfInit /\ [][CfNext]_cfVars

-----------------------------------------------------------------------------
(* Properties. *)

\* The env an app reads: its own map, or the one of the host it still shares.
EnvOf(app) == IF app.own THEN app.env ELSE cfEnv

\* "Pointers are dereferenced, ... slices replace, and maps merge key by key into a fresh map so
\* the shared defaults are never mutated": whatever other apps are loaded before or after it, an
\* app that is served has for each process and key the value of the innermost of its process,
\* its file, the host's defaults and the built-in values that sets it (the dev variants in a dev
\* session, and never under a host), all of them valid, and the environment they add up to.
LayersKept ==
  LET Innermost(file, name, dev, key) ==
        LET app == IF dev /\ file.overDev[key] # <<>> THEN file.overDev[key] ELSE file.over[key]
            own == IF name \in DOMAIN file.procs THEN file.procs[name][key] ELSE <<>>
        IN First(<<own, app, cfRoot.file.defaults[key], <<Builtin[key]>>>>)
      EnvLayers(file, name, dev) ==
        <<IF name \in DOMAIN file.procs THEN file.procs[name].env ELSE <<>>,
          IF dev /\ file.overDev.env # <<>> THEN file.overDev.env ELSE file.over.env,
          cfRoot.file.defaults.env>>
      EnvRight(env, layers) ==
        /\ DOMAIN env = UNION {DOMAIN layers[i][1] : i \in {k \in 1..3 : layers[k] # <<>>}}
        /\ \A v \in DOMAIN env :
             env[v] = First([i \in 1..3 |->
               IF layers[i] # <<>> /\ v \in DOMAIN layers[i][1] THEN <<layers[i][1][v]>> ELSE <<>>])
      Right(app, dev) ==
        \A s \in app.file.specs :
          LET p == Process(s.name, app.scalars, EnvOf(app), app.procs, app.file.specs) IN
          /\ ValidProcess(p.scalars)
          /\ \A key \in Scalars : p.scalars[key] = Innermost(app.file, s.name, dev, key)
          /\ EnvRight(p.env, EnvLayers(app.file, s.name, dev))
  IN
  /\ \A n \in CfNames : cfApps[n].ok => Right(cfApps[n], FALSE)
  /\ cfRoot.ok /\ cfRoot.app # <<>> => Right(cfRoot.app[1], TRUE)

\* "canonical_host ... must be one of Hosts", "pubsub needs hosts on the same process" and a hub
\* never takes the sign-in path: every process the proxy serves has a host it answers on, the
\* dev host included, and each path of the app means one thing.
WebServable ==
  \A app \in {cfApps[n] : n \in CfNames} \union {cfRoot.app[i] : i \in DOMAIN cfRoot.app} :
    app.ok =>
      /\ \A w \in app.web :
           /\ w.hosts # {}
           /\ w.canonical # <<>> => \E p \in w.hosts : HostScore(w.canonical, p) > 0
      /\ \A s \in app.file.specs :
           s.hub # "" \/ s.health # "" => \E w \in app.web : w.name = s.name /\ w.hub = s.hub
      /\ \A w, v \in app.web : w # v => w.hosts \cap v.hosts = {}

ConfigSound == LayersKept /\ WebServable
=============================================================================
