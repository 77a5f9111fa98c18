# dboss, modelled and checked

dboss runs the web apps of one host: it starts and supervises their processes,
routes HTTP requests to them, restarts them without dropping requests, keeps
their logs and events, runs their jobs and backs up their databases. These
modules model the program under `src/`: TLC checks them on small instances,
TLAPS proves what is marked as proved for every value of the constants.

Paths below are relative to `src/internal/` unless they say otherwise.

## The system

Everything lives in one daemon process; `dboss <command>` is a client of its
control socket. State is in goroutines and in files under the state, log and
apps directories; no two daemons share them, except the registry of ports of dev
sessions.

| Component | State | Operations | What is hard | What makes it correct |
| --- | --- | --- | --- | --- |
| **App goroutine** `supervisor/{runtime,process,roll,instances,health}.go` | the maps of one `appRuntime`: live, retiring and booting processes, ready and held names, failure counts, the roll | start, stop, restart, start/stop/restart of one process, update of the spec, roll; the exit, ready, health, retry, retired and step events | events of the last run or of a copy that was replaced arrive late; a roll is a script the app leaves in the middle | a process is tracked once, a slot has one process, only probed copies get traffic, a roll never takes the last ready copy, every caller gets an answer |
| **Manager** `supervisor/{supervisor,state,drain,exec}.go` | the app table; the lists of running, maintained and created apps in memory and on disk; the rescan lock | Start, Stop, Restart, Destroy, SetMaintenance, Rescan, Boot, Close, idle stop | calls of several operators overlap; the lists are written after the goroutine was told; the host dies between two writes | one goroutine for each app, the last word is on disk, a destroyed app leaves nothing, calls return |
| **Traffic** `supervisor/{routes,drain}.go`, `proxy/proxy.go` forward | upstream objects of the route table, counters of requests in flight, the draining mark | pick, count, forward, done; publish the routes; retire a copy; drain and stop an app; idle stop | a request and the goroutine that retires its copy share two counters under two locks | the counters are exact, an old copy only drains, no roll cuts a request |
| **Event store** `ingest/ingest.go` tailEvents, `events/{store,compact,index,module}.go` | Parquet files of each namespace and day, journals, indexes; the offset of the file that is read | read and append, compact a closed day, write indexes, prune | the daemon dies between any two writes; events arrive for days that are over | no event is lost or counted twice, indexes agree with the files |
| Log ingest `supervisor/logwriter.go`, `ingest/{ingest,group,exceptions}.go` | live and sealed segments of each process's output, offsets of tailed files, the open record | write, rotate, seal; parse, append, carry, remove | a record cut in two by a seal; rows and offset are two commits | every line ends in one row, in order |
| Log store `logstore/` | a SQLite database and a bounded queue for each app | queue, batch, flush, prune, search | a full queue, a failed flush, close with a backlog | what was accepted is written once, retention removes only old rows |
| Jobs `supervisor/{cron,hooks,command}.go` | the runs of each cron job and deploy hook | run due, run now, timeout, exit, restart after a hook | overlap, a timeout that races an exit, a stop while a hook restarts the app | no overlap unless allowed, a run ends once, its failure stays visible |
| Schedule `schedule/` | none | parse, next time, next daily time | boundaries of months, daylight saving | the next time is the least one that matches |
| Proxy decisions `proxy/{filter,proxy,authcog,signin,edge,tls}.go` | none | canonical redirect, allow, block, health, sign-in, basic auth, maintenance, static, body | the order of the stages | nothing is forwarded before every gate, health never wakes an app |
| Sign-in `authcog/`, `console/auth.go` | pending challenges, login links, the signing key | start, callback, login link, session | a callback twice, late, at another gate | a challenge or a link is spent once |
| Ports `ports/` | a port of each app/process, the ledger of dev sessions | claim, release, stale | several daemons and one lock file, dead sessions | no port is held twice |
| Config files `apps/store.go` | the files, a history of their revisions | read, write at a revision, restore, make a local override | two editors | an edit is never overwritten unseen, the history holds what was replaced |
| Config schema `config/` | none | decode, default, merge, validate, patch | precedence of host, app and process keys | every key has one effective value |
| Discovery `apps/{discovery,git,destroy}.go` | none | scan the apps directory | two apps with one host name | a host name belongs to one app |
| Pubsub `pubsub/` | hubs, channels, subscribers, replay rings | publish, subscribe, resume, janitor, reconcile | slow subscribers, limits, a channel that is dropped while somebody joins | a subscriber sees a gapless suffix or is told it lost messages |
| Notifications, alerts `notify/`, `alerts/` | a queue, the last time of each event | send, post, debounce, close | a series that ends in the debounce window | an operator hears of every kind of trouble |
| PostgreSQL `pg/` | the catalog of backups, archives, the running set | dump, upload, prune, restore, drop | archives and catalog are two places, ids are file names | an id names one archive, rotation keeps what it must |
| PR previews `preview/`, `ops/preview.go` | a lock for each preview app | deploy, tear down | pings overtake each other | the last ping wins |
| Operations, control socket, console, CLI `ops/`, `ctl/`, `console/`, `cli/` | sessions only | decode, dispatch, render | | the same action on every transport |
| Daemon and modules `daemon/`, `module/` | the list of started modules | start in order, close in reverse | a start that fails half way | what was started is closed |
| Housekeeping `diskusage/`, `tmpclean/`, `metrics/`, `sysinfo/`, `pages/`, `secret/`, `res/`, `devtls/`, `git/`, `release/` | caches, generated secrets, certificates | measure, sweep, render | | |

How they interact. The manager owns an app goroutine for each app and talks to it
by requests on a channel; what happens to a child comes back to that goroutine
as an event on a second channel, from monitors, timers and retire goroutines it
started. It publishes routes into the route table, which the proxy reads for each
request; the proxy reports requests in flight, which retire, drain and idleLoop
wait on. Ingest asks the manager to seal the output of the processes, reads the
files of the apps, and writes to the log store and the event store; both are
read by the console through `ops`. Modules run on tickers and know each other
only through the manager's snapshots.

`PROJECT.json` lists each component with what is left out, and the hazards: the
places where this code could go wrong and a test would hardly notice.

## The modules

| Module | What it is |
| --- | --- |
| `AppRuntime` | the app goroutine, its children and the goroutines that report to it |
| `RollWatch` | `AppRuntime` with a record of what happened beside a roll, and what a roll promises |
| `AppRuntimeProofs`, `AppRuntimeRolls` | theorems about the two: types, what is tracked, its callers, apps handled by hand; rolls and ready marks |
| `Manager` | the manager, its lists and files, overlapping callers, crashes of the host |
| `ManagerProofs` | theorems about it |
| `Traffic` | requests, routes and counters of one web process |
| `TrafficProofs` | theorems about it |
| `EventStore` | one event namespace of one app on disk: ingest, compaction, retention, crashes |
| `EventStoreProofs` | theorems about it |
| `EventQueries` | a summary that reads the event store while it is written |
| `EventFilter` | one filter in its three meanings, and funnels |
| `EventViews` | saved views and the writers of `views.sql` |
| `LogRows` | how lines are folded into rows (operators for the next two) |
| `LineLog` | abstract: a line written ends in a row, or was rotated away first |
| `StdoutLog` | the output of one process from its pipe to the log store; implements `LineLog` |
| `TailLog` | a file the app writes and rotates itself, or its exception file |
| `LogStore` | the write queue, the batches and the close of one log database |
| `Exceptions` | occurrences folded into groups and minutes, next to an operator and retention |
| `Jobs` | cron and hook runs, timeouts, reloads, the restart after a hook |
| `Checkouts` | PR previews, add, rescans: who changes the apps folder |
| `ConfigStore` | the console's editor, the history, the local override |
| `AppConfig`, `ConfigPatch` | the layers of a configuration; the save of a form |
| `Backups` | dumps, uploads, the catalog, rotation, restore |
| `Schedule` | cron times and the daily timer over zones whose clocks change |
| `PortRegistry` | the ports of dev sessions |
| `Gateway` | the stages of one request |
| `SignIn` | challenges, login links and sessions of apps and the console |
| `Notices` | the operator webhook and the alerts that feed it |
| `Feed` | abstract: a subscriber sees a channel without gap or repeat |
| `Pubsub` | hubs, channels, slow subscribers, the janitor; implements `Feed` |
| `PubsubProofs` | theorems about it, that it implements `Feed` among them |
| `ControlProofs` | theorems about `PortRegistry`, `SignIn`, `Gateway` and `Notices` |
| `StoreProofs` | theorems about `ConfigStore`, `LogStore`, `Backups`, `EventQueries` and `EventFilter` |
| `MCData`, `MCEdge`, `MCLive` | instances of several parts side by side |
| `MCAppRuntime`, `MCRollWatch`, `MCManager`, `MCEventStore`, `MCSchedule` | instances of one part |

The modules are abstractions of each other's environment, not parts of one big
state: `Manager` sees of the app goroutine that it takes requests one at a time,
may run the app or not, and ends some time after it was cancelled; `Traffic`
leaves which copies exist to `AppRuntime` and keeps the order of the steps that
touch routes and counters; `EventQueries` sees of the writers of `EventStore` the
steps a reader can tell apart; `Gateway` takes the sign-in table of `SignIn`, the
routes of `Traffic` and the hubs of `Pubsub` as given.

Most of the later modules share no state with one another in the program, so
their product would only multiply their states. `MCData`, `MCEdge` and
`MCLive` put them side by side under a variable `moving` which `Init` sets to one of the
parts and nothing changes: a behaviour moves that part alone, every other part
stays in its initial state, and the run explores the sum of the state spaces.
An invariant of a part is trivial in the behaviours of the others and real in
its own; a temporal property of a part that needs fairness gets it in its own.

### AppRuntime

The variables are the fields of `appRuntime` by their names. `tab` holds every
process object with the goroutines that belong to it: the child (`os`), whether
its exit event was consumed, its health monitor, its retire goroutine, its
restart timer. An action is a handler of a request or an event. A handler that
loops is a chain of steps joined by `pc` (`begin`, `plan`, `advance`, `finish`,
`abort` of a roll; `launch`, `create`, `start`, `spawn` of a start), because the
outside world moves while it runs; it takes no request and no event before it
is back at `idle`. What moves outside is only seen through events, which
arrive in any order.

* A process object that nothing refers to is given back (`Collect`): `Pids` bounds
  the objects alive or referenced at once, not how many there ever were.
* A slot is a port, a cgroup and a pid file. That a stranger may still listen on the
  port (ClearPort) is the same as the child dying at once, which `Die` covers.
* The order in which a roll replaces the instances of one kind is left open.
* `Updates`, `Ops` and `Faults` say what may happen to an app with a given spec: the
  specs a rescan may put in its place, the requests it gets, the ways its
  children fail. So one run holds apps that are handled differently. `MaxRestarts`
  is a number for each entry, as in `defaults.MaxRestarts`. `Targets` are the names a rolling restart may be asked for, `All` the app.
* `RollWatch` adds one variable, `disturbed`: the entries of which a copy ceased to
  serve outside the steps of the roll since it was planned, or all entries after a
  rescan. It is history, no action reads it.
* Left out: the wording of errors, notifications, output files, environment,
  cron and hooks (`Jobs`), cgroup limits.

### Manager

Callers are goroutines in the middle of a call; `cs[c].at` is the place where
the code may be overtaken: before each channel send, lock, and file write.
`disk` and `mem` are the three lists in their two places, `rt` the goroutines
there ever were, `listed` the one in the table. `word` is a ghost: the last
answer an undisturbed caller got, which `IntentKept` holds the program to. `Crash` takes the daemon down anywhere, `New` brings it back from
the files. The `running` list has three states because a host that has never
written it starts what is marked autostart.

### Traffic

Two ports are enough for the old and the new copy of a web process. An upstream
is an object of the route table and lives on in the requests that picked it
(`Unreferenced` gives it back). `pick` takes any routed copy: which one is the
least loaded does not matter to what is stated. `Touch` may be lost, since the
code drops it when the goroutine is busy. `tied` and `halt.since` are ghosts:
whether a request's copy was still routed for it, and the requests counted since
idleLoop read the counter.

### EventStore

The app appends lines and may start its file over; ingest reads up to a batch,
writes a file for each day, then saves its offset; maintenance goes over the days
with a journal, a rename, deletions and two index writes. Each write to disk is a
step, `Crash` and the failures may come between any two. Rows carry the identity
`eventID` gives them (inode and position). `from` in a file and `stored` are
ghosts: what a file was merged from, and the events a reader is owed because the
offset is past them and retention cannot have taken them. A file left by a crash
before its journal was written is never read and is not kept in the model. All
three index files are one or the other of `daily` and `rest`: which of the last
two is missing makes no difference to `hasIndex`.

### The log path: LogRows, LineLog, StdoutLog, TailLog, LogStore, Exceptions

`LogRows` is the grouper: a line is a record of its kind and request id, and
`Cut` is the reference, the rows of a whole stream folded in one go with flushes
only where they are allowed. `StdoutLog` has the segment that is open, those that
are sealed, the pass of ingest over them (seal, scan, parse, append, carry the
open record, remove) with a failure or a crash after each, and the process that
writes, falls silent, exits and is spawned again. `LineLog` is what that comes
to: a line goes from new to written to stored or rotated away, never back, and a
written line does not stay written. `TailLog` is a file the app owns: it may be
replaced, removed, emptied in place, or be half written; offsets count lines, so
that landing in the middle of one is left out; `raced` marks a line that came
between the pass's stat and its read, `tailGen` counts how often a file was emptied,
and `tailUnread` are the lines in front of an offset that a file grown again
past it never gets read. `LogStore` is one writer
goroutine and its queue; `late` rows are those accepted after Close began.
`Exceptions` keeps each occurrence as read, so that the tables can be compared
with what they should add up to however it was batched.

### Queries: EventFilter, EventQueries, EventViews

`EventFilter` answers a filter as `Match`, as the SQL of `Where` (three-valued:
null, false, true) and from index rows, and a funnel by its chain of joins.
`EventQueries` lets one reader list, read indexes or files, fill and use its
cache, while a batch is appended, a day is compacted (rows, deletions, index),
and retention removes it. `EventViews` has savers that change the catalog under a
lock and write `views.sql` without it, and the minute ticker that repairs it.

### Jobs, Checkouts, Schedule

`Jobs` runs the same goroutine as `AppRuntime` with only its job events: a run's
child, its wait goroutine, its timer (armed for the jobs of `Timed` alone: no
timeout is the default) and the restart goroutine are separate and report in any
order; `born` tells a job from the one a rescan made in its place.
`Checkouts` has a job for each ping, add or rescan in flight, the lock of an app
(`coLock`, which a ping takes and an add does not), a folder as its branch and its
files, and the app table; a step may fail, visitors wake stopped apps.
`Schedule` has a small calendar, zones on either side of Greenwich with one change
of the clock in either direction, the turns of the loop of `Next` (`DayAfter` and
`HourAfter` are what `time.Date` gives there) and `NextDaily`.

### Configuration: ConfigStore, AppConfig, ConfigPatch

`ConfigStore` has the two files of an app, one temporary file for each path, the
history, editors between any two of read, compare, snapshot, truncate, fill,
rename and rescan, a deploy that rewrites the file, and crashes. `AppConfig`
loads a root file and app files under its defaults, which are one shared object
as the code's maps are. `ConfigPatch` takes the values of a form one at a time in
any order.

### Backups, PortRegistry, Gateway, SignIn, Notices, Feed, Pubsub

`Backups`: dumps of two databases, an upload, rotation, removal by hand and a
restore, one step for each file or catalog access: an archive is created, and torn
until it is complete; a restore reads the file once for its checksum and once to
unpack it. Two ghosts: `bakPromised`, the manual dumps an operator was told of, and
`over`, what was put under an archive's name between those two reads. `PortRegistry`: a claim is one step since
it holds the file lock; the sweep of dead sessions is not under it.
`Gateway`: a request goes from stage to stage with what its app has switched on
and what it carries. `SignIn`: browsers, one table of challenges for all gates,
callbacks that may be copied to another browser, a rescan that moves a host;
`sigSigned` and `sigSpent` are ghosts. `Notices`: senders, the quiet period, the
queue, the one worker, close, and the alert tick in its turns. `Pubsub`: a
message is its number on its channel; `Feed` lets a subscriber join at most
`Replay` back, take the next message, and leave.

## The runs

| Run | Checks | Instance |
| --- | --- | --- |
| `runtime_roll` | `TypeOK TrackedOnce WaitersHeld RollDriven`, `ReadyWasProbed RollAnswered` | web, worker, create and start steps; two callers of Restart; stops; crashing children; and an app whose only process is brought back by retries and by hand, and one whose worker a rescan drops |
| `runtime_scale` | `SlotsDistinct SupervisedByHand StoppedByHand`, `RollKeepsServing` | `RollWatch`: a web process scaled up to two copies and another scaled down to one during rolls, stops and crashes; and an app of an api and a job, started, stopped and restarted one by one, that fail their checks and die |
| `manager` | `IntentKept DestroyLeavesNothing` | two callers, start, stop, destroy, maintenance, boot and rescan, crashes of the host, a failing disk |
| `manager_live` | `LoopsOwned`, `CallsReturn` | two callers, restart, destroy, rescan, idle stop, close |
| `edge` | `CountersExact Walled NoticesKept AcceptedOnce GroupsExact`, `OldCopyOnlyDrains RollCutsNothing IdleSparesOld` | `Traffic` (two requests, two ports, three upstreams), `Gateway`, `Notices`, `LogStore`, `Exceptions` |
| `data` | `EventsKept CompactionSound OneMeaning SummaryMissesNone TailSafe ConfigSound FormWritesItsRecipe SignInSound TimersKept HandedOnce SavesSound DumpsKept` | `EventStore`, `EventFilter`, `EventQueries`, `TailLog`, `AppConfig`, `ConfigPatch`, `SignIn`, `Schedule`, `PortRegistry`, `ConfigStore`, `Backups` |
| `live` | `EventsSettle StreamKept RunsKept ViewsSettle PreviewsKept FeedKept` | `EventStore`, `StdoutLog`, `Jobs`, `EventViews` under fairness, and `Checkouts`, `Pubsub` |
| `bug_doubled`, `bug_roll_hangs`, `bug_orphans`, `bug_index`, `bug_next_loops` | the disagreements below | |

What the properties say, where the name is short:

* `ReadyWasProbed`: a copy that counts as ready passed its own check, in every run in
  which no roll goes on in an app that is down (`RollsEndWithApp`) and no start comes
  to its spawns with a ready copy live (`StartsFindNoneServing`). The code sees to
  neither: see `ReadyPassed` below.
* `RollKeepsServing`: a roll of the app or of one entry takes the last ready copy of a
  web process away only if the process was disturbed since the plan, or with the
  whole app. Without that condition it is false: see `AlwaysKeepsServing` below.
* `IntentKept`: what an undisturbed Start, Stop or SetMaintenance answered is what
  the lists say, in memory and after a crash. `LoopsOwned`: one goroutine for an
  app, and a draining mark belongs to a call that will clear it. `CallsReturn`: every
  call returns, except a restart whose roll the app goroutine never answers
  (`bug_roll_hangs` is how that happens): nothing waits for ever for the rescan lock,
  for an app goroutine that is gone or for its end, nor behind such a restart.
* `CompactionSound`: rows are doubled on disk only under a journal that removes
  the sources, and an index of a closed day is that of its rows.
* `SummaryMissesNone`: a summary counts every event its days held when it began.
  `OneMeaning`: the ways to evaluate a filter agree, and a funnel counts exactly
  the actors that have a chain. `ViewsSettle`: `views.sql` ends as the catalog.
* `EventsSettle`: no event of a kept day is lost, and a day that is over ends as one
  file with its indexes.
* `SupervisedByHand`, `StoppedByHand`: in an app without steps, rolls and rescans whose
  web processes are always restarted (`ByHand`), a process that should run is up, or a
  timer or the start underway brings it back (`Supervised`), and a stopped app has no
  child alive (`NothingOutlivesStop`).
* `TailSafe`: the offset never runs ahead of the rows (but over lines of a file that
  was emptied and had grown past the offset by the next pass), rows are stored once,
  and records are cut only where the app was silent. `StreamKept`: `LineLog` is
  implemented, a line not yet stored is on disk, records are whole.
* `AcceptedOnce`: an accepted row is committed once, on its way, or dropped by the
  cap after a failed insert. `GroupsExact`: an exception group is what its
  occurrences add up to.
* `DumpsKept`: a recorded manual dump goes only by an operator or by the cap; a
  database is dropped for a restore only with a whole archive in hand, the recorded
  one or one that was put under its name between the restore's two reads of it.
* `RunsKept`: a live run belongs to a job that knows it, one at a time unless
  overlap is on; a failure stays visible; a run of a job with a timeout ends, a
  stopped job goes away, and a hook is idle again once the restarts after its runs
  came back.
* `PreviewsKept`: a deploy that succeeds leaves the app listed, running the file
  rendered for its branch; a closed preview is not brought back by a rescan.
* `SavesSound`: a save nobody overtook replaces what its editor saw, which is in
  the history; files are whole, and what runs is what the active file says.
* `ConfigSound`: every key has the value of the innermost layer that sets it, also
  for the second app loaded under the same defaults; a web process can be
  reached. `FormWritesItsRecipe`: a saved form changes what it names, nothing else.
* `TimersKept`, each claim in the zones it is true of: `Next` gives the first match and
  passes none over (not where a zone in the east turns its clock over midnight); each
  turn of its loop moves forward (in the east, and in the west where no hour comes
  twice and no midnight is left out); a daily timer fires once on each local day (in
  the west where the clock goes back or stays, in the east unless it goes forward
  to midnight). Where a claim does not hold is said below; `bug_next_loops` runs one
  of the cases.
* `SignInSound`: an identity is that of a sign-in this browser made, on this host,
  for this gate, on a list the request began with; challenge and link are spent
  once. `Walled`: no stage gives anything of the app away before the gates.
* `NoticesKept`: every event taken in is counted once; only one that was taken
  starts a quiet period. `FeedKept`: `Feed` is implemented, clients are counted.
* `HandedOnce`: two sessions never hand out one port, unless a ledger could not be
  written.

### Bounds

`AppRuntime`: `Pids` is one more than the processes that are up at once in a roll,
so a released object may still be referred to while its name is taken again;
`MaxSlot` is above what the roll of the instance can reach (a slot above it would
disable `CanSpawn`, which no run meets). `MaxRestarts` of 1 or 2 reaches `crashed`
by retries (2 for the web processes that are handled by hand); `MaxCount` of 2 is one copy more and one copy less, each in
an app of its own: no behaviour of `runtime_scale` scales up and down again. `Manager`: two
callers make every overlap of two calls; three runtimes are the old, the new and
the one after a destroy and a rescan. `Traffic`: two requests race on one copy
or sit on two. `EventStore`: three days with a retention of one have an open, a
closed and a pruned day; two events make a late one after the first was compacted
or pruned; two logs let the app replace its file once. The instance of `data` reads
an event a pass, so a day gets several part files; that of `live` reads both, over
two days and one log. Events, databases and editors are numbered in the order they
are first used, which leaves out only renamings. One fault (`MaxFaults`,
`OutFaults`, `TailFaults`, `CoFaults`, `MaxBakFaults`, `MaxSignFaults`,
`MaxRegFaults`, `MaxCfgCrashes`) falls between any two steps; `LogStore` has two,
to reach the cap. Three lines make a record that is open at a seal, its
continuation and the next; three occurrences fall into one or two minutes and
batches. Two editors, callers, savers, browsers, folders, jobs of one checkout are
every pair. Buffers and queues of one or two (`OutBuffer`, `QueueLimit`,
`QueueSize`, `MaxBuffered`) are reached and overrun. `MaxSecond` of 3 has dumps in
one second and in different ones, in and beyond the `Window`. The calendar of
`Schedule` has two minutes to the hour, four hours to the day and eight bits for a
duration, enough for every field to carry into the next and for a clock change to
skip or repeat an hour; `MCZones` has both directions east and west of Greenwich, no
change, and changes over midnight, and `MCCrons` an interval that overflows its
word. `TailModes` pairs the kinds of lines with the number of lines and faults: three
lines of which some continue a record, two with blank ones and a fault, and both
for the exception file; the file is replaced, emptied or removed. One of the two
jobs in `Jobs` has a timeout (`Timed`). A part that has used up its bounds stops, which is why the three
sum runs say `CHECK_DEADLOCK FALSE`; the other runs check for deadlock. Symmetry is used
where only safety is checked.

### Fairness

`FairSpec` of `AppRuntime` is weak fairness of what the goroutine does with the
requests, steps and events it has (its loop always comes round) and of the
goroutines that will report: a retire goroutine has a deadline, a lifecycle step
a timeout, a probe an interval. It is not assumed of requests, nor that a child
dies or gets healthy by itself: a monitor gives up in the end, which is the
`fail` event. `FairSpec` of `Manager` is weak fairness of each caller's own steps
and of the goroutine that ends after it was cancelled, and strong fairness of the
rescan lock, which a Go mutex gives to who has waited a millisecond. The answer to a
rolling restart (`Rolled`) is owed by nobody: the app goroutine may wait for a step
that a rescan has dropped. What the caller does in any case is see its app
goroutine end (`RollEnds`). `LiveFairSpec` is weak fairness of the ingest pass and of maintenance,
both driven by timers in the same process; of `Jobs`, the loop, the timers and
the wait goroutines, but not the restart after a hook, which may hang as above, nor
a command that it ever ends by itself (that a killed run is also reaped supposes
that no process of it left its group with the run's pipe); of `EventViews`, the writers in flight and the minute ticker.
The app, the operator, the clock, faults and children owe nothing, except that a
process that dies is spawned again (the supervisor's restart policy) and that a
stream that is written in bursts has a quiet second again and again (strong
fairness of `OutQuiet`): ingest holds an open record back until then, by design.
`SchFairSpec`, of the run that refutes `NextReturns`, has the processor run the loop.

## What is proved

Theorems hold for every value of the constants that meets the named assumptions of
the module; the runs show the same properties on one instance. Each rests on an
inductive invariant, which TLC checked on an instance before it was proved, and on
a lemma for each action.

Where a loop of the code is a recursive function over the naturals (a catalog gone
through entry by entry, a chain of joins), its result for every length is proved by
induction in the form of a set: `BelowWF` takes from the library that `<` is well
founded on the naturals, `LeastNat` that a nonempty set of naturals has a least
member, and `RankInduction` that a set with 0 and closed under successor is all of
them. These need no operator as a parameter. Definitions that hand an operator to a
fold of the community modules stay out of reach.

**AppRuntime** (any entries, specs, callers and process objects, any bound on slots).
`TypeCorrect`, `SlotsNeverShared` (`SlotsDistinct`), `ProcessTrackedOnce`
(`TrackedOnce`), `CallersHeld` (`WaitersHeld`). `SlotsDistinct` is not inductive: a
handler that gives an object back must know it is not tracked any more. `Table` adds
that a live process sits under its own name with its exit unhandled and no retire
goroutine (`LiveOK`), that the copy a roll boots is like that and in no map
(`BootingOK`), and that the retire goroutine of a retiring process has not reported
(`RetiringOK`). Most handlers are instances of three facts: the table shrinks
(`TableShrinks`), a process is spawned into a slot none of the tracked has
(`TableSpawns`), or nothing of it moves (`TableKept`). For the callers `Callered`
adds that an idle roll has none (`IdleRoll`).

`NothingForgotten` (`SupervisedByHand`) and `NothingLeftRunning` (`StoppedByHand`) are about
apps that meet `ByHand`. Their invariant is `Hand`: no roll and no step, and where the
goroutine can be (`HandAt`); every child that is up is live (`UpIsLive`), since only a roll
retires one; an app that is down or about to come up has no process (`DownIsEmpty`); a
start has spawned all it has not yet to spawn (`SpawnsAll`); what is due is up, timed, or
to be spawned by the request underway (`Kept`). `Follows` is what the other handlers do to
a process object. Neither property is true of every app, and each part of `ByHand` is
needed: a rescan that scales an app up leaves the new copies to the next roll, a roll
goes on in an app that crashed, the end of a create step is ignored in an app that
runs already, and a web process that is not always restarted may exit cleanly and
leave the app crashed with its workers up, where `DownIsEmpty` breaks.

**AppRuntimeRolls.** `RollsReport` (`RollDriven`): `Driven` says that a roll outside its own
handlers waits for a step, copy or worker with something yet to report
(`AnyReports`, which unlike the property knows that the booting copy was forked, so that
a failed check kills it and its exit follows), that a step it waits for is in the
spec, and that what it replaces are web entries, the ones that are watched.
`Awaits` is what every other handler does to a process object: it takes nothing away
that is yet to report.

`ReadyAfterProbe` (`ReadyWasProbed`): no mark of `a.ready` is one of a copy that has yet
to pass its check. The invariant is `Marks`, which adds that a mark whose process is
gone is left only in an app that is down (`failStart` and `stop` leave `a.ready`
alone; `start` clears it), and `Chained`, which says in which states and with which
roll the goroutine is inside a handler. The attempt to prove the property without
hypotheses failed for a good reason, two behaviours the runs are too small to meet
(`ReadyPassed` below), and the property took its two conditions from them. `StepsMakeTheGap`
shows the second one to be about lifecycle steps alone: an app without them always
meets it.

`RollsKeepServing` (`RollKeepsServing`, of `WatchSpec`). The invariant is `Planned`: as long
as a roll still has copies of an undisturbed web process to retire, these are surplus,
and every copy the process should have serves or is in the roll's hands, to be replaced
or just booting. It rests on the order `planRoll` sorts its steps into, on `OneAtATime`
(in its handlers a roll waits for nothing, otherwise for one thing), and on the lemmas
that no handler but a spawn gives a process object another name. The first
attempt, on the property without `disturbed`, failed for a good reason: TLC found
`AlwaysKeepsServing` (below) false in an instance with a worker and six process objects.
The new statement was checked by the run, and `Planned` in an instance with a worker to
a depth of 29 steps, which did not exhaust it.

**Manager** (any finite set of callers, with more runtimes than callers, any calls and
faults; `CallersAssumption`, `OpsAssumption`). `OneOwner` (`LoopsOwned`), `IntentSurvives`
(`IntentKept`), `DestroyIsClean` (`DestroyLeavesNothing`). `IInv`: where each call can be
and what it holds there (`Placed`); nothing but files while the daemon is down (`Down`);
whoever takes the app off the table holds the rescan lock until its goroutine ended
(`Tabled`); a draining mark belongs to a call about to stop (`Drained`); a call that
answers for a list had it to itself (`Alone`) and may rely on what it reached
(`Reached`); what was told holds on disk and in memory (`Kept`). The assumption on
runtimes stands for the allocator: a rescan can always make one.

**Traffic** (any finite sets of requests, ports and upstream objects; `PortsAssumption`).
`CountsAreExact`, `OldCopiesDrain`, `RollsCutNothing`, `OldRequestsSpared`, the
invariant and the three action properties of the run. A counter is the number of requests
that hold its upstream. `Placed`: a request holds one exactly from pick to done.
`Routed`: a routed upstream is that of its port. `Attached`: the copy of a request that
was routed to it is alive, still routed or watched by the goroutine that retires it.
`Watched`: requests counted while idleLoop stops the app came after its read.

**EventStore** (any number of events, days and files, any retention, batch and number
of faults; `BoundsAssumption`, `MissingAssumption`: no journal is told from one).
`CompactionIsSound` (`CompactionSound`): `CompInv` has fresh names for files (`Named`),
what a compaction has in hand at each write (`Merging`), that journals never name their
own target (`Journaled`), that a merged file sits next to a source of it only under its
journal (`Doubled`), and indexes that agree except while they are written (`Indexed`).
`NothingIsLost` (`EventsKept`, with `Rewrites` without `truncate`, which loses events):
`KeepInv` adds that a row names the one line it came from (`Placed`), that what a pass
wrote is there (`Written`), and that a merged file covers what it replaces (`Covered`).
Repeated rows are left out by their identity: that this drops no event is `DedupeFact`.
The attempt to prove `JournalCoversDoubles` showed it to be false with two faults, where
the run has one: a day past retention whose journal Prune removed before it could remove
the files keeps both. Its statement now excepts such days, which no reader is owed.

**Pubsub** (any channels, subscribers, queues, limits). `ClientsAreCounted`
(`ClientsCounted`): the counter behind `max_clients` is the number of subscribers.
`ChannelIsFeed` (`FeedKept`): under `RisingReplays`, a watched channel implements
`Feed`, each step mapped to a step or a stutter. `FeedInv` says that a ring is the last
messages of its channel (`Rings`) and that a connection will be given every message
after its last one (`Streams`). The hypothesis is the caveat of `RingIsLast` below: a
lowered `replay` leaves a ring with a gap.

**ControlProofs.** *PortRegistry* (any folders, keys and ports, any number of sessions
and faults). `PortsHandedOnce` (`HandedOnce`) from `RegInv`: a session hands out what it
holds (`HandsItsOwn`), what it holds is in its ledger or its write failed (`Ledgered`),
and two hold one port only after a failed write (`HeldOnce`).

*SignIn* (any hosts, browsers, calls, lists and faults). `SignedInOnceAsThemselves`
(`SignInSound`). `SignInv` follows one sign-in by its number: a number is handed out once
(`Numbered`), the link is of the host and gate of its challenge (`OfOneSignIn`), the state
cookie with it is in the browser that left (`InItsBrowser`), an exchange in flight
confirms what its link was made for (`Confirming`), a session was confirmed to its browser
(`SessionsEarned`), and a challenge waits, is exchanged by one call, or is spent, never
two of these (`Unspent`).

*Gateway* (any apps, switches and requests). `AppBehindItsWalls` (`Walled`). `GwInv` says
for each stage which walls the request behind it has passed (`GwInside`, `GwPastBody`,
`GwPastHooks`) and for each answer which it had to (`GwAnswered`): the property is about
the order of the stages, and so is the invariant.

*Notices* (any apps, events and quiet period). `NoticesCountedAndSpaced` (`NoticesKept`) from
`NtInv`: the time remembered for an app and a kind is that of the last event taken in
(`LastTaken`), so two of them are a quiet period apart (`Spaced`) and an event held
back has one that holds it (`HeldFor`).

**StoreProofs.** *ConfigStore* (any texts, editors, revisions, crashes).
`SavesReplaceWhatWasSeen` (`SavesSound`) from `CfgInv`: what a save nobody overtook is about to
replace is what its editor read (`AllSeen`), a handle into a file was opened by its
holder (`HandleHeld`), and while no second writer of the path and no crash interferes
the temporary file is the save's own (`OwnTemp`), files are whole (`CfgWhole`) and what runs
is what the active file says (`RunsShown`).

*LogStore* (any rows, queue and batch size, any number of failures). `RowsAcceptedOnce`
(`AcceptedOnce`) from `RowInv`: queue, batch and table have no row twice and none in common,
and with the dropped ones they are what was accepted (`RowPlaces`); the writer ends
only after Close, and leaves nothing but rows that came late (`RowEnds`).

*Backups* (any databases, any window, limits and faults). `DumpsStayAndLoad` (`DumpsKept`)
from `BakInv`: a dump that is not recorded yet is younger than what rotation may remove
(`JobsYoung`), what was promised is in the catalog in memory and on disk and in no
rotation's list (`PromisedListed`), and the name a restore has checked holds what it
checked, or what was put there since, or nothing that can be unpacked (`SecondRead`). That `forget` keeps the entries without the ids, in
their order, is by induction over its loop.

*EventQueries* (any number of days, rows and files). `SummaryCountsWhatItBeganWith`
(`SummaryMissesNone`) from `EvqInv`: files have names of their own (`FilesNamed`), a day
without a directory is empty or pruned (`DaysKept`), an index counts what the compacted
files hold unless the compaction about to write it does (`DaysCounted`), a cache entry
holds the rows its signature names (`EvqCacheTrue`), and the reader, for each day
nothing disturbed, has counted what the day held when it began or will still find it
(`ReadingSound`).

*EventFilter* (any events, filters and steps of a funnel). `FiltersMeanOneThing` (`OneMeaning`).
The module's variables never change but once, so there is no invariant to find; what is
proved is about the algorithms. `TermMeansOne` and `FilterMeansOne`: the SQL with its
nulls selects what `Match` accepts. `IndexMeansOne`: index rows say the same of a filter
they can answer. `StepExact`, by induction over the chain of joins: a step of a funnel
counts exactly the actors that have a chain so far, with each link later than the one
before and inside the window.

Only model-checked:

* all liveness (`RollAnswered`, `CallsReturn`, `EventsSettle`, `StreamKept`, `RunsKept`,
  `ViewsSettle`, `PreviewsKept`), which TLAPS cannot prove under fairness, and with
  it the refinement of `LineLog`, which is part of `StreamKept`;
* what is computed by folds over operators or by recursive operators: `TimersKept`,
  `ConfigSound`, `FormWritesItsRecipe`;
* `TailSafe`, whose records are cut by the recursive grouper of `LogRows`;
* `GroupsExact`, whose sums over occurrences are folds.

## Where the code does not do what it says

Shown by a run:

* `bug_doubled` (`WorkersNotDoubled` with rolls): a worker that runs on in a crashed
  app is not known to the next start, which spawns it again. With `MaxRestarts` of 2
  the same cause loses a web copy: the roll that goes on in the crashed app swaps one
  in, the next start spawns another over it, and a stop leaves the first alive.
* `bug_roll_hangs` (`RollReturns`): a rescan that drops the start step while a roll
  runs it leaves the roll and the callers of Restart waiting for ever.
* `bug_orphans` (`NoOrphans`): a start that reaches the app goroutine between the
  stop and the cancel of Destroy leaves processes nobody owns.
* `bug_next_loops` (`NextReturns`): to skip an hour `Next` takes `time.Date` of the hour
  and adds one (`schedule/schedule.go:212`). In the second of two equal hours west of
  Greenwich that is where it started, and the loop never ends: in New York for every
  expression that names hours but not hour 1, once the search reaches the day the
  clock goes back.
* `bug_index` (`IndexOutlives`): an event that arrives for a day retention has
  removed is compacted before it is pruned again, and the compaction overwrites
  the indexes of the day with the late rows alone. `src/README.md:460` promises
  that "counts and facets outlive the events".

Stated in the modules, refuted by TLC when added to a run, and not run:

* `AlwaysKeepsServing` (`supervisor/roll.go:50`, "without dropping a request"). A web
  process scaled from two copies to one, with a worker: the roll swaps the copy that
  stays, waits for the worker, and the swapped copy dies meanwhile; the step that
  retires the surplus copy then takes the last one that was ready. Several web
  processes or a rescan in the middle of a roll lead to the same.
* `ReadyPassed`: `ReadyWasProbed` without its conditions, though `src/README.md:764` has
  the health path gate readiness. In an app with a start step: a process started by
  hand while the step runs becomes ready, the step exits, and `spawnAll`
  (`supervisor/runtime.go:324`) puts another copy in its place and leaves the mark, so the
  new copy gets requests before its first check. In an app with two web processes
  and `MaxRestarts` of 2, without a step: a roll goes on in the app that crashed under
  it and swaps a copy in, that copy dies, which leaves the app starting
  (`processExited`), and the other process, started by hand, finds the mark of its
  last run, which only `start` would have cleared.
* `HeldStaysDown` (`supervisor/supervisor.go:245`): a process stopped while the roll
  boots its replacement comes back with the swap.
* `StartingFlips` once rolls are allowed (`supervisor/roll.go:196`): a swap makes the
  last entry ready without flipping the app to running.
* `NothingOutlivesStop` for an app that crashed with a worker up
  (`supervisor/runtime.go:324` returns early; line 427 says nothing outlives a stop).
  No roll is needed where a web process has `restart: on-failure` or `never`: it exits
  cleanly, the app is crashed with the worker up (`supervisor/process.go:196`), the
  next start spawns a second worker over the first, and a stop leaves the first.
* `SlotsAssignedUpFront` (`supervisor/instances.go:14`): a copy that still drains
  holds its slot when the next boots, so one spare slot is not always enough.
* `DroppedEntryIgnored` (`supervisor/instances.go:85`): the restart timer of an entry
  the spec dropped finds it wanted, fails to spawn it and stops the app.
* `CopyRollKeepsServing` (`supervisor/roll.go:50`): a roll of a copy beyond the new
  count only retires it, ready copy or not.
* `Supervised` with lifecycle steps: `process start` while the create step runs
  flips the app to running, and the end of the step is ignored.
* `IdleCutsNothing` (`supervisor/supervisor.go:571`) and `StopCutsNothing`
  (`supervisor/drain.go:11`): a request that passes between the read of the counter
  and the stop, or that read its snapshot before the draining mark, is cut off.
* `EventsKept` with `Rewrites = {"truncate"}`: a file truncated in place and written
  again gives a new event the identity of an old one, and the next compaction
  drops it as a repetition (`ingest/ingest.go:578` gives new identities to a new
  inode only).
* `IndexExact` after a failure: a crash between the end of a merge and the index
  write leaves an index of an earlier merge, which the next run takes for the
  current one (`events/compact.go:48`).
* `CountsOutlive` of `EventQueries` (`events/compact.go`, Prune): a summary that lists
  a day between the removal of its files and of its directory takes it for empty.
* `TailRecordsWhole` with `raced` lines not excused: `tailFile` stats the file before
  it reads it, so a record that grows between the two is cut in spite of the
  comment at `ingest/ingest.go:290`. The same for standard output with
  `SlowPass = TRUE`, a pass slower than the quiet second (`ingest/ingest.go:133`).
* `NextIsFirst`, `NextClimbs` and `OnceADay` without their conditions on the zone. West of
  Greenwich a midnight the clock leaves out makes the turn that skips a day land where
  it started (`schedule/schedule.go:203`), and `NextDaily` fires twice on a day with a
  skipped hour, whose times `time.Date` moves back there. In the east `Next` passes
  matches over where the clock turns over midnight, and a daily timer loses or
  repeats a day where it goes forward to midnight.
* `RestoreAsRecorded` (`pg/restore.go:60`): the checksum and the unpacking open the file
  one after the other. A dump that took its name before an upload of the same second
  landed under it is written over the upload between the two, or another upload
  takes the name of one just deleted, and the target is dropped with other bytes in
  hand than the catalog recorded.
* `TailSafe` for files emptied in place (`ingest/ingest.go:232`, "A replaced or truncated
  file starts over"): a file that has grown past the old offset by the next pass is
  read from there, and the lines in front of it never are. `OffsetCovers` excuses
  them (`tailUnread`).
* `StoppedWhileReset` (`ops/preview.go:44`) and `RetryStartsClean` (`ops/add.go:31`): a
  visitor wakes the preview between its stop and the reset, and an add that is
  undone leaves its app listed when a rescan saw the folder.
* `ExplicitKept` with `"all"` in `RunKinds` (`ops/pg.go:47`): a run of all databases
  asked for by hand is not marked manual and is rotated away.
* `RingIsLast` (`src/README.md:722`): after `replay` is lowered under a longer ring, the
  ring keeps its oldest messages in front of the newest.
* `OthersSpared` (`ports/registry.go:22`): the stale ports are cleared after the lock
  was given back, and may by then be another session's.
* `DeployNeverIdle` (`supervisor/cron.go:56`): a second clean run of a hook ends the
  mark of the first one's restart.

Seen while modelling, part of the models where that is possible:

* Logs: the last record of a process that never comes back stays held; a line
  over 4 MB fails its segment on every pass (`ingest/ingest.go:341`); what is rotated
  to the archives before a pass is never ingested; a carry drops trailing blank
  lines; a seal that cannot reopen its file stops sealing; a file truncated by
  copytruncate and grown past the old offset may be read from the middle of a line; rows that
  arrive after the log store closed are accepted and lost.
* Supervision: when a job ends cleanly while the only other process waits in its
  restart backoff, no process is left in the map, the app reads as stopped and the
  timer finds nothing to do, so the web process stays down
  (`supervisor/process.go:198`).
* Jobs: the wait of a run lasts as long as a grandchild holds its pipe; the kill
  of a timeout may hit a reaped process group.
* Configuration files: there is no lock, so a save that lands between the compare
  and the rename of another is overwritten unseen; both use one temporary file;
  a crash between create and write leaves an empty override that hides the file.
* Backups: an id is unique in one database directory and second; a dump is written
  over an upload of the same second, whose entry then fails its checksum; the cap of the catalog forgets manual
  dumps and leaves their files.
* Events: a summary from the index counts the whole first and last day of a range
  that has a time; a view named `funnel_x` clashes with the funnel `x`.
* Secrets: memory is replaced before the file is saved, and a secret whose save
  failed was handed out.
* Sign-in: one table of challenges for all gates, so one busy host makes the
  others answer "authentication is busy".
* Checkouts: two adds with one host name overlap; a close may take the lock before
  the deploy that was pinged first; an app whose own file says it is not
  deletable cannot be torn down; a `dboss.local.yaml` hides the rendered file.
* Schema: a `canonical_host` may name a host another process owns; `*.x` and `.x`
  tie in the score of a host; negative limits are accepted.

## Not modelled

* SQL: schema, migrations and the queries of the log store; PostgreSQL inspection,
  roles and queries. Typed SELECTs, rendering of cells and pages.
* Parsing of texts: YAML, JSON lines, stack traces, cron expressions, filter
  tokens. The models start from what a parser returns.
* The wire: TLS, ACME, websocket and SSE framing, rewriting of answers, the
  control socket's encoding, multipart uploads.
* Programs dboss calls: git, pg_dump, psql, DuckDB, trust stores.
* Allocation of the base port of an app, process listings, cgroup files, disk
  measurements, the temporary file sweep, metrics: values read from the system.
* The daemon's wiring and the command line: fixed sequences without state of
  their own; the console's pages: decoding and rendering over `ops`.
* Type invariants: `AppRuntime`'s is checked and proved. Those of `Manager`, `Traffic`
  and `EventStore` are stated in the modules and not among the runs' properties.

## What would come next

Proofs about `Exceptions` (`GroupsExact`, with sums as recursive functions in place of
folds), the offset of `TailLog`, and `Supervised` for apps with rolls, with the crash in
the middle of one as its condition. An abstract app that `AppRuntime` and `Jobs` both
implement; the base-port allocator composed with `PortRegistry` and the slots of
`AppRuntime`; the event store as a set of events with a retention, which `EventQueries`
would read.
