---------------------------- MODULE MCAppRuntime ----------------------------
(* Instances of AppRuntime for TLC.                                        *)
EXTENDS AppRuntime, TLC

WebOnly == {"web"}
WebAndJob == {"web", "job"}
TwoSites == {"web", "site"}

Policy(p) == [x \in Procs |-> p]
Tries(n) == [x \in Procs |-> n]
OneTry == Tries(1)
TwoTries == Tries(2)
Always == Policy("always")
OnFailure == Policy("on-failure")

(* An app with n web copies, one of every worker, and lifecycle steps L.   *)
App(n, L) == [cmds |-> Procs, web |-> {"web"},
              count |-> [x \in Procs |-> IF x = "web" THEN n ELSE 1],
              steps |-> L]

JustPlain == {App(1, {})}
WithSteps == {App(1, {"create", "start"})}
Scaled == {App(1, {}), App(2, {})}

\* Apps of one web process w in n copies.
Just(w, n) == [cmds |-> {w}, web |-> {w}, steps |-> {},
               count |-> [x \in Procs |-> IF x = w THEN n ELSE 1]]
UpAndDown == {Just("web", 1), Just("web", 2), Just("site", 2), Just("site", 1)}

\* An operator handles the processes of an app with a worker one at a time; a rescan drops a
\* worker of another.
WebSiteAnd == {"web", "site", "api", "job"}
ByHandOf(cmds, web) == [cmds |-> cmds, web |-> web, steps |-> {}, count |-> [x \in Procs |-> 1]]
Handled == ByHandOf({"api", "job"}, {"api"})
TwoWorkers == ByHandOf({"api", "job"}, {})
OneWorker == ByHandOf({"job"}, {})
ScaledOrByHand == UpAndDown \union {Handled, TwoWorkers, OneWorker}
JobOnFailure == [x \in Procs |-> IF x = "job" THEN "on-failure" ELSE "always"]
TwoForApi == [x \in Procs |-> IF x = "api" THEN 2 ELSE 1]

\* Next to the app with steps: one whose only process is started again and
\* again, and one whose worker is handled by hand and dropped by a rescan.
WebJobSolo == {"web", "job", "solo"}
Stepped == [App(1, {"create", "start"}) EXCEPT !.cmds = {"web", "job"}]
Plain(cmds, web) == [cmds |-> cmds, web |-> web, steps |-> {}, count |-> [x \in Procs |-> 1]]
Solo == Plain({"solo"}, {"solo"})
Worker == Plain({"job"}, {})
SteppedAndPlain == {Stepped, Solo, Worker, Plain({}, {})}
TwoForSolo == [x \in Procs |-> IF x = "solo" THEN 2 ELSE 1]

DropsStart == {App(1, {"start"}), App(1, {})}
DropsJob == {App(1, {}), [App(1, {}) EXCEPT !.cmds = {"web"}]}

(* What is asked of an app, and what happens to it.                        *)
Fixed == [s \in Specs |-> {}]
Changed == [s \in Specs |-> Specs \ {s}]
Rolled == [s \in Specs |-> {"roll"}]
RolledAndStopped == [s \in Specs |-> {"roll", "stop"}]
Dying == [s \in Specs |-> {"die"}]

(* "web" is scaled up, "site" down.                                        *)
Rescaled ==
    [s \in Specs |-> IF s = Just("web", 1) THEN {Just("web", 2)}
                     ELSE IF s = Just("site", 2) THEN {Just("site", 1)}
                     ELSE IF s = TwoWorkers THEN {OneWorker} ELSE {}]
RolledOrHandled ==
    [s \in Specs |-> CASE s \in UpAndDown -> {"roll", "stop"}
                      [] s = Handled -> {"stop", "restart", "pstart", "pstop", "prestart"}
                      [] OTHER -> {}]
DyingOrHandled ==
    [s \in Specs |-> CASE s \in UpAndDown -> {"die"} [] s = Handled -> {"die", "unhealthy"}
                      [] OTHER -> {}]

Dropped == [s \in Specs |-> IF s = Worker THEN {Plain({}, {})} ELSE {}]
RolledOrByHand ==
    [s \in Specs |-> CASE s = Stepped -> {"roll", "stop"} [] s = Solo -> {"pstart"}
                      [] s = Worker -> {"restart", "pstart", "pstop", "prestart"} [] OTHER -> {}]
DyingOrFailing ==
    [s \in Specs |-> CASE s = Stepped -> {"die"} [] s = Solo -> {"die", "unhealthy"} [] OTHER -> {}]

Whole == {All}
WholeOrWeb == {All, <<"web", 0>>}

EveryName == {All} \cup Names

Symmetry == Permutations(Pids) \cup Permutations(Callers)
=============================================================================
