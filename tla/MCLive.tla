------------------------------- MODULE MCLive -------------------------------
(* The parts whose promise is that something happens, and the message      *)
(* hubs, side by side: the behaviours of a part move that part alone,      *)
(* under its fairness.                                                     *)
EXTENDS EventStore, StdoutLog, Jobs, EventViews, Checkouts, Pubsub, TLC

-----------------------------------------------------------------------------
(* Checkouts *)

CoRoute(by, b, h) == [by |-> by, branch |-> b, host |-> h, ok |-> TRUE]
MCRepo == [b \in {"x", "y"} |-> IF b = "x" THEN CoRoute("repo", "x", "h") ELSE NoFile]
MCHook == [n \in {1, 2} |-> [b \in {"x", "y"} |-> CoRoute("hook", b, IF n = 1 THEN "h1" ELSE "h2")]]
CoAsk(o, n, b) == [op |-> o, name |-> n, branch |-> b, host |-> IF o = "add" /\ n = 1 THEN "h3" ELSE ""]
MCAsks == {CoAsk("deploy", 1, "x"), CoAsk("deploy", 1, "y"), CoAsk("close", 1, "x"),
           CoAsk("add", 2, "x"), CoAsk("add", 1, "x"), CoAsk("rescan", 1, "x")}

-----------------------------------------------------------------------------
(* Pubsub *)

MCReplays == <<1, 2>>

-----------------------------------------------------------------------------
(* The run *)

VARIABLE moving   \* the part that moves

Parts == {"events", "stdout", "jobs", "views", "previews", "pubsub"}

LiveInit ==
    /\ moving \in Parts
    /\ EvInit /\ OutInit /\ JobInit /\ EvvInit /\ CoInit /\ PubInit

LiveNext ==
    /\ UNCHANGED moving
    /\ IF moving = "events" THEN EvNext  ELSE UNCHANGED evVars
    /\ IF moving = "stdout" THEN OutNext ELSE UNCHANGED outVars
    /\ IF moving = "jobs"   THEN JobNext ELSE UNCHANGED jobVars
    /\ IF moving = "views"  THEN EvvNext ELSE UNCHANGED evvVars
    /\ IF moving = "previews" THEN CoNext ELSE UNCHANGED coVars
    /\ IF moving = "pubsub" THEN PubNext ELSE UNCHANGED pubVars

LiveVars == <<moving, evVars, outVars, jobVars, evvVars, coVars, pubVars>>

LiveSpec == LiveInit /\ [][LiveNext]_LiveVars

(* The goroutines of the part that moves keep running.  A quiet second     *)
(* comes again and again to a file that is written in bursts.              *)
LiveFairSpec ==
    /\ LiveSpec
    /\ WF_evVars(moving = "events" /\ Ingest)
    /\ WF_evVars(moving = "events" /\ MaintainDays)
    /\ WF_outVars(moving = "stdout" /\ OutPass)
    /\ WF_outVars(moving = "stdout" /\ OutSpawn)
    /\ SF_outVars(moving = "stdout" /\ OutQuiet)
    /\ WF_jobVars(moving = "jobs" /\ JobStep)
    /\ WF_evvVars(moving = "views" /\ EvvTicks)
    /\ \A w \in EvvSavers : WF_evvVars(moving = "views" /\ EvvWriter(w))
=============================================================================
