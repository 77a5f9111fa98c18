------------------------------ MODULE EventViews ------------------------------
(* The saved views of one app (events/saved.go, service.go, module.go): the     *)
(* console saves and deletes under a lock, then rewrites views.sql from what it *)
(* reads after the lock is gone; a ticker rewrites it every minute.  Nothing    *)
(* orders the writers: a slow one may put an older catalog over a newer.       *)
EXTENDS Naturals, FiniteSets

CONSTANTS
    EvvNames,      \* names of views
    EvvSavers,     \* console requests at once
    EvvTicker,     \* the goroutine of RefreshViews
    EvvMaxChanges, \* bound: saves, deletes, changes of dboss.yaml, first events
    EvvNoFile      \* views.sql does not exist

ASSUME EventViewsAssumption == EvvTicker \notin EvvSavers /\ EvvMaxChanges \in Nat

VARIABLES
    evvYaml,       \* name -> version of the view dboss.yaml declares, 0 for none
    evvSaved,      \* name -> version the console saved, 0 for none
    evvEvents,     \* the app has events on disk
    evvFile,       \* views.sql
    evvJob,        \* writer -> where it is and what it read
    evvChanges

evvVars == <<evvYaml, evvSaved, evvEvents, evvFile, evvJob, evvChanges>>

EvvWriters == EvvSavers \union {EvvTicker}
EvvIdle == [at |-> "idle"]

\* Merge: a name dboss.yaml declares hides the one the console saved.
Merged(yaml, saved) == [n \in EvvNames |->
    IF yaml[n] # 0 THEN <<"yaml", yaml[n]>> ELSE <<"console", saved[n]>>]
\* WriteViews, SavedViews: the base views, real once there are events, and the catalog.
Contents(catalog) == [base |-> evvEvents, views |-> catalog]

EvvInit ==
    /\ evvYaml = [n \in EvvNames |-> 0] /\ evvSaved = [n \in EvvNames |-> 0]
    /\ evvEvents = FALSE /\ evvFile = EvvNoFile
    /\ evvJob = [w \in EvvWriters |-> EvvIdle]
    /\ evvChanges = 0

EvvChange == evvChanges < EvvMaxChanges /\ evvChanges' = evvChanges + 1

\* SavedStore.SaveView: load, replace, write under one lock; a new save is a new version.
EvvSave(w, n) ==
    /\ evvJob[w] = EvvIdle /\ EvvChange
    /\ evvSaved' = [evvSaved EXCEPT ![n] = evvChanges + 1]
    /\ evvJob' = [evvJob EXCEPT ![w] = [at |-> "load"]]
    /\ UNCHANGED <<evvYaml, evvEvents, evvFile>>

EvvDelete(w, n) ==
    /\ evvJob[w] = EvvIdle /\ evvSaved[n] # 0 /\ EvvChange
    /\ evvSaved' = [evvSaved EXCEPT ![n] = 0]
    /\ evvJob' = [evvJob EXCEPT ![w] = [at |-> "load"]]
    /\ UNCHANGED <<evvYaml, evvEvents, evvFile>>

\* The ticker comes round (mutant: until there is a file).
EvvTickOnce ==
    /\ evvJob[EvvTicker] = EvvIdle /\ evvFile = EvvNoFile
    /\ evvJob' = [evvJob EXCEPT ![EvvTicker] = [at |-> "load"]]
    /\ UNCHANGED <<evvYaml, evvSaved, evvEvents, evvFile, evvChanges>>
EvvTick ==
    /\ evvJob[EvvTicker] = EvvIdle
    /\ evvJob' = [evvJob EXCEPT ![EvvTicker] = [at |-> "load"]]
    /\ UNCHANGED <<evvYaml, evvSaved, evvEvents, evvFile, evvChanges>>

\* Catalog: the views as they are now.
EvvLoad(w) ==
    /\ evvJob[w].at = "load"
    /\ evvJob' = [evvJob EXCEPT ![w] = [at |-> "base", catalog |-> Merged(evvYaml, evvSaved)]]
    /\ UNCHANGED <<evvYaml, evvSaved, evvEvents, evvFile, evvChanges>>

\* WriteViews: nothing without an events directory, else the whole text.
EvvBase(w) ==
    /\ evvJob[w].at = "base"
    /\ evvJob' = [evvJob EXCEPT ![w] =
           IF evvEvents THEN [at |-> "write", text |-> Contents(evvJob[w].catalog)] ELSE EvvIdle]
    /\ UNCHANGED <<evvYaml, evvSaved, evvEvents, evvFile, evvChanges>>

EvvWrite(w) ==
    /\ evvJob[w].at = "write"
    /\ evvFile' = evvJob[w].text
    /\ evvJob' = [evvJob EXCEPT ![w] = EvvIdle]
    /\ UNCHANGED <<evvYaml, evvSaved, evvEvents, evvChanges>>

\* Two writers share the name of the temporary file: one of them may find it gone.
EvvWriteFails(w) ==
    /\ evvJob[w].at = "write" /\ \E v \in EvvWriters \ {w} : evvJob[v].at = "write"
    /\ evvJob' = [evvJob EXCEPT ![w] = EvvIdle]
    /\ UNCHANGED <<evvYaml, evvSaved, evvEvents, evvFile, evvChanges>>

\* A rescan, or the first batch of events.
EvvDeclare(n) ==
    /\ EvvChange
    /\ evvYaml' = [evvYaml EXCEPT ![n] = IF @ = 0 THEN evvChanges + 1 ELSE 0]
    /\ UNCHANGED <<evvSaved, evvEvents, evvFile, evvJob>>

EvvFirstEvents ==
    /\ ~evvEvents /\ EvvChange
    /\ evvEvents' = TRUE
    /\ UNCHANGED <<evvYaml, evvSaved, evvFile, evvJob>>

EvvWriter(w) == EvvLoad(w) \/ EvvBase(w) \/ EvvWrite(w) \/ EvvWriteFails(w)
EvvTicks == EvvTick \/ EvvWriter(EvvTicker)

EvvNext ==
    \/ \E w \in EvvSavers : EvvWriter(w) \/ (\E n \in EvvNames : EvvSave(w, n) \/ EvvDelete(w, n))
    \/ EvvTicks \/ EvvFirstEvents \/ \E n \in EvvNames : EvvDeclare(n)
EvvSpec == EvvInit /\ [][EvvNext]_evvVars
\* The goroutines of the requests and of the ticker run.
EvvFairness == WF_evvVars(EvvTicks) /\ \A w \in EvvSavers : WF_evvVars(EvvWriter(w))

-----------------------------------------------------------------------------
(* "Regenerated when events, views or funnels change": whatever order the       *)
(* writers finish in, once the views stop changing views.sql comes to hold      *)
(* exactly the catalog, and stays so (RefreshViews, Service.refresh).          *)
ViewsSettle == <>[](evvEvents => evvFile = Contents(Merged(evvYaml, evvSaved)))
=============================================================================
