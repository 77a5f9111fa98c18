----------------------------- MODULE PortRegistry -----------------------------
(* The ports of dev sessions (ports/registry.go, newAllocator of daemon.go):     *)
(* every folder runs at most one session; a session keeps a ledger file in a    *)
(* directory all sessions of the user share, and its folder remembers the ports *)
(* it held last.  Claims run under one file lock, so each is one step here; the *)
(* clearing of stale ports that follows a session's opening is not under it.    *)
EXTENDS Naturals, FiniteSets

CONSTANTS
    Folders,       \* app folders with a dev session
    Keys,          \* app/process names that want a port
    FirstPort, LastPort,
    MaxRegFaults,  \* bound: sessions killed and ledger writes that fail
    MaxRegOpens    \* bound: sessions opened

ASSUME PortRegistryAssumption == FirstPort \in Nat /\ LastPort \in Nat /\ FirstPort > 0

VARIABLES
    regSessions,  \* folder -> its session: pc, ports in memory, ports handed to callers
    regLedgers,   \* folder -> the session file: the ports in it and whether its owner lives
    regRecords,   \* folder -> ports.json: key -> the port it had last, 0 for none
    regListeners, \* port -> the folder whose process listens on it, or NoOne
    regFaults, regOpens,
    regCleared,   \* history variable: a clearing killed a listener of a live session of another
    regUnwritten  \* history variable: ports held in memory whose ledger write failed

regVars == <<regSessions, regLedgers, regRecords, regListeners, regFaults, regOpens,
             regCleared, regUnwritten>>

Ports == FirstPort..LastPort
NoOne == "no one"
NoPorts == [k \in Keys |-> 0]
NoDevSession == [pc |-> "none", claimed |-> NoPorts, handed |-> NoPorts, stale |-> {}]
NoLedger == [exists |-> FALSE, alive |-> FALSE, ports |-> {}]
PortsOf(table) == {table[k] : k \in Keys} \ {0}

RegInit ==
    /\ regSessions = [f \in Folders |-> NoDevSession]
    /\ regLedgers = [f \in Folders |-> NoLedger]
    /\ regRecords = [f \in Folders |-> NoPorts]
    /\ regListeners = [p \in Ports |-> NoOne]
    /\ regFaults = 0 /\ regOpens = 0
    /\ regCleared = FALSE
    /\ regUnwritten = {}

\* held: what the other live sessions hold.  The ledgers of the dead are removed on the way.
HeldByOthers(f) ==
    UNION {regLedgers[g].ports : g \in {h \in Folders \ {f} :
                                            regLedgers[h].exists /\ regLedgers[h].alive}}
Swept(f) == [g \in Folders |-> IF g # f /\ ~regLedgers[g].alive THEN NoLedger ELSE regLedgers[g]]

\* OpenRegistry, then Stale: the ports this folder held last and no live session holds.
OpenSession(f) ==
    /\ regSessions[f].pc = "none" /\ regOpens < MaxRegOpens
    /\ regOpens' = regOpens + 1
    /\ regSessions' = [regSessions EXCEPT ![f] =
           [pc |-> "clearing", claimed |-> NoPorts, handed |-> NoPorts,
            stale |-> PortsOf(regRecords[f]) \ HeldByOthers(f)]]
    /\ regLedgers' = Swept(f)
    /\ UNCHANGED <<regRecords, regListeners, regFaults, regCleared, regUnwritten>>

\* ClearPort kills whatever listens on a stale port, by then perhaps another session's.
ClearStale(f) ==
    /\ regSessions[f].pc = "clearing"
    /\ IF regSessions[f].stale = {}
       THEN /\ regSessions' = [regSessions EXCEPT ![f].pc = "open"]
            /\ UNCHANGED <<regListeners, regCleared>>
       ELSE \E p \in regSessions[f].stale :
            /\ regSessions' = [regSessions EXCEPT ![f].stale = @ \ {p}]
            /\ regListeners' = [regListeners EXCEPT ![p] = NoOne]
            /\ regCleared' = (regCleared \/ \E g \in Folders \ {f} :
                                  regListeners[p] = g /\ p \in PortsOf(regSessions[g].handed))
    /\ UNCHANGED <<regLedgers, regRecords, regFaults, regOpens, regUnwritten>>

\* A claim that looks only at what listens, not at the ledgers (mutant).
UsableListening(f, p) ==
    p \notin PortsOf(regSessions[f].claimed) /\ regListeners[p] = NoOne

Usable(f, p) ==
    /\ p \notin PortsOf(regSessions[f].claimed) \union HeldByOthers(f)
    /\ regListeners[p] = NoOne

\* The port the key had last when it is usable, else the lowest usable one.
Pick(f, k, p) ==
    LET usable == {q \in Ports : Usable(f, q)}
    IN  /\ p \in usable
        /\ p # regRecords[f][k] =>
               regRecords[f][k] \notin usable /\ \A q \in usable : p <= q

\* Claim: memory first, then the ledger, then the folder's record.
Claim(f, k) ==
    /\ regSessions[f].pc = "open" /\ regSessions[f].claimed[k] = 0
    /\ \E p \in Ports :
        /\ Pick(f, k, p)
        /\ regSessions' = [regSessions EXCEPT ![f].claimed[k] = p, ![f].handed[k] = p]
        /\ regLedgers' = [Swept(f) EXCEPT ![f] =
               [exists |-> TRUE, alive |-> TRUE,
                ports |-> PortsOf(regSessions[f].claimed) \union {p}]]
        /\ regRecords' = [regRecords EXCEPT ![f][k] = p]
    /\ UNCHANGED <<regListeners, regFaults, regOpens, regCleared, regUnwritten>>

\* The ledger, or the folder's record after it, cannot be written: the caller gets an
\* error, memory keeps the port.
ClaimFails(f, k) ==
    /\ regSessions[f].pc = "open" /\ regSessions[f].claimed[k] = 0
    /\ regFaults < MaxRegFaults /\ regFaults' = regFaults + 1
    /\ \E p \in Ports :
        /\ Pick(f, k, p)
        /\ regSessions' = [regSessions EXCEPT ![f].claimed[k] = p]
        /\ \/ /\ regLedgers' = Swept(f)
              /\ regUnwritten' = regUnwritten \union {<<f, p>>}
           \/ /\ regLedgers' = [Swept(f) EXCEPT ![f] =
                     [exists |-> TRUE, alive |-> TRUE,
                      ports |-> PortsOf(regSessions[f].claimed) \union {p}]]
              /\ UNCHANGED regUnwritten
    /\ UNCHANGED <<regRecords, regListeners, regOpens, regCleared>>

\* Asked again for a key it holds, the registry answers from memory and writes nothing.
ClaimAgain(f, k) ==
    /\ regSessions[f].pc = "open" /\ regSessions[f].claimed[k] # 0
    /\ regSessions' = [regSessions EXCEPT ![f].handed[k] = regSessions[f].claimed[k]]
    /\ UNCHANGED <<regLedgers, regRecords, regListeners, regFaults, regOpens, regCleared,
                   regUnwritten>>

\* A process of the session listens on a port it was handed (a dev session never clears
\* that port first).
ListenOn(f, k) ==
    /\ regSessions[f].pc = "open" /\ regSessions[f].handed[k] # 0
    /\ regListeners[regSessions[f].handed[k]] = NoOne
    /\ regListeners' = [regListeners EXCEPT ![regSessions[f].handed[k]] = f]
    /\ UNCHANGED <<regSessions, regLedgers, regRecords, regFaults, regOpens, regCleared,
                   regUnwritten>>

\* Close, after the apps were stopped: the session file goes.
CloseSession(f) ==
    /\ regSessions[f].pc = "open"
    /\ regSessions' = [regSessions EXCEPT ![f] = NoDevSession]
    /\ regLedgers' = [regLedgers EXCEPT ![f] = NoLedger]
    /\ regListeners' = [p \in Ports |-> IF regListeners[p] = f THEN NoOne ELSE regListeners[p]]
    /\ regUnwritten' = regUnwritten \ ({f} \X Ports)
    /\ UNCHANGED <<regRecords, regFaults, regOpens, regCleared>>

\* The session is killed: its file and its processes stay behind.
KillSession(f) ==
    /\ regSessions[f].pc # "none" /\ regFaults < MaxRegFaults
    /\ regFaults' = regFaults + 1
    /\ regSessions' = [regSessions EXCEPT ![f] = NoDevSession]
    /\ regLedgers' = [regLedgers EXCEPT ![f].alive = FALSE]
    /\ regUnwritten' = regUnwritten \ ({f} \X Ports)
    /\ UNCHANGED <<regRecords, regListeners, regOpens, regCleared>>

RegNext == \E f \in Folders :
    \/ OpenSession(f) \/ ClearStale(f) \/ CloseSession(f) \/ KillSession(f)
    \/ \E k \in Keys : Claim(f, k) \/ ClaimFails(f, k) \/ ClaimAgain(f, k) \/ ListenOn(f, k)
RegSpec == RegInit /\ [][RegNext]_regVars

-----------------------------------------------------------------------------
(* Sessions of several folders never hand out one port twice (Registry): over   *)
(* claims, closes, killed sessions and dead ledgers swept on the way, except    *)
(* for a port whose ledger write failed and which the registry then hands out   *)
(* from memory.                                                                *)
HandedOnce ==
    \A f, g \in Folders : f # g =>
        \A p \in PortsOf(regSessions[f].handed) \intersect PortsOf(regSessions[g].handed) :
            <<f, p>> \in regUnwritten \/ <<g, p>> \in regUnwritten

(* ... or kills another session's listeners (registry.go).  False: the stale    *)
(* ports are cleared after the lock that chose them was given back.            *)
OthersSpared == ~regCleared
=============================================================================
