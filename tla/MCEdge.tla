------------------------------- MODULE MCEdge -------------------------------
(* Requests on their way through the stages and on the copies of a web     *)
(* process, the notices raised when they fail or are slow, and what is     *)
(* kept of both: the rows and exceptions of the log database.  The parts   *)
(* share no state; the behaviours of one move it alone.                    *)
EXTENDS Traffic, Gateway, Notices, LogStore, Exceptions, TLC

-----------------------------------------------------------------------------
(* Traffic: requests, ports and upstream objects are interchangeable. *)

Symmetric == Permutations(Reqs) \cup Permutations(Ports) \cup Permutations(Upstreams)

-----------------------------------------------------------------------------
(* Gateway *)

GwPlain == [host |-> "app", from |-> "edge", claims |-> "listed", path |-> "home",
            method |-> "GET", creds |-> {}, html |-> TRUE, body |-> "none"]
GwVaried ==
    {GwPlain, [GwPlain EXCEPT !.html = FALSE]}
    \cup {[GwPlain EXCEPT !.host = h] : h \in {"console", "none", "www"}}
    \cup {[GwPlain EXCEPT !.from = f, !.claims = c] :
              f \in {"edge", "listed", "other"}, c \in {"none", "listed", "other"}}
    \cup {[GwPlain EXCEPT !.body = b] : b \in {"small", "spills", "over"}}
GwHeld == {{}, {"basic"}, {"session"}, {"removed"}, {"proved"}, {"token"}, {"forged"}, {"basic", "session"}}

(* Every path with every shape of request and all credentials, posted where *)
(* the method matters, and the plain request with every set of credentials. *)
GwPosted == {GwPlain, [GwPlain EXCEPT !.host = "www"], [GwPlain EXCEPT !.html = FALSE]}
            \cup {[GwPlain EXCEPT !.body = b] : b \in {"small", "spills", "over"}}
GwAllCreds == {"basic", "session", "proved", "token"}
MCRequests ==
    {[v EXCEPT !.path = p, !.creds = GwAllCreds] : v \in GwVaried, p \in GwPaths}
    \cup {[v EXCEPT !.path = p, !.creds = GwAllCreds, !.method = "POST"] : v \in GwPosted, p \in GwPaths}
    \cup {[GwPlain EXCEPT !.path = p, !.creds = c] : p \in GwPaths, c \in GwHeld}

(* Every setting alone in every state of the app, every two while it runs. *)
AtMost(n) == {s \in SUBSET GwSettings : Cardinality(s) <= n}
MCApps == [set : AtMost(1), life : GwLives] \cup [set : AtMost(2), life : {"running"}]

-----------------------------------------------------------------------------
(* Notices *)

NtWindow(c, e, p) == [count |-> c, errors |-> e, p95 |-> p]
MCWindows == {NtWindow(1, 1, 9), NtWindow(20, 2, 9)}
MCDisks == {{[device |-> 1, used |-> 50]}, {[device |-> 1, used |-> 50], [device |-> 2, used |-> 90]}}

-----------------------------------------------------------------------------
(* The run *)

VARIABLE moving   \* the part that moves

Parts == {"traffic", "gateway", "notices", "rows", "exceptions"}

EdgeInit ==
    /\ moving \in Parts
    /\ Init /\ GwInit /\ NtInit /\ RowInit /\ ExcInit

EdgeNext ==
    /\ UNCHANGED moving
    /\ IF moving = "traffic"    THEN Next    ELSE UNCHANGED vars
    /\ IF moving = "gateway"    THEN GwNext  ELSE UNCHANGED gwVars
    /\ IF moving = "notices"    THEN NtNext  ELSE UNCHANGED ntVars
    /\ IF moving = "rows"       THEN RowNext ELSE UNCHANGED rowVars
    /\ IF moving = "exceptions" THEN ExcNext ELSE UNCHANGED excVars

EdgeVars == <<moving, vars, gwVars, ntVars, rowVars, excVars>>

EdgeSpec == EdgeInit /\ [][EdgeNext]_EdgeVars
=============================================================================
