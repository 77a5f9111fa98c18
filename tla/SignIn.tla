-------------------------------- MODULE SignIn --------------------------------
(* Sign-in through AuthCog (authcog/authcog.go): the apps with `auth` behind    *)
(* the proxy (proxy/signin.go), the apps that only borrow a login at a path     *)
(* (`authcog`, proxy/authcog.go) and the console (console/auth.go) share one    *)
(* table of pending challenges.  A browser leaves for AuthCog with a challenge  *)
(* in its state cookie and comes back with a callback; meanwhile a rescan may   *)
(* change who is allowed, or give the host to another app, and time passes.    *)
EXTENDS Naturals, FiniteSets

CONSTANTS
    Browsers, Hosts, Emails,
    Calls,          \* requests under way at once
    AuthApps,       \* apps with `auth`: dboss keeps the session
    LoginApps,      \* apps with `authcog`: the app gets the profile once
    ConsoleHost,    \* the host of the console
    MaxChallenges,  \* pending challenges at most (4096 in the code)
    StateTTL, SessionTTL,
    MaxStarts,      \* bound: sign-ins begun
    MaxRescans,     \* bound: changes of an allow list or of the owner of a host
    MaxClock,       \* bound: the clock
    MaxSignFaults,  \* bound: failed exchanges and restarts
    NoSession       \* no cookie

ASSUME SignInAssumption ==
    /\ AuthApps \intersect LoginApps = {} /\ ConsoleHost \in Hosts
    /\ MaxChallenges \in Nat \ {0} /\ StateTTL \in Nat /\ SessionTTL \in Nat
    /\ MaxStarts \in Nat

VARIABLES
    sigOwner,      \* host -> the gate that answers there
    sigAllow,      \* gate -> the emails its list admits
    sigPending,    \* the challenges waiting for their callback
    sigState,      \* browser -> host -> kind of gate -> the token in its state cookie, 0 for none
    sigSessions,   \* browser -> host -> the session in its cookie
    sigCallbacks,  \* links AuthCog has sent browsers back with
    sigTokens,     \* links of `dboss login`
    sigCalls,      \* the callbacks and requests under way
    sigClock, sigStarts, sigRescans, sigFaults,
    sigSigned,     \* history variable: whom AuthCog confirmed to which browser, for which host and gate
    sigSpent       \* history variable: how often each challenge was redeemed

sigVars == <<sigOwner, sigAllow, sigPending, sigState, sigSessions, sigCallbacks, sigTokens,
             sigCalls, sigClock, sigStarts, sigRescans, sigFaults, sigSigned, sigSpent>>

Console == "console"
CliEmail == "cli@localhost"
Gates == AuthApps \union LoginApps \union {Console}
Kind(g) == IF g \in AuthApps THEN "auth" ELSE IF g \in LoginApps THEN "login" ELSE Console
GateKinds == {"auth", "login", Console}
NoCall == [pc |-> "none"]

SignInit ==
    /\ sigOwner \in [Hosts -> Gates]
    /\ \A h \in Hosts : sigOwner[h] = Console <=> h = ConsoleHost
    /\ sigAllow = [g \in Gates |-> Emails]
    /\ sigPending = {} /\ sigCallbacks = {} /\ sigTokens = {}
    /\ sigState = [b \in Browsers |-> [h \in Hosts |-> [k \in GateKinds |-> 0]]]
    /\ sigSessions = [b \in Browsers |-> [h \in Hosts |-> NoSession]]
    /\ sigCalls = [q \in Calls |-> NoCall]
    /\ sigClock = 0 /\ sigStarts = 0 /\ sigRescans = 0 /\ sigFaults = 0
    /\ sigSigned = {} /\ sigSpent = [t \in 1 .. MaxStarts |-> 0]

-----------------------------------------------------------------------------
(* Flow *)

Unexpired == {c \in sigPending : c.expires > sigClock}

\* A session is good at its own gate until it expires (mutant: at any gate).
SessionGoodAnywhere(s, g) == s # NoSession /\ s.expires > sigClock
SessionGood(s, g) == s # NoSession /\ s.expires > sigClock /\ s.gate = g

\* signIn, validSession: the list is asked on every request; the login of `dboss login` is
\* the console's own.
Admitted(b, h) ==
    LET g == sigOwner[h]
        s == sigSessions[b][h]
    IN  /\ g \notin LoginApps
        /\ SessionGood(s, g)
        /\ s.email \in sigAllow[g] \/ (g = Console /\ s.email = CliEmail)

\* Start: expired challenges go, a full table answers busy, else the browser leaves with
\* a state cookie and AuthCog sends it back, as whoever signs in there.
SignStart(b, h) ==
    /\ ~Admitted(b, h) /\ sigStarts < MaxStarts
    /\ sigStarts' = sigStarts + 1
    /\ IF Cardinality(Unexpired) >= MaxChallenges
       THEN sigPending' = Unexpired /\ UNCHANGED <<sigState, sigCallbacks>>
       ELSE LET token == sigStarts + 1 IN
            /\ sigPending' = Unexpired \union
                   {[token |-> token, gate |-> sigOwner[h], host |-> h, expires |-> sigClock + StateTTL]}
            /\ sigState' = [sigState EXCEPT ![b][h][Kind(sigOwner[h])] = token]
            /\ \E e \in Emails : sigCallbacks' = sigCallbacks \union
                   {[token |-> token, host |-> h, gate |-> sigOwner[h], browser |-> b, email |-> e]}
    /\ UNCHANGED <<sigOwner, sigAllow, sigSessions, sigTokens, sigCalls, sigClock, sigRescans,
                   sigFaults, sigSigned, sigSpent>>

Matching(link, g) == {c \in sigPending :
    c.token = link.token /\ c.expires > sigClock /\ c.host = link.host /\ c.gate = g}

\* A verify that looks the challenge up and leaves it in the table (mutant).
SignVerifyKeeps(q, b, link) ==
    LET g == sigOwner[link.host] IN
    /\ sigCalls[q] = NoCall
    /\ sigState[b][link.host][Kind(g)] = link.token
    /\ IF Matching(link, g) # {}
       THEN /\ sigCalls' = [sigCalls EXCEPT ![q] = [pc |-> "exchange", browser |-> b,
                   host |-> link.host, gate |-> g, allow |-> sigAllow[g], link |-> link]]
            /\ UNCHANGED sigState
       ELSE /\ sigState' = [sigState EXCEPT ![b][link.host][Kind(g)] = 0]
            /\ UNCHANGED sigCalls
    /\ UNCHANGED <<sigOwner, sigAllow, sigPending, sigSessions, sigCallbacks, sigTokens, sigClock,
                   sigStarts, sigRescans, sigFaults, sigSigned, sigSpent>>

\* verify, up to the exchange: the state in the link is the one in the cookie of the gate
\* that owns the host now; the challenge is taken out, whatever becomes of it, and must be
\* unexpired and of this host and gate.  The cookie goes with the answer: until then a second
\* tab may come with the same link.  A browser may open any link, and any of them twice.
SignVerify(q, b, link) ==
    LET g == sigOwner[link.host] IN
    /\ sigCalls[q] = NoCall
    /\ sigState[b][link.host][Kind(g)] = link.token
    /\ sigPending' = {c \in sigPending : c.token # link.token}
    /\ IF Matching(link, g) # {}
       THEN /\ sigCalls' = [sigCalls EXCEPT ![q] = [pc |-> "exchange", browser |-> b,
                   host |-> link.host, gate |-> g, allow |-> sigAllow[g], link |-> link]]
            /\ UNCHANGED sigState
       ELSE /\ sigState' = [sigState EXCEPT ![b][link.host][Kind(g)] = 0]
            /\ UNCHANGED sigCalls
    /\ UNCHANGED <<sigOwner, sigAllow, sigSessions, sigCallbacks, sigTokens, sigClock,
                   sigStarts, sigRescans, sigFaults, sigSigned, sigSpent>>

\* Exchange answers with the profile or fails, and the list the request began with is asked.
\* An `auth` app or the console gets a session, an `authcog` app one request with the profile.
SignExchange(q) ==
    LET call == sigCalls[q]
        email == call.link.email
    IN
    /\ call.pc = "exchange"
    /\ sigState' = [sigState EXCEPT ![call.browser][call.host][Kind(call.gate)] = 0]
    /\ IF email \in call.allow \/ call.gate \in LoginApps
       THEN /\ sigSpent' = [sigSpent EXCEPT ![call.link.token] = @ + 1]
            /\ sigSigned' = sigSigned \union {<<call.link.browser, call.link.gate, call.link.host, email>>}
            /\ IF call.gate \in LoginApps
               THEN /\ sigCalls' = [sigCalls EXCEPT ![q] = [pc |-> "handed", browser |-> call.browser,
                           host |-> call.host, gate |-> call.gate, allow |-> call.allow, as |-> email]]
                    /\ UNCHANGED sigSessions
               ELSE /\ sigSessions' = [sigSessions EXCEPT ![call.browser][call.host] =
                           [gate |-> call.gate, email |-> email, expires |-> sigClock + SessionTTL]]
                    /\ sigCalls' = [sigCalls EXCEPT ![q] = NoCall]
       ELSE /\ sigCalls' = [sigCalls EXCEPT ![q] = NoCall]
            /\ UNCHANGED <<sigSpent, sigSigned, sigSessions>>
    /\ UNCHANGED <<sigOwner, sigAllow, sigPending, sigCallbacks, sigTokens, sigClock,
                   sigStarts, sigRescans, sigFaults>>

SignExchangeFails(q) ==
    /\ sigCalls[q].pc = "exchange" /\ sigFaults < MaxSignFaults
    /\ sigFaults' = sigFaults + 1
    /\ sigState' = [sigState EXCEPT ![sigCalls[q].browser][sigCalls[q].host][Kind(sigCalls[q].gate)] = 0]
    /\ sigCalls' = [sigCalls EXCEPT ![q] = NoCall]
    /\ UNCHANGED <<sigOwner, sigAllow, sigPending, sigSessions, sigCallbacks, sigTokens,
                   sigClock, sigStarts, sigRescans, sigSigned, sigSpent>>

-----------------------------------------------------------------------------
(* Requests with a session *)

SignRequest(q, b, h) ==
    /\ sigCalls[q] = NoCall
    /\ Admitted(b, h)
    /\ sigCalls' = [sigCalls EXCEPT ![q] = [pc |-> "handed", browser |-> b, host |-> h,
           gate |-> sigOwner[h], allow |-> sigAllow[sigOwner[h]], as |-> sigSessions[b][h].email]]
    /\ UNCHANGED <<sigOwner, sigAllow, sigPending, sigState, sigSessions, sigCallbacks, sigTokens,
                   sigClock, sigStarts, sigRescans, sigFaults, sigSigned, sigSpent>>

SignAnswered(q) ==
    /\ sigCalls[q].pc = "handed"
    /\ sigCalls' = [sigCalls EXCEPT ![q] = NoCall]
    /\ UNCHANGED <<sigOwner, sigAllow, sigPending, sigState, sigSessions, sigCallbacks, sigTokens,
                   sigClock, sigStarts, sigRescans, sigFaults, sigSigned, sigSpent>>

\* signInLogoutPath, logout.
SignOut(b, h) ==
    /\ sigSessions[b][h] # NoSession
    /\ sigOwner[h] \notin LoginApps
    /\ sigSessions' = [sigSessions EXCEPT ![b][h] = NoSession]
    /\ UNCHANGED <<sigOwner, sigAllow, sigPending, sigState, sigCallbacks, sigTokens, sigCalls,
                   sigClock, sigStarts, sigRescans, sigFaults, sigSigned, sigSpent>>

-----------------------------------------------------------------------------
(* dboss login: a link that opens the console once *)

CliIssue ==
    /\ sigStarts < MaxStarts
    /\ sigStarts' = sigStarts + 1
    /\ sigTokens' = {t \in sigTokens : t.expires > sigClock}
                    \union {[token |-> sigStarts + 1, expires |-> sigClock + StateTTL]}
    /\ UNCHANGED <<sigOwner, sigAllow, sigPending, sigState, sigSessions, sigCallbacks, sigCalls,
                   sigClock, sigRescans, sigFaults, sigSigned, sigSpent>>

CliLogin(b, t) ==
    /\ sigTokens' = sigTokens \ {t}
    /\ IF t.expires > sigClock
       THEN /\ sigSpent' = [sigSpent EXCEPT ![t.token] = @ + 1]
            /\ sigSigned' = sigSigned \union {<<b, Console, ConsoleHost, CliEmail>>}
            /\ sigSessions' = [sigSessions EXCEPT ![b][ConsoleHost] =
                   [gate |-> Console, email |-> CliEmail, expires |-> sigClock + SessionTTL]]
       ELSE UNCHANGED <<sigSpent, sigSigned, sigSessions>>
    /\ UNCHANGED <<sigOwner, sigAllow, sigPending, sigState, sigCallbacks, sigCalls,
                   sigClock, sigStarts, sigRescans, sigFaults>>

-----------------------------------------------------------------------------
(* The world *)

\* A rescan changes the list of an app, or gives a host to another app.  The console's
\* list is read once, at start.
SignRescan ==
    /\ sigRescans < MaxRescans
    /\ sigRescans' = sigRescans + 1
    /\ \/ \E g \in AuthApps, e \in Emails :
            /\ sigAllow' = [sigAllow EXCEPT ![g] = IF e \in @ THEN @ \ {e} ELSE @ \union {e}]
            /\ UNCHANGED sigOwner
       \/ \E h \in Hosts \ {ConsoleHost}, g \in Gates \ {Console} :
            /\ sigOwner' = [sigOwner EXCEPT ![h] = g]
            /\ UNCHANGED sigAllow
    /\ UNCHANGED <<sigPending, sigState, sigSessions, sigCallbacks, sigTokens, sigCalls, sigClock,
                   sigStarts, sigFaults, sigSigned, sigSpent>>

SignTick ==
    /\ sigClock < MaxClock
    /\ sigClock' = sigClock + 1
    /\ UNCHANGED <<sigOwner, sigAllow, sigPending, sigState, sigSessions, sigCallbacks, sigTokens,
                   sigCalls, sigStarts, sigRescans, sigFaults, sigSigned, sigSpent>>

\* The signing key is on disk, so sessions outlive a restart; what is pending does not.
SignRestart ==
    /\ sigFaults < MaxSignFaults
    /\ sigFaults' = sigFaults + 1
    /\ sigPending' = {} /\ sigTokens' = {}
    /\ sigCalls' = [q \in Calls |-> NoCall]
    /\ UNCHANGED <<sigOwner, sigAllow, sigState, sigSessions, sigCallbacks, sigClock, sigStarts,
                   sigRescans, sigSigned, sigSpent>>

SignNext ==
    \/ \E b \in Browsers :
        \/ \E h \in Hosts : SignStart(b, h) \/ SignOut(b, h)
        \/ \E t \in sigTokens : CliLogin(b, t)
    \/ \E q \in Calls :
        \/ \E b \in Browsers :
            \/ \E h \in Hosts : SignRequest(q, b, h)
            \/ \E link \in sigCallbacks : SignVerify(q, b, link)
        \/ SignExchange(q) \/ SignExchangeFails(q) \/ SignAnswered(q)
    \/ CliIssue \/ SignRescan \/ SignTick \/ SignRestart
SignSpec == SignInit /\ [][SignNext]_sigVars

-----------------------------------------------------------------------------
(* Nobody is let in as somebody else: an identity handed to an app or to the    *)
(* console is on the list the request began with, and AuthCog confirmed it to   *)
(* this very browser in a sign-in begun on this host for this gate - however    *)
(* tabs, copied links, rescans that move hosts and restarts interleave          *)
(* (verify, Session, signIn).                                                  *)
IdentityEarned ==
    \A q \in Calls : LET call == sigCalls[q] IN
        call.pc = "handed" =>
            /\ <<call.browser, call.gate, call.host, call.as>> \in sigSigned
            /\ call.gate \in LoginApps \/ call.as \in call.allow \/ call.as = CliEmail

(* A challenge, or a link of `dboss login`, opens one session at most, and the  *)
(* table of challenges is bounded (verify, cliLogin, Start).                   *)
SpentOnce ==
    /\ \A t \in 1 .. MaxStarts : sigSpent[t] <= 1
    /\ Cardinality(sigPending) <= MaxChallenges

(* A sign-in lets in the one who made it, once.                                 *)
SignInSound == IdentityEarned /\ SpentOnce
=============================================================================
