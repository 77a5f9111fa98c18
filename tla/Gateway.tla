------------------------------- MODULE Gateway -------------------------------
(* The way of a request through dboss: the Cloudflare and console switches in   *)
(* front (proxy/edge.go), the stages in their fixed order (proxy/filter.go,     *)
(* signin.go, authcog.go), the buffered body, the pubsub stage (pubsub/http.go) *)
(* and the forward stage (proxy/proxy.go).  A request works on the snapshot it  *)
(* read when it came and shares with others only the sign-in table (SignIn),    *)
(* the routes (Traffic) and the hubs (Pubsub): one request stands for all.      *)
EXTENDS Naturals, FiniteSets, Sequences

CONSTANTS
    GwRequests,    \* requests: host, from, claims, path, method, creds, html, body (see GwRequestType)
    GwApps,        \* snapshots an app may be in: settings, life
    Cloudflare     \* proxy.cloudflare

VARIABLES
    gwPc,          \* where the request is
    gwReq, gwApp,  \* the request and its snapshot
    gwIdentity,    \* X-Dboss-User as the app would see it
    gwSpill,       \* its body is in a temp file
    gwAnswer,      \* what the visitor got; what answered
    gwWoken,       \* the app was woken for it
    gwRows         \* rows of the request log written for it

gwVars == <<gwPc, gwReq, gwApp, gwIdentity, gwSpill, gwAnswer, gwWoken, gwRows>>

GwSettings == {"canonical", "allow", "deny", "health", "authcog", "auth", "basic", "maintenance",
               "static", "maxbody", "pubsub", "button"}
GwLives == {"running", "draining", "starting", "stopped", "unbooted", "crashed"}
GwPaths == {"home", "probe", "wp", "health", "login", "back", "below", "callback", "logout", "asset",
            "channel", "client", "logo"}

\* creds: "basic" the password, "session" of an admitted email, "removed" of one no longer on the
\* list, "proved" a challenge that holds, "token" the publish secret, "forged" an X-Dboss-User of
\* its own.  from: the address that connects; claims: CF-Connecting-IP, which only the box itself
\* and Cloudflare ("edge") may set.
GwRequestType ==
    [host : {"console", "none", "www", "app"}, from : {"edge", "listed", "other"},
     claims : {"none", "listed", "other"}, path : GwPaths, method : {"GET", "POST"},
     creds : SUBSET {"basic", "session", "removed", "proved", "token", "forged"},
     html : BOOLEAN, body : {"none", "small", "spills", "over"}]

ASSUME GatewayAssumption ==
    /\ GwRequests \subseteq GwRequestType
    /\ GwApps \subseteq [set : SUBSET GwSettings, life : GwLives]
    /\ Cloudflare \in BOOLEAN

-----------------------------------------------------------------------------
(* The stages *)

On(a, setting) == setting \in a.set
Has(r, cred) == cred \in r.creds
Got(r) == r.method = "GET"
ClientIP(r) == IF Cloudflare /\ r.claims # "none" THEN r.claims ELSE r.from

\* route, AuthorizesPublish: the secret vouches for a publish and for nothing else.
Publishes(r, a) == On(a, "pubsub") /\ r.path = "channel" /\ ~Got(r) /\ Has(r, "token")
Exempt(r, a) == \/ On(a, "authcog") /\ r.path \in {"login", "back", "below"}
                \/ Publishes(r, a)

Canonical(r, a) == IF On(a, "canonical") /\ r.host = "www" THEN "redirect" ELSE "next"
Allow(r, a) == IF On(a, "allow") /\ ClientIP(r) # "listed" THEN "forbidden" ELSE "next"
Block(r, a) == IF On(a, "deny") /\ r.path = "wp" THEN "blocked" ELSE "next"

ServingNow(a) == /\ a.life # "draining" /\ ~On(a, "maintenance")
                 /\ a.life = "running" \/ (a.life \in {"stopped", "unbooted"} /\ ~On(a, "button"))
PublicHealth(r, a) ==
    IF ~On(a, "health") \/ r.path # "health" \/ ~Got(r) THEN "next"
    ELSE IF ServingNow(a) THEN "up" ELSE "down"

\* "login" is the path itself, "back" the same path with a callback, "below" a path under it.
AuthCog(r, a) ==
    IF ~On(a, "authcog") \/ r.path \notin {"login", "back"} THEN "next"
    ELSE IF ~Got(r) THEN "not allowed"
    ELSE IF r.path = "login" THEN "sign in"
    ELSE IF Has(r, "proved") THEN "next" ELSE "not proved"

SignInGate(r, a) ==
    IF ~On(a, "auth") \/ Exempt(r, a) THEN "next"
    ELSE IF r.path = "callback"
         THEN IF ~Got(r) THEN "not allowed" ELSE IF Has(r, "proved") THEN "signed in" ELSE "not proved"
    ELSE IF r.path = "logout" THEN "signed out"
    ELSE IF Has(r, "session") THEN "next"
    ELSE IF r.html /\ Got(r) THEN "sign in" ELSE "unauthorized"

Authorize(r, a) == IF On(a, "basic") /\ ~Has(r, "basic") /\ ~Exempt(r, a) THEN "unauthorized" ELSE "next"
Maintain(r, a) == IF On(a, "maintenance") THEN "maintenance" ELSE "next"
StaticFiles(r, a) == IF On(a, "static") /\ r.path = "asset" /\ Got(r) THEN "file" ELSE "next"

\* The files of the app served before its password is asked for (mutant).
StagesStaticFirst(r, a) ==
    <<Canonical(r, a), Allow(r, a), Block(r, a), PublicHealth(r, a), AuthCog(r, a), SignInGate(r, a),
      StaticFiles(r, a), Authorize(r, a), Maintain(r, a)>>
Stages(r, a) ==
    <<Canonical(r, a), Allow(r, a), Block(r, a), PublicHealth(r, a), AuthCog(r, a), SignInGate(r, a),
      Authorize(r, a), Maintain(r, a), StaticFiles(r, a)>>

\* The first stage that does not say next.
FrontStage(r, a) ==
    LET said == {i \in 1 .. 9 : Stages(r, a)[i] # "next"}
    IN  IF said = {} THEN "next" ELSE Stages(r, a)[CHOOSE i \in said : \A j \in said : i <= j]

\* A client's own header left in place (mutant).
IdentityKept(r, a) ==
    IF On(a, "authcog") /\ r.path = "back" THEN "profile"
    ELSE IF On(a, "auth") /\ ~Exempt(r, a) /\ Has(r, "session") THEN "email"
    ELSE IF Has(r, "forged") THEN "forged" ELSE "none"

\* serve deletes the header a client sent; authCog and signIn set it.
Identity(r, a) ==
    IF On(a, "authcog") /\ r.path = "back" THEN "profile"
    ELSE IF On(a, "auth") /\ ~Exempt(r, a) /\ Has(r, "session") THEN "email"
    ELSE "none"

-----------------------------------------------------------------------------
(* One request *)

NoRequest == [path |-> "none"]

GwInit ==
    /\ gwPc = "idle"
    /\ gwReq = NoRequest /\ gwApp = NoRequest
    /\ gwIdentity = "none" /\ gwSpill = FALSE /\ gwAnswer = "none"
    /\ gwWoken = FALSE /\ gwRows = 0

\* ServeHTTP records a request once it is answered, unless a stream suppressed it.
Reply(answer, rows) ==
    /\ gwPc' = "answered" /\ gwAnswer' = answer /\ gwRows' = rows /\ gwSpill' = FALSE

\* CloudflareOnly, HostSwitch, the logo and ResolveHost, then the stages up to the static files.
GwArrive ==
    /\ gwPc = "idle"
    /\ \E r \in GwRequests, a \in GwApps :
        LET answer ==
                IF Cloudflare /\ r.from # "edge" THEN "refused"
                ELSE IF r.host = "console" THEN "console"
                ELSE IF r.path = "logo" /\ Got(r) THEN "logo"
                ELSE IF r.host = "none" THEN "not found"
                ELSE FrontStage(r, a)
        IN  /\ gwReq' = r /\ gwApp' = a
            /\ IF answer # "next"
               THEN /\ Reply(answer, IF answer \in {"refused", "console", "logo", "not found"} THEN 0 ELSE 1)
                    /\ gwIdentity' = "none"
               ELSE /\ gwPc' = "body" /\ gwIdentity' = Identity(r, a)
                    /\ UNCHANGED <<gwAnswer, gwRows, gwSpill>>
    /\ UNCHANGED gwWoken

\* bufferRequest: the body is read to its end before anything behind it sees the request; one
\* over the limit is turned away, at its declared length or at the byte that crosses.
GwBuffer ==
    /\ gwPc = "body"
    /\ IF gwReq.body = "over" /\ On(gwApp, "maxbody") THEN Reply("too large", 1)
       ELSE /\ gwPc' = "hooks"
            /\ gwSpill' = (gwReq.body \in {"spills", "over"})
            /\ UNCHANGED <<gwAnswer, gwRows>>
    /\ UNCHANGED <<gwReq, gwApp, gwIdentity, gwWoken>>

\* The client goes away, or the temp file cannot be written.
GwBufferFails(answer) ==
    /\ gwPc = "body" /\ gwReq.body # "none"
    /\ Reply(answer, 1)
    /\ UNCHANGED <<gwReq, gwApp, gwIdentity, gwWoken>>

\* Filter: the stage a module put before forward.
GwPubsub ==
    /\ gwPc = "hooks"
    /\ IF On(gwApp, "pubsub") /\ gwReq.path = "client"
       THEN Reply(IF Got(gwReq) THEN "script" ELSE "not allowed", 1)
       ELSE IF On(gwApp, "pubsub") /\ gwReq.path = "channel" /\ ~Got(gwReq)
       THEN Reply(IF Has(gwReq, "token") THEN "published" ELSE "unauthorized", 1)
       ELSE IF On(gwApp, "pubsub") /\ gwReq.path = "channel"
       THEN Reply("stream", 0) \/ Reply("upgrade required", 1)
       ELSE gwPc' = "forward" /\ UNCHANGED <<gwAnswer, gwRows, gwSpill>>
    /\ UNCHANGED <<gwReq, gwApp, gwIdentity, gwWoken>>

\* A start button pressed by whatever request comes (mutant).
PressedAnyway(r, a) == TRUE
\* Only the POST of the start page wakes a button app.
Pressed(r, a) == ~On(a, "button") \/ ~Got(r)

\* forward for an app that does not run: what the snapshot says, and a wake in a goroutine.
GwNotRunning ==
    LET life == gwApp.life IN
    /\ gwPc = "forward" /\ life # "running"
    /\ IF life = "stopped" /\ Pressed(gwReq, gwApp)
       THEN gwWoken' = TRUE /\ Reply("starting", 1)
       ELSE /\ UNCHANGED gwWoken
            /\ Reply(CASE life = "unbooted" -> "waiting"
                       [] life = "stopped"  -> "stopped"
                       [] life = "crashed"  -> "crashed"
                       [] OTHER             -> "starting", 1)
    /\ UNCHANGED <<gwReq, gwApp, gwIdentity>>

\* forward to a copy the route table picks: the app answers, its own error may be replaced by a
\* page, or there is no copy or it cannot be dialled.
GwForward(answer) ==
    /\ gwPc = "forward" /\ gwApp.life = "running"
    /\ Reply(answer, 1)
    /\ UNCHANGED <<gwReq, gwApp, gwIdentity, gwWoken>>

GwDone ==
    /\ gwPc = "answered"
    /\ gwPc' = "idle" /\ gwAnswer' = "none" /\ gwRows' = 0 /\ gwWoken' = FALSE /\ gwIdentity' = "none"
    /\ gwReq' = NoRequest /\ gwApp' = NoRequest
    /\ UNCHANGED gwSpill

GwNext ==
    \/ GwArrive \/ GwBuffer \/ GwPubsub \/ GwNotRunning \/ GwDone
    \/ \E answer \in {"unreadable", "no buffer"} : GwBufferFails(answer)
    \/ \E answer \in {"app", "error page", "bad gateway"} : GwForward(answer)
GwSpec == GwInit /\ [][GwNext]_gwVars

-----------------------------------------------------------------------------
(* What the walls around an app promise, whatever stage is reached first.  A    *)
(* request gets at the app - its process, its files, its channels, its start -  *)
(* only from an allowed address, on the canonical host, off the deny list, out  *)
(* of maintenance, and past both the password and the sign-in, or by the one    *)
(* door that vouches for itself: a publish with its secret, which opens nothing *)
(* but the channel, or the app's own login path.  The app is told who signed in *)
(* only by dboss, never sees a body over the limit, and is woken only so        *)
(* (initFilters, exempt, serve, bufferRequest, forward).                        *)
Walled ==
    LET r == gwReq  a == gwApp
        inside == gwPc \in {"body", "hooks", "forward"} \/ gwWoken
                  \/ gwAnswer \in {"file", "app", "published", "stream", "script"}
    IN  /\ inside =>
            /\ r.host = "app" \/ (r.host = "www" /\ ~On(a, "canonical"))
            /\ Cloudflare => r.from = "edge"
            /\ On(a, "allow") => "listed" \in {r.claims, r.from} /\ (Cloudflare \/ r.from = "listed")
            /\ ~(On(a, "deny") /\ r.path = "wp") /\ ~On(a, "maintenance")
            /\ \/ /\ On(a, "basic") => Has(r, "basic")
                  /\ On(a, "auth") => Has(r, "session")
               \/ On(a, "authcog") /\ (r.path = "below" \/ (r.path = "back" /\ Has(r, "proved")))
               \/ On(a, "pubsub") /\ Has(r, "token") /\ r.path = "channel" /\ gwAnswer \notin {"app", "file", "stream"}
        /\ gwPc = "forward" /\ gwIdentity # "none" =>
               IF gwIdentity = "profile" THEN Has(r, "proved") ELSE gwIdentity = "email" /\ Has(r, "session")
        /\ gwAnswer \in {"app", "published"} => ~(On(a, "maxbody") /\ r.body = "over")
        /\ gwWoken /\ On(a, "button") => r.method = "POST"
        /\ gwSpill => gwPc \in {"hooks", "forward"}
=============================================================================
