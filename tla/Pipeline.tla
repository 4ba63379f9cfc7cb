------------------------------- MODULE Pipeline -------------------------------
(***************************************************************************)
(* The way of a request through the app that createApp builds              *)
(* (src/server.ts): muxCompat, CORS, the routes behind their declarations  *)
(* (src/auth.ts), the documentation (src/swagger.ts), the terminal answers *)
(* (src/http/muxCompat.ts) and the error handler.  Before it, the start:   *)
(* declaring refuses a table that leaves a route open.                     *)
(*                                                                         *)
(* External: Express runs the middleware in the order it was mounted, a    *)
(* GET route also takes HEAD; clerk-client's declarations take a header    *)
(* that is not "bearer <one token>" for no credential, and ask auth-service *)
(* about any other.                                                        *)
(*                                                                         *)
(* A path is the sequence of its decoded segments; a trailing slash is an  *)
(* empty last one.  BadBytes stands for a segment that is not UTF-8, BadEscape *)
(* for one with a "%" that escapes nothing.                                *)
(***************************************************************************)
EXTENDS Integers, Sequences, SequencesExt

CONSTANTS
    Deviations,   \* what a build's policy table may say of a route that auth.ts does not
    RequestPaths  \* the paths that are asked for

Var == "VAR"             \* a path parameter in a pattern
BadBytes == "FF"
BadEscape == "%"
Undeclared == "undeclared"
SCOPE_FLEET_CONTROL == "fleet:control"
Tiers == {"ignore", "none", "session", SCOPE_FLEET_CONTROL}

Methods == {"GET", "HEAD", "POST", "OPTIONS", "DELETE"}
SAFE == {"GET", "HEAD", "OPTIONS"}
Credentials == {"absent", "malformed", "token"}

(***************************************************************************)
(* The routes of the controllers: what each needs beyond its own process,  *)
(* and which segment, counted from the end, its handler takes as variable. *)
(***************************************************************************)
Takes(method, path, uses, fromEnd) == [method |-> method, path |-> path, uses |-> uses, fromEnd |-> fromEnd]
NoVariable == -1
NoRoute == Takes("none", <<>>, "nothing", NoVariable)
API == <<"api", "agent">>
V1  == <<"api", "agent", "v1">>

Health == { Takes("GET", <<"health">>, "nothing", NoVariable),
            Takes("GET", API \o <<"health">>, "nothing", NoVariable) }

AgentReads ==
    { Takes("GET", V1 \o <<name>>, "gateway", NoVariable) : name \in {"current-agent", "agent", "ships", "contracts"} }
    \cup { Takes("GET", V1 \o <<name, Var>>, "gateway", 0) : name \in {"ships", "contracts"} }

(* Mutant: the handlers of the writes take the last segment. *)
WritesOnTheLast ==
    { Takes("POST", V1 \o <<"ships", "purchase">>, "gateway", NoVariable) }
    \cup { Takes("POST", V1 \o <<"ships", Var, action>>, "gateway", 0) : action \in {"purchase", "sell"} }
    \cup { Takes("POST", V1 \o <<"contracts", Var, action>>, "gateway", 0) : action \in {"accept", "fulfill"} }
    \cup { Takes("POST", V1 \o <<"contracts", Var, "deliveries">>, "history", 0) }

Writes ==
    { Takes("POST", V1 \o <<"ships", "purchase">>, "gateway", NoVariable) }
    \cup { Takes("POST", V1 \o <<"ships", Var, action>>, "gateway", 1) : action \in {"purchase", "sell"} }
    \cup { Takes("POST", V1 \o <<"contracts", Var, action>>, "gateway", 1) : action \in {"accept", "fulfill"} }
    \cup { Takes("POST", V1 \o <<"contracts", Var, "deliveries">>, "history", 1) }

HistoryReads ==
    { Takes("GET", V1 \o <<"contracts", Var, "deliveries">>, "history", 1),
      Takes("GET", V1 \o <<"transactions">>, "history", NoVariable) }

Routes == Health \cup AgentReads \cup Writes \cup HistoryReads

(* The table of auth.ts. *)
routePolicy ==
    [r \in Routes |-> CASE r \in Health -> "ignore"
                        [] r \in AgentReads -> "session"
                        [] r \in Writes -> SCOPE_FLEET_CONTROL
                        [] r \in HistoryReads -> "none"]

NoDeviation == [of |-> NoRoute, says |-> Undeclared]

ASSUME DeviationsAssumption == Deviations \subseteq [of : Routes, says : Tiers \cup {Undeclared}]

VARIABLES
    deviation, \* how this build's table differs from auth.ts
    process,   \* "starting", "refused" or "serving"
    req,       \* the request
    at,        \* the middleware it has come to
    cors,      \* the CORS headers are on the response
    route,     \* the route that took it
    center,    \* what auth-service said of the session
    ran,       \* the handler ran
    variable,  \* what it took as its path variable
    status     \* the answer's status, 0 for none

pipelineVars == <<deviation, process, req, at, cors, route, center, ran, variable, status>>
response == <<cors, route, center, ran, variable, status>>

Nothing == <<"none">>
NoRequest == [method |-> "GET", path |-> <<"">>, credential |-> "absent"]

PipelineInit ==
    /\ deviation \in Deviations \cup {NoDeviation}
    /\ process = "starting"
    /\ req = NoRequest
    /\ at = "idle"
    /\ cors = FALSE
    /\ route = NoRoute
    /\ center = "unasked"
    /\ ran = FALSE
    /\ variable = Nothing
    /\ status = 0

-----------------------------------------------------------------------------
(* The table this build came with. *)
Policy(r) == IF r = deviation.of THEN deviation.says ELSE routePolicy[r]

(* Mutant: a "none" on a POST is taken at its word. *)
DeclarableOfIgnored(r) == Policy(r) # Undeclared /\ (Policy(r) = "ignore" => r.method \in SAFE)

(* declaring takes a route that has an entry, and a mutating one only with a session or a scope. *)
Declarable(r) == Policy(r) # Undeclared /\ (Policy(r) \in {"ignore", "none"} => r.method \in SAFE)

(* Startup: every route is declared, or nothing is served. *)
Start ==
    /\ process = "starting"
    /\ process' = IF \A r \in Routes : Declarable(r) THEN "serving" ELSE "refused"
    /\ UNCHANGED <<deviation, req, at, response>>

Arrive ==
    /\ process = "serving"
    /\ at = "idle"
    /\ req' \in [method : Methods, path : RequestPaths, credential : Credentials]
    /\ at' = "muxCompat"
    /\ UNCHANGED <<deviation, process, response>>

At(middleware) ==
    /\ at = middleware
    /\ UNCHANGED <<deviation, process, req>>

(* The response is out. *)
Respond(code) ==
    /\ at' = "done"
    /\ status' = code

(* A path that routing may see: cleanPath leaves it as it is. *)
CleanSegments(path) ==
    /\ \A i \in 1..(Len(path) - 1) : path[i] # ""
    /\ \A i \in 1..Len(path) : path[i] \notin {".", ".."}

MuxCompat ==
    /\ At("muxCompat")
    /\ \/ /\ BadEscape \in Range(req.path)
          /\ Respond(400)
       \/ /\ BadEscape \notin Range(req.path)
          /\ ~CleanSegments(req.path)
          /\ Respond(301)
       \/ /\ BadEscape \notin Range(req.path)
          /\ CleanSegments(req.path)
          /\ at' = "cors"
          /\ UNCHANGED status
    /\ UNCHANGED <<cors, route, center, ran, variable>>

(* corsHeaders: on everything from here on; a preflight is answered on every path. *)
CorsHeaders ==
    /\ At("cors")
    /\ cors' = TRUE
    /\ \/ req.method = "OPTIONS" /\ Respond(204)
       \/ req.method # "OPTIONS" /\ at' = "routes" /\ UNCHANGED status
    /\ UNCHANGED <<route, center, ran, variable>>

(* Express: method and segments match, with no decoding of its own to fail on. *)
Matches(r) ==
    /\ r.method = IF req.method = "HEAD" THEN "GET" ELSE req.method
    /\ Len(r.path) = Len(req.path)
    /\ \A i \in 1..Len(r.path) :
          IF r.path[i] = Var THEN req.path[i] # "" ELSE r.path[i] = req.path[i]

(* The first handler of a route is its declaration. *)
ToRoute ==
    /\ At("routes")
    /\ \E r \in Routes :
          /\ Matches(r)
          /\ route' = r
    /\ at' = "declaration"
    /\ UNCHANGED <<cors, center, ran, variable, status>>

Routed == \E r \in Routes : Matches(r)

(* Mutant: a header that is no credential stops at a public route only when it is absent. *)
AsksOfPublic(tier) == tier # "ignore" /\ req.credential # "absent"

(* A declaration asks auth-service about a token, whatever it requires; "ignore" never reads the header. *)
Asks(tier) == tier # "ignore" /\ req.credential = "token"

(* Who is let through without a token. *)
Admits(tier) == tier \in {"ignore", "none"}

(* clerk-client: no credential, no question. *)
DeclareWithoutAsking ==
    /\ At("declaration")
    /\ ~Asks(Policy(route))
    /\ \/ Admits(Policy(route)) /\ at' = "handler" /\ UNCHANGED status
       \/ ~Admits(Policy(route)) /\ Respond(401)
    /\ UNCHANGED <<cors, route, center, ran, variable>>

(* auth-service's answers: unusable, inactive, active, active with the scope. *)
Verdicts == {"unavailable", "inactive", "active", "scoped"}

DeclareByAnswer ==
    /\ At("declaration")
    /\ Asks(Policy(route))
    /\ center' \in Verdicts
    /\ CASE center' = "unavailable" -> Respond(503)
         [] center' = "inactive" -> Respond(401)
         [] center' = "active" /\ Policy(route) = SCOPE_FLEET_CONTROL -> Respond(403)
         [] OTHER -> at' = "handler" /\ UNCHANGED status
    /\ UNCHANGED <<cors, route, ran, variable>>

(* segmentFromEnd, on the decoded path. *)
SegmentAt(fromEnd) ==
    IF fromEnd = NoVariable THEN Nothing ELSE <<req.path[Len(req.path) - fromEnd]>>

(* The handler answers, or throws, or its caller is gone. *)
Handle ==
    /\ At("handler")
    /\ ran' = TRUE
    /\ variable' = SegmentAt(route.fromEnd)
    /\ \/ Respond(200)
       \/ /\ route.uses # "nothing"
          /\ at' \in {"onError_gone", "onError_text", "onError_gateway", "onError_other", "onError_sent"}
          /\ UNCHANGED status
    /\ UNCHANGED <<cors, route, center>>

(* onError: what was sent is cut off, a caller who left gets nothing, the rest is an answer. *)
OnError ==
    /\ \/ At("onError_sent") /\ Respond(0)
       \/ At("onError_gone") /\ Respond(0)
       \/ At("onError_text") /\ \E code \in {400, 500} : Respond(code)
       \/ At("onError_gateway") /\ \E code \in {404, 502, 504} : Respond(code)
       \/ At("onError_other") /\ Respond(500)
    /\ UNCHANGED <<cors, route, center, ran, variable>>

-----------------------------------------------------------------------------
SWAGGER_PATH == API \o <<"swagger">>
ASSETS == {"swagger-ui.css", "favicon-16x16.png"}
Served == ASSETS \cup {"", "index.html", "swagger-ui-init.js"}

UnderSwagger == IsPrefix(SWAGGER_PATH, req.path)

(* Mutant: the CORS headers stay on. *)
PageNotFoundAsItIs ==
    /\ Respond(404)
    /\ UNCHANGED cors

(* pageNotFound, also the docs' `refuse`: an answer for no route. *)
PageNotFound ==
    /\ cors' = FALSE
    /\ Respond(404)

(* The gate: the bare prefix and the other methods are nobody's. *)
Gate == req.path # SWAGGER_PATH /\ req.method \in {"GET", "HEAD"}

(* The mount at SWAGGER_PATH: the gate, a declaration that reads nothing, the page and its files. *)
Docs ==
    /\ At("routes")
    /\ ~Routed
    /\ UnderSwagger
    /\ LET under == SubSeq(req.path, Len(SWAGGER_PATH) + 1, Len(req.path))
       IN  IF Gate /\ Len(under) = 1 /\ under[1] \in Served
           THEN Respond(200) /\ UNCHANGED cors
           ELSE PageNotFound
    /\ UNCHANGED <<route, center, ran, variable>>

(* AGENT_PREFIX is a prefix of the string, not of the segments. *)
UnderAgent == Len(req.path) > 1 /\ req.path[1] = "api" /\ req.path[2] \in {"agent", "agentx"}

(* terminalAnswer. *)
Terminal ==
    /\ At("routes")
    /\ ~Routed
    /\ ~UnderSwagger
    /\ \/ UnderAgent /\ PageNotFound
       \/ ~UnderAgent /\ cors' = FALSE /\ Respond(405)
    /\ UNCHANGED <<route, center, ran, variable>>

PipelineNext ==
    \/ Start
    \/ Arrive
    \/ MuxCompat
    \/ CorsHeaders
    \/ ToRoute
    \/ DeclareWithoutAsking
    \/ DeclareByAnswer
    \/ Handle
    \/ OnError
    \/ Docs
    \/ Terminal

PipelineSpec == PipelineInit /\ [][PipelineNext]_pipelineVars

-----------------------------------------------------------------------------
Verified == center \in {"active", "scoped"}

(***************************************************************************)
(* Whatever table a build comes with: if it starts, no handler of a        *)
(* mutating route runs for a session that auth-service has not verified,   *)
(* nor for one without the scope the table asks for; a token that is       *)
(* presented is never waved through unverified except where the header is  *)
(* not read; and only a declaration that needs it asks auth-service, so    *)
(* that health, docs, preflights and terminal answers work while it is     *)
(* down.  With the table of auth.ts, what goes to the gateway (which is    *)
(* sent the caller's header) is verified.                                  *)
(***************************************************************************)
ServedAsVerified ==
    /\ ran =>
        /\ route.method \notin SAFE => Verified
        /\ Policy(route) = SCOPE_FLEET_CONTROL => center = "scoped"
        /\ req.credential = "token" /\ Policy(route) # "ignore" => Verified
        /\ deviation = NoDeviation /\ route.uses = "gateway" => Verified
    /\ center # "unasked" => route # NoRoute /\ Policy(route) # "ignore" /\ req.credential = "token"

(***************************************************************************)
(* The CORS headers are on every answer a matched route produces, refused  *)
(* and failed ones included, on preflights and on the documentation, and   *)
(* on no other answer: neither muxCompat's nor a terminal one.             *)
(***************************************************************************)
CorsOnMatchedOnly ==
    at = "done" /\ status # 0 =>
        (cors <=> route # NoRoute \/ status \in {200, 204})

(***************************************************************************)
(* A handler's variable is the segment that matched its route's parameter, *)
(* as the bytes that were sent: also for names that read like an action.   *)
(***************************************************************************)
VariableAsRouted ==
    ran => \A i \in 1..Len(route.path) : route.path[i] = Var => variable = <<req.path[i]>>
=============================================================================
