----------------------------- MODULE RulesProofs -----------------------------
(***************************************************************************)
(* Proofs about the rules by which a request is read: the way through the  *)
(* app (Pipeline), for any set of deviating tables and of paths; about a   *)
(* moment's way into the history (Times), for any stamps, clocks and units *)
(* of time; and about a path, its segments, what it names and the clean    *)
(* one it is redirected to (Paths), for any bytes and any length.          *)
(***************************************************************************)
EXTENDS Paths, Pipeline, Times, WellFoundedInduction, SequenceTheorems, FiniteSetTheorems,
        TLAPS

-----------------------------------------------------------------------------
(* Two sequences, one behind the other. *)
LEMMA Concatenation ==
    ASSUME NEW S, NEW s \in Seq(S), NEW u \in Seq(S)
    PROVE  /\ s \o u \in Seq(S) /\ Len(s \o u) = Len(s) + Len(u)
           /\ \A i \in 1..(Len(s) + Len(u)) : (s \o u)[i] = IF i <= Len(s) THEN s[i] ELSE u[i - Len(s)]
OBVIOUS

(* The segments of a path behind a prefix. *)
LEMMA Behind ==
    ASSUME NEW S, NEW u \in Seq(S), NEW prefix \in {API, V1}
    PROVE  /\ Len(prefix) \in 1..3 /\ Len(prefix \o u) = Len(prefix) + Len(u)
           /\ \A i \in 1..Len(prefix) : (prefix \o u)[i] # Var
           /\ \A i \in 1..Len(u) : (prefix \o u)[Len(prefix) + i] = u[i]
<1> DEFINE T == S \cup {"api", "agent", "v1"}
<1>1. u \in Seq(T) /\ Len(u) \in Nat
    OBVIOUS
<1>2. prefix \in Seq(T) /\ Len(prefix) \in 1..3 /\ \A i \in 1..Len(prefix) : prefix[i] # Var
    <2>1. CASE prefix = API
        BY <2>1 DEF API, Var
    <2>2. CASE prefix = V1
        BY <2>2 DEF V1, Var
    <2> QED
        BY <2>1, <2>2
<1> HIDE DEF T
<1>3. /\ Len(prefix \o u) = Len(prefix) + Len(u)
      /\ \A i \in 1..(Len(prefix) + Len(u)) : (prefix \o u)[i] = IF i <= Len(prefix) THEN prefix[i] ELSE u[i - Len(prefix)]
    BY <1>1, <1>2, Concatenation
<1>4. \A i \in 1..Len(prefix) : (prefix \o u)[i] # Var
    BY <1>1, <1>2, <1>3
<1>5. ASSUME NEW i \in 1..Len(u)
      PROVE  (prefix \o u)[Len(prefix) + i] = u[i]
    <2>1. Len(prefix) + i \in 1..(Len(prefix) + Len(u)) /\ ~(Len(prefix) + i <= Len(prefix)) /\ (Len(prefix) + i) - Len(prefix) = i
        BY <1>1, <1>2
    <2> QED
        BY <1>3, <2>1
<1> QED
    BY <1>2, <1>3, <1>4, <1>5

(* One, two or three segments behind V1. *)
LEMMA OneBehind ==
    ASSUME NEW a
    PROVE  /\ Len(V1 \o <<a>>) = 4 /\ \A i \in 1..3 : (V1 \o <<a>>)[i] # Var
           /\ (V1 \o <<a>>)[4] = a
<1>1. <<a>> \in Seq({a}) /\ Len(<<a>>) = 1 /\ <<a>>[1] = a /\ Len(V1) = 3
    BY DEF V1
<1>2. \A i \in 1..Len(<<a>>) : (V1 \o <<a>>)[Len(V1) + i] = <<a>>[i]
    BY <1>1, Behind
<1>3. Len(V1 \o <<a>>) = Len(V1) + Len(<<a>>) /\ \A i \in 1..Len(V1) : (V1 \o <<a>>)[i] # Var
    BY <1>1, Behind
<1> QED
    BY <1>1, <1>2, <1>3

(* Two segments behind the base path, after which there is no variable. *)
LEMMA TwoBehind ==
    ASSUME NEW a, NEW b
    PROVE  /\ Len(V1 \o <<a, b>>) = 5 /\ \A i \in 1..3 : (V1 \o <<a, b>>)[i] # Var
           /\ (V1 \o <<a, b>>)[4] = a /\ (V1 \o <<a, b>>)[5] = b
<1> DEFINE u == <<a, b>>
<1>1. u \in Seq({a, b}) /\ Len(u) = 2 /\ u[1] = a /\ u[2] = b /\ Len(V1) = 3
    BY DEF V1
<1> HIDE DEF u
<1>2. \A i \in 1..Len(u) : (V1 \o u)[Len(V1) + i] = u[i]
    BY <1>1, Behind
<1>3. Len(V1 \o u) = Len(V1) + Len(u) /\ \A i \in 1..Len(V1) : (V1 \o u)[i] # Var
    BY <1>1, Behind
<1>4. Len(V1 \o u) = 5 /\ (\A i \in 1..3 : (V1 \o u)[i] # Var) /\ (V1 \o u)[4] = a /\ (V1 \o u)[5] = b
    BY <1>1, <1>2, <1>3
<1> QED
    BY <1>4 DEF u

(* Three segments behind the base path. *)
LEMMA ThreeBehind ==
    ASSUME NEW a, NEW b, NEW c
    PROVE  /\ Len(V1 \o <<a, b, c>>) = 6 /\ \A i \in 1..3 : (V1 \o <<a, b, c>>)[i] # Var
           /\ (V1 \o <<a, b, c>>)[4] = a /\ (V1 \o <<a, b, c>>)[5] = b /\ (V1 \o <<a, b, c>>)[6] = c
<1> DEFINE u == <<a, b, c>>
<1>1. u \in Seq({a, b, c}) /\ Len(u) = 3 /\ u[1] = a /\ u[2] = b /\ u[3] = c /\ Len(V1) = 3
    BY DEF V1
<1> HIDE DEF u
<1>2. \A i \in 1..Len(u) : (V1 \o u)[Len(V1) + i] = u[i]
    BY <1>1, Behind
<1>3. Len(V1 \o u) = Len(V1) + Len(u) /\ \A i \in 1..Len(V1) : (V1 \o u)[i] # Var
    BY <1>1, Behind
<1>4. /\ Len(V1 \o u) = 6 /\ \A i \in 1..3 : (V1 \o u)[i] # Var
      /\ (V1 \o u)[4] = a /\ (V1 \o u)[5] = b /\ (V1 \o u)[6] = c
    BY <1>1, <1>2, <1>3
<1> QED
    BY <1>4 DEF u

(***************************************************************************)
(* A route whose path has a parameter takes the segment that matches it.   *)
(***************************************************************************)
TakesItsParameter(r) ==
    \A i \in 1..Len(r.path) : r.path[i] = Var => r.fromEnd \in Nat /\ i = Len(r.path) - r.fromEnd

(* Every route of the app takes its parameter where its pattern has it. *)
LEMMA RoutesTakeTheirParameters ==
    ASSUME NEW r \in Routes
    PROVE  TakesItsParameter(r)
<1>1. ASSUME NEW a, NEW b, a # Var, b # Var, r.path = V1 \o <<a, Var, b>>, r.fromEnd = 1
      PROVE  TakesItsParameter(r)
    BY <1>1, ThreeBehind DEF TakesItsParameter
<1>2. ASSUME NEW a, NEW b, a # Var, b # Var, r.path = V1 \o <<a, b>>
      PROVE  TakesItsParameter(r)
    BY <1>2, TwoBehind DEF TakesItsParameter
<1>3. ASSUME NEW a, a # Var, r.path = V1 \o <<a, Var>>, r.fromEnd = 0
      PROVE  TakesItsParameter(r)
    BY <1>3, TwoBehind DEF TakesItsParameter
<1>4. ASSUME NEW a, a # Var, r.path = V1 \o <<a>>
      PROVE  TakesItsParameter(r)
    BY <1>4, OneBehind DEF TakesItsParameter
<1>5. CASE r \in Health
    <2>1. CASE r.path = <<"health">>
        BY <2>1 DEF TakesItsParameter, Var
    <2>2. CASE r.path = API \o <<"health">>
        <3> DEFINE u == <<"health">>
        <3>1. u \in Seq({"health"}) /\ Len(u) = 1 /\ u[1] # Var /\ Len(API) = 2
            BY DEF API, Var
        <3> HIDE DEF u
        <3>2. /\ Len(API \o u) = Len(API) + Len(u) /\ \A i \in 1..Len(API) : (API \o u)[i] # Var
              /\ \A i \in 1..Len(u) : (API \o u)[Len(API) + i] = u[i]
            BY <3>1, Behind
        <3>3. \A i \in 1..Len(API \o u) : (API \o u)[i] # Var
            <4>1. \A i \in 1..3 : i \in 1..2 \/ i = 2 + 1
                OBVIOUS
            <4> QED
                BY <3>1, <3>2, <4>1
        <3>4. r.path = API \o u
            BY <2>2 DEF u
        <3> QED
            BY <3>3, <3>4 DEF TakesItsParameter
    <2> QED
        BY <1>5, <2>1, <2>2 DEF Health, Takes
<1>6. CASE r \in AgentReads
    <2>1. \/ \E name \in {"current-agent", "agent", "ships", "contracts"} :
                r = Takes("GET", V1 \o <<name>>, "gateway", NoVariable)
          \/ \E name \in {"ships", "contracts"} : r = Takes("GET", V1 \o <<name, Var>>, "gateway", 0)
        BY <1>6, Zenon DEF AgentReads
    <2>2. ASSUME NEW name \in {"current-agent", "agent", "ships", "contracts"},
                 r = Takes("GET", V1 \o <<name>>, "gateway", NoVariable)
          PROVE  TakesItsParameter(r)
        <3>1. r.path = V1 \o <<name>>
            BY <2>2, Zenon DEF Takes
        <3> QED
            BY <1>4, <3>1 DEF Var
    <2>3. ASSUME NEW name \in {"ships", "contracts"}, r = Takes("GET", V1 \o <<name, Var>>, "gateway", 0)
          PROVE  TakesItsParameter(r)
        <3>1. r.path = V1 \o <<name, Var>> /\ r.fromEnd = 0
            BY <2>3, Zenon DEF Takes
        <3>2. name # Var
            BY DEF Var
        <3> QED
            BY <1>3, <3>1, <3>2
    <2> QED
        BY <2>1, <2>2, <2>3
<1>7. ASSUME NEW method, NEW a \in {"ships", "contracts"},
             NEW b \in {"purchase", "sell", "accept", "fulfill", "deliveries"}, NEW uses,
             r = Takes(method, V1 \o <<a, Var, b>>, uses, 1)
      PROVE  TakesItsParameter(r)
    <2>1. r.path = V1 \o <<a, Var, b>> /\ r.fromEnd = 1
        BY <1>7, Zenon DEF Takes
    <2>2. a # Var /\ b # Var
        BY DEF Var
    <2> QED
        BY <1>1, <2>1, <2>2
<1>8. CASE r \in Writes
    <2>1. \/ r = Takes("POST", V1 \o <<"ships", "purchase">>, "gateway", NoVariable)
          \/ \E action \in {"purchase", "sell"} : r = Takes("POST", V1 \o <<"ships", Var, action>>, "gateway", 1)
          \/ \E action \in {"accept", "fulfill"} : r = Takes("POST", V1 \o <<"contracts", Var, action>>, "gateway", 1)
          \/ r = Takes("POST", V1 \o <<"contracts", Var, "deliveries">>, "history", 1)
        BY <1>8, Zenon DEF Writes
    <2>2. CASE r = Takes("POST", V1 \o <<"ships", "purchase">>, "gateway", NoVariable)
        <3>1. r.path = V1 \o <<"ships", "purchase">>
            BY <2>2, Zenon DEF Takes
        <3> QED
            BY <1>2, <3>1 DEF Var
    <2> QED
        BY <1>7, <2>1, <2>2
<1>9. CASE r \in HistoryReads
    <2>1. \/ r = Takes("GET", V1 \o <<"contracts", Var, "deliveries">>, "history", 1)
          \/ r = Takes("GET", V1 \o <<"transactions">>, "history", NoVariable)
        BY <1>9, Zenon DEF HistoryReads
    <2>2. CASE r = Takes("GET", V1 \o <<"transactions">>, "history", NoVariable)
        <3>1. r.path = V1 \o <<"transactions">>
            BY <2>2, Zenon DEF Takes
        <3> QED
            BY <1>4, <3>1 DEF Var
    <2> QED
        BY <1>7, <2>1, <2>2
<1> QED
    BY <1>5, <1>6, <1>8, <1>9 DEF Routes

(* What the methods of the routes are, and which of them go to the gateway. *)
LEMMA RouteMethods ==
    /\ \A r \in Health : r.method = "GET" /\ r.uses = "nothing"
    /\ \A r \in AgentReads : r.method = "GET" /\ r.uses = "gateway"
    /\ \A r \in Writes : r.method = "POST"
    /\ \A r \in HistoryReads : r.method = "GET" /\ r.uses = "history"
BY DEF Health, AgentReads, Writes, HistoryReads, Takes

-----------------------------------------------------------------------------
OnErrors == {"onError_gone", "onError_text", "onError_gateway", "onError_other", "onError_sent"}
BeforeRoute == {"idle", "muxCompat", "cors", "routes"}
InRoute == {"declaration", "handler"} \cup OnErrors

(* What the declaration let through: nobody was asked and nobody need be, or the answer was good enough. *)
Admitted ==
    \/ ~Asks(Policy(route)) /\ Admits(Policy(route)) /\ center = "unasked"
    \/ Asks(Policy(route)) /\ center \in {"active", "scoped"} /\ (Policy(route) = SCOPE_FLEET_CONTROL => center = "scoped")

(* A process that serves has taken every route's declaration. *)
Declared ==
    /\ deviation \in Deviations \cup {NoDeviation}
    /\ at # "idle" => process = "serving"
    /\ process = "serving" => \A r \in Routes : Declarable(r)

(* How far the request has come, and what is known of it there. *)
Followed ==
    /\ at \in BeforeRoute \cup InRoute \cup {"done"}
    /\ at \in BeforeRoute => route = NoRoute
    /\ at \in InRoute => route \in Routes /\ Matches(route)
    /\ route = NoRoute \/ route \in Routes

(* Who was asked, and who was let through. *)
Asked ==
    /\ at \in BeforeRoute \cup {"declaration"} => center = "unasked"
    /\ center # "unasked" => route \in Routes /\ Asks(Policy(route))
    /\ at = "handler" => Admitted
    /\ at \in BeforeRoute \cup {"declaration", "handler"} => ran = FALSE
    /\ ran = TRUE => route \in Routes /\ Matches(route) /\ Admitted /\ variable = SegmentAt(route.fromEnd)
    /\ ran \in BOOLEAN

Headers ==
    /\ at \in {"idle", "muxCompat", "cors"} => cors = FALSE
    /\ at \in {"routes"} \cup InRoute => cors = TRUE
    /\ at = "done" => CorsOnMatchedOnly

PipelineInv == Declared /\ Followed /\ Asked /\ Headers

(* What stands for no route is none of the routes. *)
LEMMA NoRouteIsNone == NoRoute \notin Routes
<1>1. NoRoute.method = "none"
    BY DEF NoRoute, Takes
<1> QED
    BY <1>1, RouteMethods DEF Routes

(* The invariant holds before anything is asked for. *)
LEMMA InitPipelineInv == PipelineInit => PipelineInv
BY DEF PipelineInit, PipelineInv, Declared, Followed, Asked, Headers, BeforeRoute, InRoute, OnErrors

(* A process that serves does not look at the table again. *)
LEMMA DeclaredStays ==
    ASSUME Declared, UNCHANGED <<deviation, process>>, at # "idle" \/ at' = "idle"
    PROVE  Declared'
BY DEF Declared, Declarable, Policy

(* Past the start, a request stays what it was, and what is known of it. *)
LEMMA MatchStays ==
    ASSUME UNCHANGED <<req, route>>
    PROVE  Matches(route)' <=> Matches(route)
BY DEF Matches

(* What the table says, and whether the caller is admitted, stays with it. *)
LEMMA AdmittedStays ==
    ASSUME UNCHANGED <<deviation, req, route, center>>
    PROVE  /\ Admitted' <=> Admitted
           /\ Asks(Policy(route))' <=> Asks(Policy(route))
           /\ SegmentAt(route.fromEnd)' = SegmentAt(route.fromEnd)
BY DEF Admitted, Policy, Asks, Admits, SegmentAt

(* No step of the app breaks the invariant. *)
LEMMA NextPipelineInv == PipelineInv /\ [PipelineNext]_pipelineVars => PipelineInv'
<1> SUFFICES ASSUME PipelineInv, [PipelineNext]_pipelineVars PROVE PipelineInv'
    OBVIOUS
<1> USE DEF At, Respond, response, BeforeRoute, InRoute, OnErrors
<1>1. CASE Start
    <2>1. UNCHANGED <<deviation, req, at, response>> /\ process # "serving" /\ process' \in {"serving", "refused"}
        BY <1>1 DEF Start
    <2>2. Declared'
        <3>1. \A r : Declarable(r)' <=> Declarable(r)
            BY <2>1 DEF Declarable, Policy
        <3>2. process' = "serving" => \A r \in Routes : Declarable(r)
            BY <1>1 DEF Start
        <3>3. at = "idle" /\ deviation \in Deviations \cup {NoDeviation}
            BY <2>1 DEF PipelineInv, Declared
        <3> QED
            BY <2>1, <3>1, <3>2, <3>3 DEF Declared
    <2>3. Followed'
        BY <2>1, MatchStays DEF PipelineInv, Followed
    <2>4. Asked'
        BY <2>1, MatchStays, AdmittedStays DEF PipelineInv, Asked
    <2>5. Headers'
        BY <2>1 DEF PipelineInv, Headers, CorsOnMatchedOnly
    <2> QED
        BY <2>2, <2>3, <2>4, <2>5 DEF PipelineInv
<1>2. CASE Arrive
    BY <1>2, NoRouteIsNone DEF Arrive, PipelineInv, Declared, Declarable, Policy, Followed, Asked, Headers
<1>3. CASE MuxCompat \/ CorsHeaders
    BY <1>3, NoRouteIsNone DEF MuxCompat, CorsHeaders, PipelineInv, Declared, Declarable, Policy, Followed, Asked, Headers,
       CorsOnMatchedOnly
<1>4. CASE ToRoute
    <2> PICK r \in Routes : Matches(r) /\ route' = r
        BY <1>4 DEF ToRoute
    <2>1. at = "routes" /\ at' = "declaration" /\ UNCHANGED <<deviation, process, req, cors, center, ran, variable, status>>
        BY <1>4 DEF ToRoute
    <2>2. Matches(route)'
        BY <2>1 DEF Matches
    <2>3. Declared' /\ Asked' /\ Headers'
        BY <2>1 DEF PipelineInv, Declared, Declarable, Policy, Followed, Asked, Headers
    <2> QED
        BY <2>1, <2>2, <2>3 DEF PipelineInv, Followed
<1>5. CASE DeclareWithoutAsking \/ DeclareByAnswer
    <2>1. /\ at = "declaration" /\ at' \in {"handler", "done"}
          /\ UNCHANGED <<deviation, process, req, cors, route, ran, variable>>
        BY <1>5 DEF DeclareWithoutAsking, DeclareByAnswer
    <2>2. Declared' /\ Followed' /\ Headers'
        <3>1. Declared'
            BY <2>1, DeclaredStays DEF PipelineInv
        <3>2. Followed'
            BY <2>1, MatchStays DEF PipelineInv, Followed
        <3>3. Headers'
            BY <2>1, NoRouteIsNone DEF PipelineInv, Followed, Headers, CorsOnMatchedOnly
        <3> QED
            BY <3>1, <3>2, <3>3
    <2>3. UNCHANGED <<Policy(route), Asks(Policy(route)), Admits(Policy(route))>>
        BY <2>1 DEF Policy, Asks, Admits
    <2>4. center' # "unasked" => Asks(Policy(route))
        BY <1>5 DEF DeclareWithoutAsking, DeclareByAnswer, PipelineInv, Asked
    <2>5. at' = "handler" => Admitted'
        <3>1. CASE DeclareWithoutAsking
            BY <2>3, <3>1 DEF DeclareWithoutAsking, PipelineInv, Asked, Admitted
        <3>2. CASE DeclareByAnswer
            BY <2>3, <3>2 DEF DeclareByAnswer, Verdicts, Admitted
        <3> QED
            BY <1>5, <3>1, <3>2
    <2> QED
        BY <2>1, <2>2, <2>3, <2>4, <2>5 DEF PipelineInv, Asked, Followed
<1>6. CASE Handle
    <2>1. /\ at = "handler" /\ at' \in OnErrors \cup {"done"}
          /\ UNCHANGED <<deviation, process, req, cors, route, center>>
          /\ ran' = TRUE /\ variable' = SegmentAt(route.fromEnd)
        BY <1>6 DEF Handle
    <2>2. Declared' /\ Followed' /\ Headers'
        <3>1. Declared'
            BY <2>1, DeclaredStays DEF PipelineInv
        <3>2. Followed'
            BY <2>1, MatchStays DEF PipelineInv, Followed
        <3>3. Headers'
            BY <2>1, NoRouteIsNone DEF PipelineInv, Followed, Headers, CorsOnMatchedOnly
        <3> QED
            BY <3>1, <3>2, <3>3
    <2>3. Admitted' /\ SegmentAt(route.fromEnd)' = SegmentAt(route.fromEnd) /\ Matches(route)'
        BY <2>1 DEF PipelineInv, Followed, Asked, Admitted, Policy, Asks, Admits, SegmentAt, Matches
    <2>4. Asked'
        BY <2>1, <2>3 DEF PipelineInv, Followed, Asked, Asks, Policy
    <2> QED
        BY <2>2, <2>4 DEF PipelineInv
<1>7. CASE OnError
    <2>1. at \in OnErrors /\ at' = "done" /\ UNCHANGED <<deviation, process, req, cors, route, center, ran, variable>>
        BY <1>7 DEF OnError
    <2>2. Declared' /\ Followed' /\ Headers'
        <3>1. Declared'
            BY <2>1, DeclaredStays DEF PipelineInv
        <3>2. Followed'
            BY <2>1, MatchStays DEF PipelineInv, Followed
        <3>3. Headers'
            BY <2>1, NoRouteIsNone DEF PipelineInv, Followed, Headers, CorsOnMatchedOnly
        <3> QED
            BY <3>1, <3>2, <3>3
    <2>3. Asked'
        BY <2>1, AdmittedStays, MatchStays DEF PipelineInv, Asked
    <2> QED
        BY <2>2, <2>3 DEF PipelineInv
<1>8. CASE Docs \/ Terminal
    <2>1. /\ at = "routes" /\ at' = "done" /\ UNCHANGED <<deviation, process, req, route, center, ran, variable>>
          /\ (status' = 200 /\ cors' = cors) \/ (status' \in {404, 405} /\ cors' = FALSE)
        <3>1. CASE Docs
            <4>1. (Respond(200) /\ UNCHANGED cors) \/ PageNotFound
                BY <3>1, Zenon DEF Docs
            <4>2. at = "routes" /\ UNCHANGED <<deviation, process, req, route, center, ran, variable>>
                BY <3>1, Zenon DEF Docs
            <4> QED
                BY <4>1, <4>2 DEF PageNotFound
        <3>2. CASE Terminal
            BY <3>2 DEF Terminal, PageNotFound
        <3> QED
            BY <1>8, <3>1, <3>2
    <2>2. Declared'
        BY <2>1, DeclaredStays DEF PipelineInv
    <2>3. Followed' /\ Asked'
        BY <2>1, NoRouteIsNone DEF PipelineInv, Followed, Asked
    <2>4. Headers'
        <3>1. cors = TRUE /\ route = NoRoute /\ route' = NoRoute
            BY <2>1 DEF PipelineInv, Followed, Headers
        <3>2. CorsOnMatchedOnly'
            <4>1. CASE status' = 200 /\ cors' = cors
                BY <3>1, <4>1 DEF CorsOnMatchedOnly
            <4>2. CASE status' \in {404, 405} /\ cors' = FALSE
                BY <3>1, <4>2 DEF CorsOnMatchedOnly
            <4> QED
                BY <2>1, <4>1, <4>2
        <3> QED
            BY <2>1, <3>2 DEF Headers
    <2> QED
        BY <2>2, <2>3, <2>4 DEF PipelineInv
<1>9. CASE UNCHANGED pipelineVars
    <2> USE <1>9 DEF pipelineVars
    <2>1. Declared'
        BY DEF PipelineInv, Declared, Declarable, Policy
    <2>2. Followed' /\ Asked'
        BY MatchStays, AdmittedStays DEF PipelineInv, Followed, Asked
    <2>3. Headers'
        BY DEF PipelineInv, Headers, CorsOnMatchedOnly
    <2> QED
        BY <2>1, <2>2, <2>3 DEF PipelineInv
<1> QED
    BY <1>1, <1>2, <1>3, <1>4, <1>5, <1>6, <1>7, <1>8, <1>9 DEF PipelineNext

(* The invariant of the way through the app. *)
LEMMA PipelineInvariance == PipelineSpec => []PipelineInv
BY InitPipelineInv, NextPipelineInv, PTL DEF PipelineSpec

(***************************************************************************)
(* Whatever table a build comes with and whatever is asked for: no handler *)
(* of a mutating route runs unverified, none without the scope the table   *)
(* asks for, and with the table of auth.ts nothing unverified reaches the  *)
(* gateway.                                                                *)
(***************************************************************************)
THEOREM AlwaysServedAsVerified == PipelineSpec => []ServedAsVerified
<1>1. PipelineInv => ServedAsVerified
    <2> SUFFICES ASSUME PipelineInv PROVE ServedAsVerified
        OBVIOUS
    <2>1. ASSUME ran
          PROVE  /\ route.method \notin SAFE => Verified
                 /\ Policy(route) = SCOPE_FLEET_CONTROL => center = "scoped"
                 /\ req.credential = "token" /\ Policy(route) # "ignore" => Verified
                 /\ deviation = NoDeviation /\ route.uses = "gateway" => Verified
        <3>1. route \in Routes /\ Admitted /\ Declarable(route)
            BY <2>1 DEF PipelineInv, Asked, Declared, BeforeRoute
        <3>2. ~Admits(Policy(route)) => Verified
            BY <3>1 DEF Admitted, Verified
        <3>3. route.method \notin SAFE => ~Admits(Policy(route))
            BY <3>1 DEF Declarable, Admits
        <3>4. Policy(route) = SCOPE_FLEET_CONTROL => center = "scoped"
            BY <3>1 DEF Admitted, Admits, SCOPE_FLEET_CONTROL
        <3>5. req.credential = "token" /\ Policy(route) # "ignore" => Verified
            BY <3>1 DEF Admitted, Asks, Verified
        <3>6. deviation = NoDeviation /\ route.uses = "gateway" => ~Admits(Policy(route))
            <4> SUFFICES ASSUME deviation = NoDeviation, route.uses = "gateway" PROVE ~Admits(Policy(route))
                OBVIOUS
            <4>1. Policy(route) = routePolicy[route]
                BY <3>1, NoRouteIsNone DEF Policy, NoDeviation
            <4>2. route \notin Health /\ route \notin HistoryReads
                BY RouteMethods
            <4>3. (route \in AgentReads /\ route \notin Writes) \/ (route \in Writes /\ route \notin AgentReads)
                <5>1. route \in AgentReads \/ route \in Writes
                    BY <3>1, <4>2, Zenon DEF Routes
                <5>2. ~(route \in AgentReads /\ route \in Writes)
                    BY RouteMethods
                <5> QED
                    BY <5>1, <5>2
            <4>4. routePolicy[route] \in {"session", SCOPE_FLEET_CONTROL}
                <5>1. CASE route \in AgentReads /\ route \notin Writes
                    BY <3>1, <4>2, <5>1 DEF routePolicy
                <5>2. CASE route \in Writes /\ route \notin AgentReads
                    BY <3>1, <4>2, <5>2 DEF routePolicy
                <5> QED
                    BY <4>3, <5>1, <5>2
            <4> QED
                BY <4>1, <4>4 DEF Admits, SCOPE_FLEET_CONTROL
        <3> QED
            BY <3>2, <3>3, <3>4, <3>5, <3>6
    <2>2. center # "unasked" => route # NoRoute /\ Policy(route) # "ignore" /\ req.credential = "token"
        BY NoRouteIsNone DEF PipelineInv, Asked, Asks
    <2> QED
        BY <2>1, <2>2 DEF ServedAsVerified
<1> QED
    BY PipelineInvariance, <1>1, PTL

(* The CORS headers are on every answer of a matched route, on preflights and on the documentation, and on no other. *)
THEOREM CorsExactlyOnMatched == PipelineSpec => []CorsOnMatchedOnly
<1>1. PipelineInv => CorsOnMatchedOnly
    BY DEF PipelineInv, Headers, CorsOnMatchedOnly
<1> QED
    BY PipelineInvariance, <1>1, PTL

(* A handler's variable is the segment that matched its route's parameter. *)
THEOREM VariablesAreAsRouted == PipelineSpec => []VariableAsRouted
<1>1. PipelineInv => VariableAsRouted
    <2> SUFFICES ASSUME PipelineInv, ran, NEW i \in 1..Len(route.path), route.path[i] = Var
                 PROVE  variable = <<req.path[i]>>
        BY DEF VariableAsRouted
    <2>1. route \in Routes /\ Matches(route) /\ variable = SegmentAt(route.fromEnd)
        BY DEF PipelineInv, Asked
    <2>2. route.fromEnd \in Nat /\ i = Len(route.path) - route.fromEnd
        BY <2>1, RoutesTakeTheirParameters DEF TakesItsParameter
    <2>3. Len(route.path) = Len(req.path) /\ route.fromEnd # NoVariable
        <3>1. Len(route.path) = Len(req.path)
            BY <2>1, Zenon DEF Matches
        <3> QED
            BY <2>2, <3>1 DEF NoVariable
    <2> QED
        BY <2>1, <2>2, <2>3 DEF SegmentAt
<1> QED
    BY PipelineInvariance, <1>1, PTL

-----------------------------------------------------------------------------
(* Multiplication of integers, as the solvers are not asked to find it. *)
LEMMA TimesOrder ==
    ASSUME NEW p \in Nat, NEW a \in Int, NEW b \in Int, a <= b
    PROVE  p * a <= p * b
OBVIOUS

(* A product distributes over a sum and a difference. *)
LEMMA TimesPlus ==
    ASSUME NEW p \in Int, NEW a \in Int, NEW b \in Int
    PROVE  p * (a + b) = p * a + p * b /\ p * (a - b) = p * a - p * b
OBVIOUS

(* Division is Euclid's. *)
LEMMA DivMod ==
    ASSUME NEW p \in Nat \ {0}, NEW a \in Int
    PROVE  a % p = a - p * (a \div p) /\ a \div p \in Int /\ a % p \in 0..(p - 1)
OBVIOUS

(* A number p * a + i is written with one quotient and one remainder. *)
LEMMA Digits ==
    ASSUME NEW p \in Nat \ {0}, NEW a \in Int, NEW b \in Int, NEW i \in 0..(p - 1), NEW j \in 0..(p - 1)
    PROVE  /\ p * a + i = p * b + j => a = b /\ i = j
           /\ p * a + i < p * b => a < b
<1>1. ASSUME a <= b - 1 PROVE p * a + i < p * b
    <2>1. p * a <= p * (b - 1)
        BY <1>1, TimesOrder
    <2>2. p * (b - 1) = p * b - p
        OBVIOUS
    <2>3. p * a \in Int /\ p * b \in Int
        OBVIOUS
    <2> QED
        BY <2>1, <2>2, <2>3
<1>2. ASSUME b <= a - 1 PROVE p * b + j < p * a
    <2>1. p * b <= p * (a - 1)
        BY <1>2, TimesOrder
    <2>2. p * (a - 1) = p * a - p
        OBVIOUS
    <2>3. p * a \in Int /\ p * b \in Int
        OBVIOUS
    <2> QED
        BY <2>1, <2>2, <2>3
<1>3. p * a \in Int /\ p * b \in Int
    OBVIOUS
<1>4. a <= b - 1 \/ b <= a - 1 \/ a = b
    OBVIOUS
<1>5. CASE a = b
    BY <1>3, <1>5
<1>6. CASE a <= b - 1
    BY <1>1, <1>3, <1>6
<1>7. CASE b <= a - 1
    BY <1>2, <1>3, <1>7
<1> QED
    BY <1>4, <1>5, <1>6, <1>7

(* Division finds them. *)
LEMMA DivOf ==
    ASSUME NEW p \in Nat \ {0}, NEW q \in Int, NEW r \in 0..(p - 1)
    PROVE  (p * q + r) \div p = q /\ (p * q + r) % p = r
<1> DEFINE n == p * q + r
<1>1. n \in Int
    OBVIOUS
<1> HIDE DEF n
<1>2. n % p = n - p * (n \div p) /\ n \div p \in Int /\ n % p \in 0..(p - 1)
    BY <1>1, DivMod
<1>3. n = p * q + r
    BY DEF n
<1> DEFINE d == n \div p  m == n % p
<1> HIDE DEF d, m
<1>4. p * q + r = p * d + m /\ d \in Int /\ m \in 0..(p - 1)
    <2>1. m = n - p * d /\ n = p * q + r /\ d \in Int /\ m \in 0..(p - 1)
        BY <1>2, <1>3 DEF d, m
    <2> QED
        BY <2>1
<1>5. q = d /\ r = m
    BY <1>4, Digits
<1> QED
    BY <1>5 DEF d, m, n

-----------------------------------------------------------------------------
(* The whole second next to s seconds and n parts of p = q * 2h, judged by the parts in units of q. *)
LEMMA Nearest ==
    ASSUME NEW q \in Nat \ {0}, NEW h \in Nat \ {0}, NEW p \in Nat \ {0}, p = q * (2 * h),
           NEW s \in Int, NEW n \in 0..(p - 1), NEW r \in Int,
           r = IF 2 * (n \div q) >= 2 * h THEN s + 1 ELSE s
    PROVE  /\ 2 * (p * r) - p <= 2 * (p * s + n) /\ 2 * (p * s + n) < 2 * (p * r) + p
           /\ s <= r /\ r <= s + 1
<1> DEFINE c == n \div q
           m == n % q
<1>1. m = n - q * c /\ c \in Int /\ m \in 0..(q - 1) /\ n \in Int
    <2>1. n \in Int /\ q \in Nat \ {0}
        OBVIOUS
    <2> QED
        BY ONLY <2>1, DivMod
<1>2. r = IF 2 * c >= 2 * h THEN s + 1 ELSE s
    OBVIOUS
<1> HIDE DEF c, m
<1>3. q * h \in Int /\ p = 2 * (q * h) /\ q * c \in Int /\ p * s \in Int
    <2>1. q * h \in Int /\ q * c \in Int /\ p * s \in Int
        BY <1>1
    <2>2. q * (2 * h) = 2 * (q * h)
        OBVIOUS
    <2> QED
        BY <2>1, <2>2
<1>4. CASE c >= h
    <2>1. q * h <= q * c
        BY <1>1, <1>4, TimesOrder
    <2>2. r = s + 1
        BY <1>1, <1>2, <1>4
    <2>3. p * r = p * s + p
        BY <2>2
    <2> QED
        BY <1>1, <1>3, <2>1, <2>2, <2>3
<1>5. CASE c <= h - 1
    <2>1. q * c <= q * (h - 1)
        BY <1>1, <1>5, TimesOrder
    <2>2. q * (h - 1) = q * h - q
        OBVIOUS
    <2>3. r = s
        BY <1>1, <1>2, <1>5
    <2> QED
        BY <1>1, <1>3, <2>1, <2>2, <2>3
<1> QED
    BY <1>1, <1>4, <1>5

(* A second in its units, and what a stamp is. *)
LEMMA UnitsOfTime ==
    /\ NanosPerSecond \in Nat \ {0} /\ MicrosPerSecond \in Nat \ {0} /\ NanosPerMicro \in Nat \ {0}
    /\ MicrosPerMilli \in Nat \ {0} /\ MillisPerSecond \in Nat \ {0} /\ FinePerNano \in Nat \ {0}
    /\ \E h \in Nat \ {0} : MicrosPerSecond = 2 * h
    /\ NanosPerSecond = NanosPerMicro * MicrosPerSecond
    /\ NanosPerSecond = (MicrosPerMilli * NanosPerMicro) * MillisPerSecond
    /\ \A s \in Stamps : s.local \in Int /\ s.fraction \in 0..(FinePerNano * NanosPerSecond - 1)
<1>1. {FinePerNano, NanosPerMicro, MicrosPerMilli, MillisPerSecond} \subseteq Nat \ {0} /\ MicrosPerSecond % 2 = 0
    BY TimesAssumption
<1>2. MicrosPerSecond \in Nat \ {0}
    BY <1>1 DEF MicrosPerSecond
<1>3. NanosPerSecond \in Nat \ {0}
    BY <1>1, <1>2 DEF NanosPerSecond
<1>4. PICK h \in Int : MicrosPerSecond = 2 * h
    <2> DEFINE h == MicrosPerSecond \div 2
               M == MicrosPerSecond
    <2> HIDE DEF M
    <2>1. M \in Int
        BY <1>2 DEF M
    <2>2. M % 2 = M - 2 * (M \div 2) /\ M \div 2 \in Int
        BY <2>1
    <2>3. M % 2 = 0
        BY <1>1 DEF M
    <2> QED
        BY <2>1, <2>2, <2>3 DEF M
<1>5. h \in Nat \ {0}
    BY <1>2, <1>4
<1>6. NanosPerSecond = (MicrosPerMilli * NanosPerMicro) * MillisPerSecond
    BY <1>1 DEF NanosPerSecond, MicrosPerSecond
<1>7. \A s \in Stamps : s.local \in Int /\ s.fraction \in 0..(FinePerNano * NanosPerSecond - 1)
    BY TimesAssumption
<1> QED
    BY <1>1, <1>2, <1>3, <1>4, <1>5, <1>6, <1>7 DEF NanosPerSecond

(***************************************************************************)
(* A moment that is P * seconds + nanos is stored as the second next to    *)
(* it, unless the column does not reach there.                             *)
(***************************************************************************)
NextTo(second, when) ==
    /\ 2 * NanosPerSecond * second - NanosPerSecond <= 2 * when
    /\ 2 * when < 2 * NanosPerSecond * second + NanosPerSecond

Beyond(when) ==
    \/ 2 * when < 2 * NanosPerSecond * FirstStored - NanosPerSecond
    \/ 2 * when >= 2 * NanosPerSecond * LastStored + NanosPerSecond

Moment(t) == NanosPerSecond * t.seconds + t.nanos

IsTime(t) == t.seconds \in Int /\ t.nanos \in 0..(NanosPerSecond - 1)

(* The column holds a microsecond next to the moment, or the moment is beyond what a column holds. *)
LEMMA ColumnIsNext ==
    ASSUME NEW t, IsTime(t)
    PROVE  \/ \E r \in Int : Column(t) = Stored(r) /\ NextTo(r, Moment(t))
           \/ Column(t) = Lost /\ Beyond(Moment(t))
<1> DEFINE P == NanosPerSecond
           s == t.seconds
           n == t.nanos
           r == Rounded(ToSqlTime(t))
<1>1. P \in Nat \ {0} /\ s \in Int /\ n \in 0..(P - 1) /\ Moment(t) = P * s + n
    BY UnitsOfTime DEF IsTime, Moment
<1>2. r = IF 2 * (n \div NanosPerMicro) >= MicrosPerSecond THEN s + 1 ELSE s
    BY DEF Rounded, ToSqlTime
<1> HIDE DEF P, s, n, r
<1>3. r \in Int
    BY <1>1, <1>2
<1>4. /\ 2 * (P * r) - P <= 2 * (P * s + n) /\ 2 * (P * s + n) < 2 * (P * r) + P
      /\ s <= r /\ r <= s + 1
    <2>1. PICK h \in Nat \ {0} : MicrosPerSecond = 2 * h
        BY UnitsOfTime
    <2>2. P = NanosPerMicro * (2 * h) /\ NanosPerMicro \in Nat \ {0}
        BY <2>1, UnitsOfTime DEF P
    <2>3. r = IF 2 * (n \div NanosPerMicro) >= 2 * h THEN s + 1 ELSE s
        BY <1>2, <2>1
    <2> QED
        BY ONLY <1>1, <1>3, <2>1, <2>2, <2>3, Nearest
<1>5. \A x \in Int : 2 * P * x = 2 * (P * x) /\ P * x \in Int
    BY <1>1
<1>6. NextTo(r, Moment(t))
    BY <1>1, <1>3, <1>4, <1>5 DEF NextTo, P
<1>7. CASE Writable(t) /\ r \in FirstStored..LastStored
    <2>1. Column(t) = Stored(r)
        BY <1>7 DEF Column, r
    <2> QED
        BY <1>3, <1>6, <2>1
<1>8. CASE ~(Writable(t) /\ r \in FirstStored..LastStored)
    <2>1. Column(t) = Lost
        BY <1>8 DEF Column, r
    <2>2. /\ {ZERO_SECONDS, FirstStored, LastStored, LastSecond} \subseteq Int
          /\ ZERO_SECONDS < FirstStored /\ FirstStored < LastStored /\ LastStored < LastSecond
        BY TimesAssumption
    <2>3. s < ZERO_SECONDS \/ LastSecond < s \/ r < FirstStored \/ LastStored < r
        BY <1>1, <1>3, <1>8, <2>2 DEF Writable, s
    <2>4. r <= FirstStored - 1 \/ LastStored + 1 <= r
        BY <1>1, <1>3, <1>4, <2>2, <2>3
    <2>5. CASE r <= FirstStored - 1
        <3>1. P * r <= P * (FirstStored - 1) /\ P * (FirstStored - 1) = P * FirstStored - P
            BY <1>1, <1>3, <2>2, <2>5, TimesOrder
        <3> QED
            BY <1>1, <1>3, <1>4, <1>5, <2>1, <2>2, <3>1 DEF Beyond, P
    <2>6. CASE LastStored + 1 <= r
        <3>1. P * (LastStored + 1) <= P * r /\ P * (LastStored + 1) = P * LastStored + P
            BY <1>1, <1>3, <2>2, <2>6, TimesOrder
        <3> QED
            BY <1>1, <1>3, <1>4, <1>5, <2>1, <2>2, <3>1 DEF Beyond, P
    <2> QED
        BY <2>4, <2>5, <2>6
<1> QED
    BY <1>7, <1>8

-----------------------------------------------------------------------------
(* Rewriting a zone leaves the offset alone, and rewriting it again changes nothing. *)
LEMMA ZoneStays ==
    ASSUME NEW z, z.hours \in Nat, z.minutes \in Nat
    PROVE  /\ Offset(z) \in Nat /\ Offset(Recomputed(z)) = Offset(z)
           /\ Recomputed(Recomputed(z)) = Recomputed(z)
           /\ Offset(z) = 0 \/ Recomputed(z).sign = z.sign
<1> DEFINE H == MinutesPerHour
           S == SecondsPerMinute
           k == z.hours * H + z.minutes
           off == Offset(z)
<1>1. H \in Nat \ {0} /\ S \in Nat \ {0}
    BY TimesAssumption
<1>2. z.hours * H \in Nat
    BY <1>1
<1>3. off = k * S /\ k \in Nat
    BY <1>2 DEF Offset
<1> HIDE DEF H, S, k
<1>4. off \in Nat
    BY <1>1, <1>3
<1> HIDE DEF off
<1> DEFINE d == k \div H
           m == k % H
<1>5. m = k - H * d /\ d \in Int /\ m \in 0..(H - 1)
    BY <1>1, <1>3, DivMod
<1> HIDE DEF d, m
<1>6. off = (H * S) * d + m * S /\ H * S \in Nat \ {0}
    <2>1. k = H * d + m
        BY <1>1, <1>3, <1>5
    <2>2. H * d \in Int /\ m \in Int
        BY <1>1, <1>5
    <2>3. k * S = (H * d) * S + m * S
        BY <1>1, <2>1, <2>2
    <2>4. (H * d) * S = (H * S) * d
        BY <1>1, <1>5
    <2>5. H * S \in Nat \ {0}
        BY <1>1
    <2> QED
        BY <1>3, <2>3, <2>4, <2>5
<1>7. m * S \in 0..(H * S - 1)
    <2>1. S * m <= S * (H - 1) /\ S * 0 <= S * m
        BY <1>1, <1>5, TimesOrder
    <2>2. S * (H - 1) = S * H - S
        BY <1>1
    <2>3. S * m = m * S /\ S * H = H * S /\ m * S \in Int /\ H * S \in Int
        BY <1>1, <1>5
    <2> QED
        BY <1>1, <2>1, <2>2, <2>3
<1>8. off \div (H * S) = d /\ off % (H * S) = m * S
    <2> DEFINE p == H * S  r == m * S
    <2>1. p \in Nat \ {0} /\ d \in Int /\ r \in 0..(p - 1) /\ off = p * d + r
        BY <1>5, <1>6, <1>7
    <2> HIDE DEF p, r
    <2>2. off \div p = d /\ off % p = r
        BY <2>1, DivOf
    <2> QED
        BY <2>2 DEF p, r
<1>9. (m * S) \div S = m
    <2>1. 0 \in 0..(S - 1) /\ m \in Int
        BY <1>1, <1>5
    <2>2. (S * m + 0) \div S = m
        BY <1>1, <2>1, DivOf
    <2>3. S * m + 0 = m * S
        BY <1>1, <2>1
    <2> QED
        BY <2>2, <2>3
<1>10. Recomputed(z) = IF off = 0 THEN Z ELSE [sign |-> z.sign, hours |-> d, minutes |-> m]
    <2>1. off \div (MinutesPerHour * SecondsPerMinute) = d /\ (off % (MinutesPerHour * SecondsPerMinute)) \div SecondsPerMinute = m
        BY <1>8, <1>9 DEF H, S
    <2>2. Offset(z) = off
        BY DEF off
    <2> QED
        BY ONLY <2>1, <2>2, Zenon DEF Recomputed
<1>11. Offset([sign |-> z.sign, hours |-> d, minutes |-> m]) = off
    <2>1. (d * H + m) * S = off
        <3>1. d * H + m = k
            BY <1>1, <1>3, <1>5
        <3> QED
            BY <1>3, <3>1
    <2> QED
        BY <2>1 DEF Offset, H, S
<1>12. CASE off = 0
    <2>1. Recomputed(z) = Z
        BY <1>10, <1>12
    <2>2. Offset(Z) = 0
        BY <1>1 DEF Offset, Z, H, S
    <2>3. Recomputed(Z) = Z
        BY <2>2 DEF Recomputed
    <2> QED
        BY <1>4, <1>12, <2>1, <2>2, <2>3 DEF off
<1>13. CASE off # 0
    <2> DEFINE y == [sign |-> z.sign, hours |-> d, minutes |-> m]
    <2>1. Recomputed(z) = y /\ Offset(y) = off /\ y.sign = z.sign
        BY <1>10, <1>11, <1>13
    <2>2. Recomputed(y) = y
        <3>1. off \div (MinutesPerHour * SecondsPerMinute) = d /\ (off % (MinutesPerHour * SecondsPerMinute)) \div SecondsPerMinute = m
            BY <1>8, <1>9 DEF H, S
        <3> HIDE DEF y
        <3>2. Recomputed(y) = [sign |-> y.sign, hours |-> d, minutes |-> m]
            BY <1>13, <2>1, <3>1, Zenon DEF Recomputed
        <3> QED
            BY <2>1, <3>2, Zenon DEF y
    <2> QED
        BY <1>4, <2>1, <2>2 DEF off
<1> QED
    BY <1>12, <1>13

(* timeInstant is the moment that the text writes. *)
LEMMA TextIsMoment ==
    ASSUME NEW text, text.local \in Int, text.fraction \in 0..(FinePerNano * NanosPerSecond - 1),
           text.zone.hours \in Nat, text.zone.minutes \in Nat
    PROVE  IsTime(TimeInstant(text)) /\ Moment(TimeInstant(text)) = Written(text) /\ Written(text) \in Int
<1> DEFINE P == NanosPerSecond
           F == FinePerNano
           off == Offset(text.zone)
           n == text.fraction \div F
           l == text.local
<1>1. P \in Nat \ {0} /\ F \in Nat \ {0} /\ l \in Int
    BY UnitsOfTime
<1>2. off \in Nat
    BY ZoneStays
<1>3. n \in 0..(P - 1)
    <2> DEFINE f == text.fraction
    <2>1. f \in Int /\ 0 <= f /\ f < F * P
        <3>1. F * P \in Int
            BY <1>1
        <3> QED
            BY <3>1
    <2> HIDE DEF f, F, P
    <2>2. f % F = f - F * (f \div F) /\ f \div F \in Int /\ f % F \in 0..(F - 1)
        BY <1>1, <2>1, DivMod
    <2> DEFINE d == f \div F  m == f % F
    <2> HIDE DEF d, m
    <2>3. m = f - F * d /\ d \in Int /\ m \in 0..(F - 1)
        BY <2>2 DEF d, m
    <2>4. d < P
        <3>1. F * d \in Int /\ F * P \in Int
            BY <1>1, <2>3
        <3>2. F * d + 0 < F * P /\ 0 \in 0..(F - 1)
            BY <1>1, <2>1, <2>3, <3>1
        <3> QED
            BY <1>1, <2>3, <3>2, Digits
    <2>5. d >= 0
        <3>1. CASE d <= 0 - 1
            <4>1. F * d <= F * (0 - 1) /\ F * (0 - 1) = 0 - F
                BY <1>1, <2>3, <3>1, TimesOrder
            <4>2. F * d \in Int
                BY <1>1, <2>3
            <4> QED
                BY <1>1, <2>1, <2>3, <4>1, <4>2
        <3> QED
            BY <2>3, <3>1
    <2> QED
        BY <1>1, <2>3, <2>4, <2>5 DEF d, f
<1> DEFINE t == TimeInstant(text)
<1>4. t.seconds = (IF text.zone.sign = "-" THEN l + off ELSE l - off) /\ t.nanos = n
    BY <1>1, <1>2 DEF TimeInstant
<1>5. Written(text) = IF text.zone.sign = "-" THEN (P * l + n) + P * off ELSE (P * l + n) - P * off
    BY DEF Written
<1> HIDE DEF P, F, off, n, l, t
<1>6. P * (l + off) = P * l + P * off /\ P * (l - off) = P * l - P * off /\ P * l \in Int /\ P * off \in Int
    BY <1>1, <1>2, TimesPlus
<1>7. t.seconds \in Int /\ P * t.seconds + t.nanos = Written(text) /\ Written(text) \in Int
    BY <1>1, <1>2, <1>3, <1>4, <1>5, <1>6
<1> QED
    BY <1>3, <1>4, <1>7 DEF IsTime, Moment, P, t

(* normaliseTime leaves the moment alone, and normalising again changes nothing. *)
LEMMA StampStays ==
    ASSUME NEW s \in Stamps
    PROVE  LET n == NormaliseTime(s) IN
           /\ IsTime(TimeInstant(n.text)) /\ Moment(TimeInstant(n.text)) = Written(s) /\ Written(s) \in Int
           /\ n.encodable => Written(n.text) = Written(s) /\ NormaliseTime(n.text) = n
<1>1. /\ s.local \in Int /\ s.fraction \in 0..(FinePerNano * NanosPerSecond - 1)
      /\ s.zone.hours \in Nat /\ s.zone.minutes \in Nat
    <2>1. HoursPerDay \in Nat /\ MinutesPerHour \in Nat /\ s.zone.hours \in 0..HoursPerDay /\ s.zone.minutes \in 0..MinutesPerHour
        BY TimesAssumption
    <2> QED
        BY <2>1, UnitsOfTime
<1>2. IsTime(TimeInstant(s)) /\ Moment(TimeInstant(s)) = Written(s) /\ Written(s) \in Int
    BY <1>1, TextIsMoment
<1>3. CASE Offset(s.zone) >= Day
    <2>1. NormaliseTime(s).text = s /\ NormaliseTime(s).encodable = FALSE
        BY <1>3 DEF NormaliseTime
    <2> QED
        BY <1>2, <2>1
<1>4. CASE ~(Offset(s.zone) >= Day)
    <2> DEFINE f == s.fraction
               x == f \div FinePerNano
               z == Recomputed(s.zone)
               y == [local |-> s.local, fraction |-> FinePerNano * x, zone |-> z]
    <2>1. NormaliseTime(s) = [encodable |-> TRUE, text |-> y]
        BY <1>4, Zenon DEF NormaliseTime
    <2>2. /\ Offset(s.zone) \in Nat /\ Offset(z) = Offset(s.zone) /\ Recomputed(z) = z
          /\ Offset(s.zone) = 0 \/ z.sign = s.zone.sign
        BY <1>1, ZoneStays
    <2>3. (FinePerNano * x) \div FinePerNano = x
        <3>1. FinePerNano \in Nat \ {0} /\ f \in Int
            BY <1>1, UnitsOfTime
        <3>2. x \in Int
            BY <3>1, DivMod
        <3> HIDE DEF x
        <3>3. (FinePerNano * x + 0) \div FinePerNano = x /\ 0 \in 0..(FinePerNano - 1)
            BY <3>1, <3>2, DivOf
        <3> QED
            BY <3>1, <3>2, <3>3
    <2> HIDE DEF x, z
    <2>4. y.local = s.local /\ y.fraction \div FinePerNano = x /\ y.zone = z
        BY <2>3
    <2> HIDE DEF y
    <2>5. TimeInstant(y) = TimeInstant(s)
        <3>1. TimeInstant(y).nanos = x
            BY <2>4 DEF TimeInstant
        <3>2. (IF z.sign = "-" THEN 0 - Offset(z) ELSE Offset(z)) = IF s.zone.sign = "-" THEN 0 - Offset(s.zone) ELSE Offset(s.zone)
            BY <2>2
        <3>3. s.fraction \div FinePerNano = x
            BY DEF x
        <3> QED
            BY <2>4, <3>2, <3>3, Zenon DEF TimeInstant
    <2>6. Written(y) = Written(s)
        <3>1. s.fraction \div FinePerNano = x
            BY DEF x
        <3> DEFINE here == NanosPerSecond * s.local + x
                   off == NanosPerSecond * Offset(s.zone)
        <3>2. Written(y) = (IF z.sign = "-" THEN here + off ELSE here - off) /\ Written(s) = IF s.zone.sign = "-" THEN here + off ELSE here - off
            BY <2>2, <2>4, <3>1 DEF Written
        <3>3. NanosPerSecond \in Nat \ {0} /\ s.local \in Int /\ x \in Int
            <4>1. FinePerNano \in Nat \ {0} /\ f \in Int
                BY <1>1, UnitsOfTime
            <4> QED
                BY <1>1, <4>1, UnitsOfTime, DivMod DEF x
        <3>4. here \in Int /\ (Offset(s.zone) = 0 => off = 0) /\ off \in Int
            BY <2>2, <3>3
        <3> HIDE DEF here, off
        <3> QED
            BY <2>2, <3>2, <3>4
    <2>7. NormaliseTime(y) = NormaliseTime(s)
        <3>1. NormaliseTime(y) = [encodable |-> TRUE, text |-> [local |-> y.local, fraction |-> FinePerNano * (y.fraction \div FinePerNano), zone |-> Recomputed(y.zone)]]
            <4>1. ~(Offset(y.zone) >= Day)
                BY <1>4, <2>2, <2>4
            <4> QED
                BY <4>1, Zenon DEF NormaliseTime
        <3>2. y = [local |-> s.local, fraction |-> FinePerNano * x, zone |-> z]
            BY DEF y
        <3> QED
            BY <2>1, <2>2, <2>4, <3>1, <3>2, Zenon
    <2>8. NormaliseTime(s).text = y
        BY <2>1
    <2> QED
        BY <1>2, <2>5, <2>6, <2>7, <2>8
<1> QED
    BY <1>3, <1>4

(* instantOfDate is the clock's reading. *)
LEMMA ClockIsMoment ==
    ASSUME NEW ms \in Clocks
    PROVE  /\ IsTime(InstantOfDate(ms)) /\ Moment(InstantOfDate(ms)) = ms * MicrosPerMilli * NanosPerMicro
           /\ ms * MicrosPerMilli * NanosPerMicro \in Int
<1> DEFINE K == MillisPerSecond
           u == MicrosPerMilli * NanosPerMicro
           d == ms \div K
           m == ms % K
<1>1. ms \in Int /\ K \in Nat \ {0} /\ MicrosPerMilli \in Nat \ {0} /\ NanosPerMicro \in Nat \ {0}
    BY TimesAssumption
<1>2. u \in Nat \ {0} /\ NanosPerSecond = u * K
    BY <1>1, UnitsOfTime
<1>3. InstantOfDate(ms).seconds = d /\ InstantOfDate(ms).nanos = m * MicrosPerMilli * NanosPerMicro
    BY DEF InstantOfDate
<1> HIDE DEF K
<1>4. m = ms - K * d /\ d \in Int /\ m \in 0..(K - 1)
    BY <1>1, DivMod
<1> HIDE DEF d, m
<1>5. m * MicrosPerMilli * NanosPerMicro = u * m /\ ms * MicrosPerMilli * NanosPerMicro = u * ms
    BY <1>1, <1>4
<1> HIDE DEF u
<1>6. u * m \in 0..(u * K - 1)
    <2>1. u * m <= u * (K - 1) /\ u * 0 <= u * m
        BY <1>1, <1>2, <1>4, TimesOrder
    <2>2. u * (K - 1) = u * K - u /\ u * m \in Int /\ u * K \in Int
        BY <1>1, <1>2, <1>4
    <2> QED
        BY <1>2, <2>1, <2>2
<1>7. (u * K) * d + u * m = u * ms /\ u * ms \in Int
    <2>1. (u * K) * d = u * (K * d) /\ K * d \in Int
        BY <1>1, <1>2, <1>4
    <2>2. u * (K * d) + u * m = u * (K * d + m)
        BY <1>2, <1>4, <2>1, TimesPlus
    <2>3. K * d + m = ms
        BY <1>1, <1>4, <2>1
    <2> QED
        BY <1>1, <1>2, <2>1, <2>2, <2>3
<1> QED
    BY <1>2, <1>3, <1>4, <1>5, <1>6, <1>7 DEF IsTime, Moment

-----------------------------------------------------------------------------
(* The time that is written of an event. *)
Told(e) == IF what[e] = "trade" THEN OccurredAt(NormaliseTime(stamp[e]), clock[e]) ELSE InstantOfDate(clock[e])

TimesTypeOK ==
    /\ what \in [Events -> {"trade", "contract", "delivery"}]
    /\ stamp \in [Events -> Stamps] /\ clock \in [Events -> Clocks]
    /\ DOMAIN field = Events /\ DOMAIN column = Events

(* A field holds what was decoded of the stamp, and a column the time told, but for a contract that cannot be written. *)
WrittenAsTold ==
    \A e \in Events :
        /\ field[e] \in {Unread, NormaliseTime(stamp[e])}
        /\ \/ column[e] \in {Unwritten, Column(Told(e))}
           \/ column[e] = Lost /\ what[e] = "contract" /\ ~field[e].encodable /\ field[e] # Unread

TimesInv == TimesTypeOK /\ WrittenAsTold

(* The invariant holds before anything is read. *)
LEMMA TimesInitInv == TimesInit => TimesInv
    BY DEF TimesInit, TimesInv, TimesTypeOK, WrittenAsTold

(* No step of a moment on its way breaks the invariant. *)
LEMMA TimesNextInv == TimesInv /\ [TimesNext]_timesVars => TimesInv'
<1> SUFFICES ASSUME TimesInv, [TimesNext]_timesVars PROVE TimesInv'
    OBVIOUS
<1> USE DEF TimesInv
<1>1. ASSUME NEW e \in Events, DecodeTime(e)
      PROVE  TimesInv'
    <2>1. TimesTypeOK' /\ UNCHANGED <<what, stamp, clock, column>>
        BY <1>1 DEF DecodeTime, TimesTypeOK
    <2>2. field'[e] = NormaliseTime(stamp[e]) /\ field[e] = Unread /\ \A d \in Events \ {e} : field'[d] = field[d]
        BY <1>1 DEF DecodeTime, TimesTypeOK
    <2>3. \A d \in Events : Told(d)' = Told(d)
        BY <2>1 DEF Told
    <2> QED
        BY <2>1, <2>2, <2>3 DEF WrittenAsTold
<1>2. ASSUME NEW e \in Events, PersistTrade(e) \/ PersistContract(e) \/ RecordDelivery(e)
      PROVE  TimesInv'
    <2>1. what' = what /\ stamp' = stamp /\ clock' = clock /\ field' = field
        BY <1>2 DEF PersistTrade, PersistContract, RecordDelivery
    <2>2. DOMAIN column' = Events /\ \A d \in Events \ {e} : column'[d] = column[d]
        BY <1>2 DEF PersistTrade, PersistContract, RecordDelivery, TimesTypeOK
    <2>3. \/ column'[e] = Column(Told(e))
          \/ column'[e] = Lost /\ what[e] = "contract" /\ ~field[e].encodable /\ field[e] # Unread
        <3>1. CASE PersistTrade(e)
            <4>1. field[e] = NormaliseTime(stamp[e]) /\ what[e] = "trade"
                BY <3>1 DEF PersistTrade, WrittenAsTold
            <4>2. Told(e) = OccurredAt(field[e], clock[e])
                BY <4>1 DEF Told
            <4> QED
                BY <3>1, <4>2 DEF PersistTrade, TimesTypeOK
        <3>2. CASE PersistContract(e)
            <4>1. Told(e) = InstantOfDate(clock[e]) /\ what[e] = "contract" /\ field[e] # Unread
                BY <3>2 DEF Told, PersistContract
            <4> QED
                BY <3>2, <4>1 DEF PersistContract, TimesTypeOK
        <3>3. CASE RecordDelivery(e)
            <4>1. Told(e) = InstantOfDate(clock[e])
                BY <3>3 DEF Told, RecordDelivery
            <4> QED
                BY <3>3, <4>1 DEF RecordDelivery, TimesTypeOK
        <3> QED
            BY <1>2, <3>1, <3>2, <3>3
    <2>4. TimesTypeOK'
        BY <2>1, <2>2 DEF TimesTypeOK
    <2>5. \A d \in Events : Told(d)' = Told(d)
        BY <2>1 DEF Told
    <2> QED
        BY <2>1, <2>2, <2>3, <2>4, <2>5 DEF WrittenAsTold
<1>6. CASE UNCHANGED timesVars
    <2>1. TimesTypeOK'
        BY <1>6 DEF timesVars, TimesTypeOK
    <2>2. \A d \in Events : Told(d)' = Told(d)
        BY <1>6 DEF timesVars, Told
    <2> QED
        BY <1>6, <2>1, <2>2 DEF timesVars, WrittenAsTold
<1> QED
    BY <1>1, <1>2, <1>6 DEF TimesNext

(* The time told of an event is the moment it was. *)
LEMMA ToldIsWhen ==
    ASSUME TimesTypeOK, NEW e \in Events
    PROVE  IsTime(Told(e)) /\ Moment(Told(e)) = When(e) /\ When(e) \in Int
<1>1. stamp[e] \in Stamps /\ clock[e] \in Clocks
    BY DEF TimesTypeOK
<1>2. /\ IsTime(InstantOfDate(clock[e])) /\ Moment(InstantOfDate(clock[e])) = clock[e] * MicrosPerMilli * NanosPerMicro
      /\ clock[e] * MicrosPerMilli * NanosPerMicro \in Int
    BY <1>1, ClockIsMoment
<1>3. CASE what[e] # "trade"
    BY <1>2, <1>3 DEF Told, When
<1>4. CASE what[e] = "trade"
    <2> DEFINE t == TimeInstant(NormaliseTime(stamp[e]).text)
    <2>1. IsTime(t) /\ Moment(t) = Written(stamp[e]) /\ Written(stamp[e]) \in Int
        BY <1>1, StampStays
    <2>2. IsZeroTime(t) <=> Missing(e)
        <3>1. NanosPerSecond \in Nat \ {0} /\ ZERO_SECONDS \in Int
            BY UnitsOfTime, TimesAssumption
        <3>2. /\ t.seconds \in Int /\ t.nanos \in 0..(NanosPerSecond - 1) /\ 0 \in 0..(NanosPerSecond - 1)
              /\ NanosPerSecond * t.seconds + t.nanos = Written(stamp[e])
            BY <2>1, <3>1 DEF IsTime, Moment
        <3> HIDE DEF t
        <3>3. NanosPerSecond * ZERO_SECONDS \in Int
            BY <3>1
        <3>4. IsZeroTime(t) => Missing(e)
            BY <3>2, <3>3 DEF IsZeroTime, Missing
        <3>5. ASSUME Missing(e) PROVE IsZeroTime(t)
            <4>1. NanosPerSecond * t.seconds + t.nanos = NanosPerSecond * ZERO_SECONDS + 0
                BY <3>2, <3>3, <3>5 DEF Missing
            <4> DEFINE P == NanosPerSecond
                       a == t.seconds
                       i == t.nanos
            <4>2. P \in Nat \ {0} /\ a \in Int /\ i \in 0..(P - 1) /\ ZERO_SECONDS \in Int /\ 0 \in 0..(P - 1) /\ P * a + i = P * ZERO_SECONDS + 0
                BY <3>1, <3>2, <4>1
            <4> HIDE DEF P, a, i
            <4>3. a = ZERO_SECONDS /\ i = 0
                BY ONLY <4>2, Digits
            <4> QED
                BY <4>3 DEF IsZeroTime, a, i
        <3> QED
            BY <3>4, <3>5
    <2>3. Told(e) = IF IsZeroTime(t) THEN InstantOfDate(clock[e]) ELSE t
        BY <1>4 DEF Told, OccurredAt
    <2> HIDE DEF t
    <2> QED
        BY <1>2, <1>4, <2>1, <2>2, <2>3 DEF When
<1> QED
    BY <1>3, <1>4

(* From the time told to what is listed. *)
LEMMA TimesAreKept == TimesInv => HistoryKeepsTime
<1> SUFFICES ASSUME TimesInv PROVE HistoryKeepsTime
    OBVIOUS
<1> DEFINE P == NanosPerSecond
<1>1. P \in Nat \ {0}
    BY UnitsOfTime
<1>2. ASSUME NEW e \in Events
      PROVE  /\ IsTime(Told(e)) /\ Moment(Told(e)) = When(e) /\ When(e) \in Int
             /\ field[e] \in {Unread, NormaliseTime(stamp[e])} /\ stamp[e] \in Stamps
             /\ \/ column[e] \in {Unwritten, Column(Told(e))}
                \/ column[e] = Lost /\ what[e] = "contract" /\ ~field[e].encodable
    BY ToldIsWhen DEF TimesInv, WrittenAsTold, TimesTypeOK
<1>3. ASSUME NEW e \in Events, column[e].state = "stored"
      PROVE  column[e].second \in Int /\ NextTo(column[e].second, When(e))
    <2>1. column[e] = Column(Told(e)) /\ column[e] # Lost
        BY <1>2, <1>3 DEF Unwritten, Lost
    <2>2. PICK r \in Int : column[e] = Stored(r) /\ NextTo(r, When(e))
        BY <1>2, <2>1, ColumnIsNext
    <2> QED
        BY <2>2 DEF Stored
<1>4. ASSUME NEW e \in Events, column[e] = Lost
      PROVE  (what[e] = "contract" /\ ~field[e].encodable) \/ Beyond(When(e))
    <2>1. CASE column[e] = Column(Told(e))
        BY <1>2, <1>4, <2>1, ColumnIsNext DEF Lost, Stored
    <2>2. column[e] # Unwritten
        BY <1>4 DEF Unwritten, Lost
    <2> QED
        BY <1>2, <2>1, <2>2
<1>5. ListedAsTold
    <2> SUFFICES ASSUME NEW e \in Events
                 PROVE  /\ field[e].encodable => Written(field[e].text) = Written(stamp[e]) /\ NormaliseTime(field[e].text) = field[e]
                        /\ column[e].state = "stored" =>
                               2 * NanosPerSecond * column[e].second - 2 * When(e) \in (0 - NanosPerSecond)..NanosPerSecond
                        /\ column[e] = Lost =>
                               \/ what[e] = "contract" /\ ~field[e].encodable
                               \/ 2 * When(e) < 2 * NanosPerSecond * FirstStored - NanosPerSecond
                               \/ 2 * When(e) >= 2 * NanosPerSecond * LastStored + NanosPerSecond
        BY Zenon DEF ListedAsTold
    <2>1. field[e].encodable => Written(field[e].text) = Written(stamp[e]) /\ NormaliseTime(field[e].text) = field[e]
        <3>1. CASE field[e] = Unread
            <4>1. Unread.encodable = FALSE
                BY Zenon DEF Unread
            <4> QED
                BY <3>1, <4>1
        <3>2. CASE field[e] = NormaliseTime(stamp[e])
            <4>1. NormaliseTime(stamp[e]).encodable =>
                      /\ Written(NormaliseTime(stamp[e]).text) = Written(stamp[e])
                      /\ NormaliseTime(NormaliseTime(stamp[e]).text) = NormaliseTime(stamp[e])
                BY <1>2, StampStays
            <4> QED
                BY <3>2, <4>1, Zenon
        <3> QED
            BY <1>2, <3>1, <3>2
    <2>2. ASSUME column[e].state = "stored"
          PROVE  2 * NanosPerSecond * column[e].second - 2 * When(e) \in (0 - NanosPerSecond)..NanosPerSecond
        <3>1. 2 * NanosPerSecond * column[e].second \in Int
            BY <1>1, <1>3, <2>2
        <3> QED
            BY <1>1, <1>2, <1>3, <2>2, <3>1 DEF NextTo
    <2> QED
        BY <1>4, <2>1, <2>2 DEF Beyond
<1>6. ListedInOrder
    <2> SUFFICES ASSUME NEW d \in Events, NEW e \in Events, column[d].state = "stored", column[e].state = "stored", When(d) <= When(e)
                 PROVE  column[d].second <= column[e].second
        BY DEF ListedInOrder
    <2> DEFINE i == column[d].second
               j == column[e].second
    <2>1. i \in Int /\ j \in Int /\ NextTo(i, When(d)) /\ NextTo(j, When(e)) /\ When(d) \in Int /\ When(e) \in Int
        BY <1>2, <1>3
    <2> HIDE DEF P, i, j
    <2>2. CASE j + 1 <= i
        <3>1. P * (j + 1) <= P * i /\ P * (j + 1) = P * j + P /\ P * i \in Int /\ P * j \in Int
            BY <1>1, <2>1, <2>2, TimesOrder
        <3>2. 2 * P * i = 2 * (P * i) /\ 2 * P * j = 2 * (P * j)
            BY <1>1, <2>1
        <3> QED
            BY <1>1, <2>1, <3>1, <3>2 DEF NextTo, P
    <2> QED
        BY <2>1, <2>2 DEF i, j
<1> QED
    BY <1>5, <1>6 DEF HistoryKeepsTime

(***************************************************************************)
(* Whatever the zones, the fractions and the units: the history lists an   *)
(* event at the second next to the moment the caller was told, in order,   *)
(* and loses none but what the column cannot hold and a contract that      *)
(* cannot be written.                                                      *)
(***************************************************************************)
THEOREM TimesAreAsTold == TimesSpec => []HistoryKeepsTime
<1>1. TimesInit => TimesInv
    BY TimesInitInv
<1>2. TimesInv /\ [TimesNext]_timesVars => TimesInv'
    BY TimesNextInv
<1>3. TimesInv => HistoryKeepsTime
    BY TimesAreKept
<1> QED
    BY <1>1, <1>2, <1>3, PTL DEF TimesSpec

-----------------------------------------------------------------------------
(* The least of a set of natural numbers; induction on them. *)
LEMMA LeastNatural ==
    ASSUME NEW T \in SUBSET Nat, T # {}
    PROVE  \E n \in T : \A k \in T : n <= k
<1> DEFINE Less == {p \in Nat \X Nat : p[1] < p[2]}
<1>1. Less = OpToRel(<, Nat)
    BY DEF OpToRel
<1>2. IsWellFoundedOn(Less, Nat)
    BY <1>1, NatLessThanWellFounded
<1> HIDE DEF Less
<1>3. PICK n \in T : \A k \in T : ~(<<k, n>> \in Less)
    BY <1>2, WFMin
<1>4. \A k \in T : ~(k < n)
    BY <1>3 DEF Less
<1> QED
    BY <1>4

(* Induction on the natural numbers, for a set of them. *)
LEMMA Induction ==
    ASSUME NEW T \in SUBSET Nat, 0 \in T, \A n \in T : n + 1 \in T
    PROVE  T = Nat
<1> SUFFICES ASSUME Nat \ T # {} PROVE FALSE
    OBVIOUS
<1>1. PICK m \in Nat \ T : \A k \in Nat \ T : m <= k
    <2>1. Nat \ T \in SUBSET Nat
        OBVIOUS
    <2> QED
        BY <2>1, LeastNatural
<1>2. m # 0 /\ m - 1 \in Nat
    BY <1>1
<1>3. m - 1 \in T
    BY <1>1, <1>2
<1>4. (m - 1) + 1 \in T
    BY <1>3
<1> QED
    BY <1>1, <1>2, <1>4

-----------------------------------------------------------------------------
(* g[0] .. g[n]: the value a, and what the functions W[1] .. W[n] make of it in turn. *)
Recurs(g, X, W, a, n) == g \in [0..n -> X] /\ g[0] = a /\ \A i \in 1..n : g[i] = W[i][g[i - 1]]

(* There is such a g. *)
LEMMA Recursion ==
    ASSUME NEW X, NEW n \in Nat, NEW W \in [1..n -> [X -> X]], NEW a \in X
    PROVE  \E g : Recurs(g, X, W, a, n)
<1> DEFINE Q(k) == \E g \in [0..k -> X] : g[0] = a /\ \A i \in 1..k : g[i] = W[i][g[i - 1]]
           T == {k \in Nat : k <= n => Q(k)}
<1>1. 0 \in T
    <2> DEFINE g == [i \in 0..0 |-> a]
    <2>1. g \in [0..0 -> X] /\ g[0] = a /\ \A i \in 1..0 : g[i] = W[i][g[i - 1]]
        OBVIOUS
    <2> HIDE DEF g
    <2> QED
        BY <2>1
<1>2. ASSUME NEW k \in T
      PROVE  k + 1 \in T
    <2> SUFFICES ASSUME k + 1 <= n PROVE Q(k + 1)
        <3> HIDE DEF Q
        <3> QED
            OBVIOUS
    <2>1. PICK g \in [0..k -> X] : g[0] = a /\ \A i \in 1..k : g[i] = W[i][g[i - 1]]
        OBVIOUS
    <2> DEFINE h == [i \in 0..(k + 1) |-> IF i <= k THEN g[i] ELSE W[k + 1][g[k]]]
    <2>2. h \in [0..(k + 1) -> X] /\ h[0] = a
        <3>1. W[k + 1] \in [X -> X] /\ g[k] \in X
            OBVIOUS
        <3> QED
            BY <2>1, <3>1
    <2>3. ASSUME NEW i \in 1..(k + 1)
          PROVE  h[i] = W[i][h[i - 1]]
        <3>1. CASE i <= k
            BY <2>1, <3>1
        <3>2. CASE i = k + 1
            BY <2>1, <3>2
        <3> QED
            BY <3>1, <3>2
    <2> HIDE DEF h
    <2> QED
        BY <2>2, <2>3
<1>3. T = Nat
    <2> HIDE DEF T
    <2>1. T \in SUBSET Nat
        BY DEF T
    <2> QED
        BY <1>1, <1>2, <2>1, Induction
<1>4. PICK g \in [0..n -> X] : g[0] = a /\ \A i \in 1..n : g[i] = W[i][g[i - 1]]
    BY <1>3
<1>5. Recurs(g, X, W, a, n)
    BY <1>4 DEF Recurs
<1> QED
    BY <1>5

(* Sequences at their ends. *)
LEMMA EndsOf ==
    ASSUME NEW S, NEW s \in Seq(S), NEW x \in S
    PROVE  /\ Append(s, x) \in Seq(S) /\ Len(Append(s, x)) = Len(s) + 1
           /\ Append(s, x)[Len(s) + 1] = x /\ \A i \in 1..Len(s) : Append(s, x)[i] = s[i]
           /\ Front(Append(s, x)) = s /\ Last(Append(s, x)) = x /\ Append(s, x) # <<>>
           /\ s # <<>> => Front(s) \in Seq(S) /\ Last(s) \in S /\ Len(Front(s)) = Len(s) - 1 /\ \A i \in 1..(Len(s) - 1) : Front(s)[i] = s[i]
<1>1. Append(s, x) \in Seq(S) /\ Len(Append(s, x)) = Len(s) + 1
    OBVIOUS
<1>2. Append(s, x)[Len(s) + 1] = x /\ \A i \in 1..Len(s) : Append(s, x)[i] = s[i]
    OBVIOUS
<1>3. Front(Append(s, x)) = s
    BY DEF Front
<1>4. Last(Append(s, x)) = x
    BY <1>1, <1>2 DEF Last
<1>5. Append(s, x) # <<>>
    <2> DEFINE u == Append(s, x)
    <2>1. Len(u) = Len(s) + 1 /\ Len(s) \in Nat
        BY <1>1
    <2> HIDE DEF u
    <2>2. u # <<>>
        BY <2>1
    <2> QED
        BY <2>2 DEF u
<1>6. ASSUME s # <<>> PROVE Front(s) \in Seq(S) /\ Last(s) \in S /\ Len(Front(s)) = Len(s) - 1 /\ \A i \in 1..(Len(s) - 1) : Front(s)[i] = s[i]
    <2>1. Len(s) \in Nat \ {0}
        BY <1>6
    <2>2. Last(s) \in S
        BY <2>1 DEF Last
    <2> DEFINE n == Len(s) - 1
    <2>3. n \in Nat /\ n <= Len(s)
        BY <2>1
    <2> HIDE DEF n
    <2>4. SubSeq(s, 1, n) \in Seq(S) /\ Len(SubSeq(s, 1, n)) = n /\ \A i \in 1..n : SubSeq(s, 1, n)[i] = s[i]
        BY <2>3
    <2> QED
        BY <2>2, <2>4 DEF Front, n
<1> QED
    BY <1>1, <1>2, <1>3, <1>4, <1>5, <1>6

-----------------------------------------------------------------------------

(* Whatever is computed step by step in that way stays in X. *)
LEMMA Unfolds ==
    ASSUME NEW X, NEW n \in Nat, NEW W \in [1..n -> [X -> X]], NEW a \in X,
           NEW r, r = [k \in 0..n |-> r[k]], r[0] = a, \A k \in 1..n : r[k - 1] \in X => r[k] = W[k][r[k - 1]]
    PROVE  Recurs(r, X, W, a, n)
<1> DEFINE T == {k \in Nat : k <= n => r[k] \in X}
<1>1. 0 \in T
    OBVIOUS
<1>2. ASSUME NEW k \in T
      PROVE  k + 1 \in T
    <2> SUFFICES ASSUME k + 1 <= n PROVE r[k + 1] \in X
        OBVIOUS
    <2>1. r[k] \in X /\ k + 1 \in 1..n /\ (k + 1) - 1 = k
        OBVIOUS
    <2>2. r[k + 1] = W[k + 1][r[k]]
        BY <2>1
    <2>3. W[k + 1] \in [X -> X]
        BY <2>1
    <2> QED
        BY <2>1, <2>2, <2>3
<1>3. T = Nat
    <2> HIDE DEF T
    <2>1. T \in SUBSET Nat
        BY DEF T
    <2> QED
        BY <1>1, <1>2, <2>1, Induction
<1>4. ASSUME NEW k \in 0..n
      PROVE  r[k] \in X
    <2>1. k \in T
        <3> HIDE DEF T
        <3> QED
            BY <1>3
    <2> QED
        BY <2>1
<1>5. r \in [0..n -> X]
    <2>1. r = [k \in 0..n |-> r[k]]
        OBVIOUS
    <2> QED
        BY ONLY <1>4, <2>1, Zenon
<1>6. ASSUME NEW k \in 1..n
      PROVE  r[k] = W[k][r[k - 1]]
    <2>1. k - 1 \in 0..n
        OBVIOUS
    <2> QED
        BY <1>4, <2>1
<1> QED
    BY <1>5, <1>6 DEF Recurs

-----------------------------------------------------------------------------
(* read[n]: the segments of the first n bytes of a path. *)
Reads(read, path, B) ==
    /\ read \in [0..Len(path) -> Seq(Seq(B)) \ {<<>>}]
    /\ read[0] = << <<>> >>
    /\ \A n \in 1..Len(path) : read[n] = AddByte(read[n - 1], path[n])
    /\ Split(path) = read[Len(path)]

(* With a byte more they are segments still. *)
LEMMA AddByteType ==
    ASSUME NEW B, NEW segs \in Seq(Seq(B)) \ {<<>>}, NEW b \in B
    PROVE  AddByte(segs, b) \in Seq(Seq(B)) \ {<<>>}
<1> DEFINE S == Seq(B)
<1>1. <<>> \in S /\ segs \in Seq(S) /\ segs # <<>>
    OBVIOUS
<1>2. CASE b = "/"
    <2>1. AddByte(segs, b) = Append(segs, <<>>)
        BY <1>2 DEF AddByte
    <2> HIDE DEF S
    <2>2. Append(segs, <<>>) \in Seq(S) /\ Append(segs, <<>>) # <<>>
        BY <1>1, EndsOf, SMTT(30)
    <2> QED
        BY <2>1, <2>2 DEF S
<1>3. CASE b # "/"
    <2> DEFINE last == Append(Last(segs), b)
    <2>1. AddByte(segs, b) = Append(Front(segs), last)
        BY <1>3 DEF AddByte
    <2>2. Front(segs) \in Seq(S) /\ Last(segs) \in S
        <3> HIDE DEF S
        <3> QED
            BY <1>1, EndsOf
    <2>3. last \in S
        BY <2>2
    <2> HIDE DEF S, last
    <2>4. Append(Front(segs), last) \in Seq(S) /\ Append(Front(segs), last) # <<>>
        BY <2>2, <2>3, EndsOf, ZenonT(30)
    <2> QED
        BY <2>1, <2>4 DEF S
<1> QED
    BY <1>2, <1>3

(* String.split reads a path like that. *)
LEMMA Splitting ==
    ASSUME NEW B, NEW path \in Seq(B)
    PROVE  \E read : Reads(read, path, B)
<1> DEFINE X == Seq(Seq(B)) \ {<<>>}
           N == Len(path)
           W == [i \in 1..N |-> [x \in X |-> AddByte(x, path[i])]]
           a == << <<>> >>
<1>1. N \in Nat /\ a \in X
    OBVIOUS
<1>2. W \in [1..N -> [X -> X]]
    <2>1. \A i \in 1..N : \A x \in X : AddByte(x, path[i]) \in X
        <3> SUFFICES ASSUME NEW i \in 1..N, NEW x \in X PROVE AddByte(x, path[i]) \in X
            OBVIOUS
        <3>1. path[i] \in B
            OBVIOUS
        <3> QED
            BY <3>1, AddByteType
    <2> HIDE DEF X, N
    <2> QED
        BY <2>1
<1>3. \A i \in 1..N : \A x \in X : W[i][x] = AddByte(x, path[i])
    <2> HIDE DEF X, N
    <2> QED
        OBVIOUS
<1> HIDE DEF X, N, W, a
<1>4. PICK g : Recurs(g, X, W, a, N)
    BY <1>1, <1>2, Recursion
<1>5. g = [n \in 0..N |-> IF n = 0 THEN a ELSE AddByte(g[n - 1], path[n])]
    <2>1. g \in [0..N -> X] /\ g[0] = a /\ \A i \in 1..N : g[i] = W[i][g[i - 1]]
        BY <1>4 DEF Recurs
    <2>2. \A i \in 1..N : g[i - 1] \in X
        BY <1>1, <2>1
    <2>3. \A i \in 1..N : g[i] = AddByte(g[i - 1], path[i])
        BY <1>3, <2>1, <2>2
    <2> QED
        BY <1>1, <2>1, <2>3
<1> DEFINE read[n \in 0..N] == IF n = 0 THEN a ELSE AddByte(read[n - 1], path[n])
<1>6. read = CHOOSE f : f = [n \in 0..N |-> IF n = 0 THEN a ELSE AddByte(f[n - 1], path[n])]
    OBVIOUS
<1>7. Split(path) = read[N]
    BY DEF Split, N, a
<1> HIDE DEF read
<1>8. read = [n \in 0..N |-> IF n = 0 THEN a ELSE AddByte(read[n - 1], path[n])]
    BY <1>5, <1>6, Zenon
<1>9. read = [n \in 0..N |-> read[n]] /\ read[0] = a /\ \A n \in 1..N : read[n] = AddByte(read[n - 1], path[n])
    <2>1. DOMAIN read = 0..N
        BY <1>8
    <2> QED
        BY <1>1, <1>8, <2>1
<1>10. \A n \in 1..N : read[n - 1] \in X => read[n] = W[n][read[n - 1]]
    BY <1>3, <1>9
<1>11. Recurs(read, X, W, a, N)
    BY <1>1, <1>2, <1>9, <1>10, Unfolds
<1>12. read \in [0..N -> X]
    BY <1>11 DEF Recurs
<1> QED
    BY <1>7, <1>9, <1>12 DEF Reads, X, N, a

-----------------------------------------------------------------------------
(* A part of a path that is one byte longer. *)
LEMMA SubSeqGrows ==
    ASSUME NEW B, NEW p \in Seq(B), NEW m \in Nat, NEW n \in Nat, m <= n, n + 1 <= Len(p)
    PROVE  /\ SubSeq(p, m + 1, n + 1) = Append(SubSeq(p, m + 1, n), p[n + 1])
           /\ SubSeq(p, n + 1, n) = <<>>
<1> DEFINE u == SubSeq(p, m + 1, n + 1)
           v == SubSeq(p, m + 1, n)
           w == Append(v, p[n + 1])
<1>1. v \in Seq(B) /\ Len(v) = n - m /\ \A i \in 1..(n - m) : v[i] = p[m + i]
    OBVIOUS
<1>2. u \in Seq(B) /\ Len(u) = n + 1 - m /\ \A i \in 1..(n + 1 - m) : u[i] = p[m + i]
    OBVIOUS
<1>3. w \in Seq(B) /\ Len(w) = n + 1 - m /\ \A i \in 1..(n + 1 - m) : w[i] = p[m + i]
    <2>1. p[n + 1] \in B
        OBVIOUS
    <2> HIDE DEF v
    <2>2. w \in Seq(B) /\ Len(w) = Len(v) + 1 /\ w[Len(v) + 1] = p[n + 1] /\ \A i \in 1..Len(v) : w[i] = v[i]
        BY <1>1, <2>1, EndsOf
    <2> QED
        BY <1>1, <2>2
<1>4. u = w
    <2> HIDE DEF u, w
    <2> QED
        BY <1>2, <1>3, SeqEqual
<1>5. SubSeq(p, n + 1, n) = <<>>
    OBVIOUS
<1> QED
    BY <1>4, <1>5

(* The last slash, one byte further. *)
LEMMA LastSlashIs ==
    ASSUME NEW B, NEW p \in Seq(B), NEW n \in 0..Len(p)
    PROVE  /\ n = 0 => LastSlash(p, n) = 0
           /\ n # 0 => LastSlash(p, n) = IF p[n] = "/" THEN n ELSE LastSlash(p, n - 1)
<1> DEFINE S(k) == {i \in 1..k : p[i] = "/"}
<1>1. \A k : LastSlash(p, k) = IF S(k) = {} THEN 0 ELSE Max(S(k))
    BY DEF LastSlash
<1>2. CASE n = 0
    <2>1. S(n) = {}
        BY <1>2
    <2> QED
        BY <1>1, <1>2, <2>1
<1>3. CASE n # 0 /\ p[n] = "/"
    <2>1. n \in S(n) /\ \A i \in S(n) : i \in Int /\ n >= i
        BY <1>3
    <2> DEFINE m == Max(S(n))
    <2>2. m = CHOOSE x \in S(n) : \A y \in S(n) : x >= y
        BY DEF Max
    <2> HIDE DEF S, m
    <2>3. m \in S(n) /\ \A y \in S(n) : m >= y
        BY <2>1, <2>2
    <2>4. m = n
        BY <2>1, <2>3
    <2> QED
        BY <1>1, <1>3, <2>1, <2>4 DEF m
<1>4. CASE n # 0 /\ p[n] # "/"
    <2>1. S(n) = S(n - 1)
        BY <1>4
    <2> HIDE DEF S
    <2> QED
        BY <1>1, <1>4, <2>1
<1> QED
    BY <1>2, <1>3, <1>4

(* What is before the last one. *)
LEMMA FrontOf ==
    ASSUME NEW S, NEW s \in Seq(S), s # <<>>
    PROVE  Len(Front(s)) = Len(s) - 1 /\ \A i \in 1..(Len(s) - 1) : Front(s)[i] = s[i]
<1>1. PICK x : x \in S
    OBVIOUS
<1> QED
    BY <1>1, EndsOf

(* A slash opens a segment. *)
LEMMA Opened ==
    ASSUME NEW S, <<>> \in S, NEW s \in Seq(S)
    PROVE  Last(Append(s, <<>>)) = <<>> /\ Front(Append(s, <<>>)) = s /\ Len(Append(s, <<>>)) = Len(s) + 1
BY EndsOf

(* What has been read of a path ends with what follows the last slash, and before it is what was read up to there. *)
LEMMA ReadsToTheSlash ==
    ASSUME NEW B, NEW p \in Seq(B), NEW read, Reads(read, p, B), NEW n \in 0..Len(p)
    PROVE  /\ LastSlash(p, n) \in 0..n
           /\ Last(read[n]) = SubSeq(p, LastSlash(p, n) + 1, n)
           /\ LastSlash(p, n) = 0 => Len(read[n]) = 1
           /\ LastSlash(p, n) # 0 => Len(read[n]) >= 2 /\ Front(read[n]) = read[LastSlash(p, n) - 1]
<1> DEFINE N == Len(p)
           S == Seq(B)
           Q(k) == /\ LastSlash(p, k) \in 0..k
                   /\ Last(read[k]) = SubSeq(p, LastSlash(p, k) + 1, k)
                   /\ LastSlash(p, k) = 0 => Len(read[k]) = 1
                   /\ LastSlash(p, k) # 0 => Len(read[k]) >= 2 /\ Front(read[k]) = read[LastSlash(p, k) - 1]
           T == {k \in Nat : k <= N => Q(k)}
<1> HIDE DEF N, S, Q, T
<1>1. /\ N \in Nat /\ read[0] = << <<>> >>
      /\ \A k \in 0..N : read[k] \in Seq(S) /\ read[k] # <<>>
      /\ \A k \in 1..N : read[k] = AddByte(read[k - 1], p[k])
    <2>1. N \in Nat
        BY DEF N
    <2>2. read \in [0..N -> Seq(S) \ {<<>>}] /\ read[0] = << <<>> >> /\ \A k \in 1..N : read[k] = AddByte(read[k - 1], p[k])
        BY DEF Reads, N, S
    <2> QED
        BY <2>1, <2>2
<1>2. Q(0)
    <2>1. LastSlash(p, 0) = 0
        BY <1>1, LastSlashIs DEF N
    <2>2. Last(read[0]) = <<>> /\ Len(read[0]) = 1
        BY <1>1 DEF Last
    <2>3. SubSeq(p, 1, 0) = <<>>
        OBVIOUS
    <2> QED
        BY <2>1, <2>2, <2>3 DEF Q
<1>3. ASSUME NEW k \in Nat, k + 1 <= N, Q(k)
      PROVE  Q(k + 1)
    <2> DEFINE r  == read[k]
               r1 == read[k + 1]
               b  == p[k + 1]
               l  == LastSlash(p, k)
               l1 == LastSlash(p, k + 1)
    <2>1. k \in 0..N /\ k + 1 \in 1..N /\ (k + 1) - 1 = k /\ k + 1 \in 0..N /\ k + 1 # 0
        BY <1>1, <1>3
    <2>2. r \in Seq(S) /\ r # <<>> /\ r1 = AddByte(r, b)
        BY <1>1, <2>1
    <2>3. b \in B /\ k + 1 <= Len(p)
        BY <1>3, <2>1 DEF N
    <2>4. l1 = IF b = "/" THEN k + 1 ELSE l
        BY <2>1, LastSlashIs DEF N
    <2>5. /\ l \in 0..k /\ Last(r) = SubSeq(p, l + 1, k) /\ (l = 0 => Len(r) = 1)
          /\ l # 0 => Len(r) >= 2 /\ Front(r) = read[l - 1]
        BY <1>3 DEF Q
    <2>6. <<>> \in S /\ Len(r) \in Nat /\ Len(r) >= 1
        BY <2>2 DEF S
    <2> SUFFICES /\ l1 \in 0..(k + 1) /\ Last(r1) = SubSeq(p, l1 + 1, k + 1) /\ (l1 = 0 => Len(r1) = 1)
                 /\ l1 # 0 => Len(r1) >= 2 /\ Front(r1) = read[l1 - 1]
        BY DEF Q
    <2>7. CASE b = "/"
        <3>1. r1 = Append(r, <<>>) /\ l1 = k + 1
            BY <2>2, <2>4, <2>7 DEF AddByte
        <3> HIDE DEF r1, l1, b
        <3>2. Last(r1) = <<>> /\ Front(r1) = r /\ Len(r1) = Len(r) + 1
            <4> HIDE DEF r
            <4> QED
                BY <2>2, <2>6, <3>1, Opened
        <3>3. SubSeq(p, (k + 1) + 1, k + 1) = <<>>
            OBVIOUS
        <3>4. r = read[l1 - 1]
            BY <2>1, <3>1
        <3> HIDE DEF r
        <3>5. l1 \in 0..(k + 1) /\ l1 # 0 /\ Len(r1) >= 2 /\ SubSeq(p, l1 + 1, k + 1) = <<>>
            BY <2>1, <2>6, <3>1, <3>2, <3>3
        <3> QED
            BY ONLY <3>2, <3>4, <3>5, Zenon
    <2>8. CASE b # "/"
        <3> DEFINE last == Append(Last(r), b)
        <3>1. r1 = Append(Front(r), last) /\ l1 = l
            BY <2>2, <2>4, <2>8 DEF AddByte
        <3>2. last = SubSeq(p, l + 1, k + 1)
            <4>1. l \in Nat /\ l <= k /\ k \in Nat
                BY <2>5
            <4>2. Last(r) = SubSeq(p, l + 1, k)
                BY <2>5
            <4> HIDE DEF l, r
            <4>3. SubSeq(p, l + 1, k + 1) = Append(SubSeq(p, l + 1, k), p[k + 1])
                BY <2>3, <4>1, SubSeqGrows
            <4> QED
                BY <4>2, <4>3
        <3> HIDE DEF r, r1, l, l1, b
        <3>3. Front(r) \in Seq(S) /\ Last(r) \in S /\ Len(Front(r)) = Len(r) - 1
            BY <2>2, <2>6, EndsOf
        <3>4. last \in S
            BY <2>3, <3>3 DEF S
        <3> HIDE DEF last
        <3>5. Last(r1) = last /\ Front(r1) = Front(r) /\ Len(r1) = Len(r)
            <4> DEFINE f == Front(r)
            <4>1. f \in Seq(S) /\ r1 = Append(f, last) /\ Len(f) + 1 = Len(r)
                BY <2>6, <3>1, <3>3
            <4> HIDE DEF f
            <4>2. Last(r1) = last /\ Front(r1) = f /\ Len(r1) = Len(f) + 1
                BY <3>4, <4>1, EndsOf, ZenonT(30)
            <4> QED
                BY <4>1, <4>2 DEF f
        <3>6. l1 \in 0..(k + 1)
            BY <2>5, <3>1
        <3> QED
            BY ONLY <2>5, <3>1, <3>2, <3>5, <3>6, Zenon
    <2> QED
        BY <2>7, <2>8
<1>4. T = Nat
    <2>1. 0 \in T
        BY <1>2 DEF T
    <2>2. \A k \in T : k + 1 \in T
        BY <1>1, <1>3 DEF T
    <2>3. T \in SUBSET Nat
        BY DEF T
    <2> QED
        BY <2>1, <2>2, <2>3, Induction
<1>5. n \in T
    BY <1>1, <1>4 DEF N
<1>6. Q(n)
    BY <1>5 DEF T, N
<1> QED
    BY <1>6 DEF Q

-----------------------------------------------------------------------------
(* end[n]: where the segment ends that is n from the end. *)
Cuts(end, path, m) ==
    /\ end \in [0..m -> 0..Len(path)]
    /\ end[0] = Len(path)
    /\ \A n \in 1..m : end[n] = IF end[n - 1] < 1 \/ LastSlash(path, end[n - 1]) = 0 THEN 0
                                ELSE NextEnd(LastSlash(path, end[n - 1]))
    /\ SegmentFromEnd(path, m) = IF end[m] < 1 THEN <<>> ELSE SubSeq(path, LastSlash(path, end[m]) + 1, end[m])

(* segmentFromEnd cuts a path like that. *)
LEMMA Cutting ==
    ASSUME NEW B, NEW path \in Seq(B), NEW m \in Nat
    PROVE  \E end : Cuts(end, path, m)
<1> DEFINE X == 0..Len(path)
           Before(e) == IF e < 1 \/ LastSlash(path, e) = 0 THEN 0 ELSE NextEnd(LastSlash(path, e))
           W == [i \in 1..m |-> [x \in X |-> Before(x)]]
           a == Len(path)
<1>1. a \in X /\ a \in Nat
    OBVIOUS
<1>2. ASSUME NEW x \in X
      PROVE  Before(x) \in X
    <2>1. PICK read : Reads(read, path, B)
        BY Splitting
    <2>2. LastSlash(path, x) \in 0..x
        BY <2>1, ReadsToTheSlash
    <2> QED
        BY <1>1, <2>2 DEF NextEnd
<1> HIDE DEF X, Before, a
<1>3. W \in [1..m -> [X -> X]]
    BY <1>2
<1>4. \A i \in 1..m : \A x \in X : W[i][x] = Before(x)
    OBVIOUS
<1> HIDE DEF W
<1>5. PICK g : Recurs(g, X, W, a, m)
    BY <1>1, <1>3, Recursion
<1>6. g = [n \in 0..m |-> IF n = 0 THEN a ELSE Before(g[n - 1])]
    <2>1. g \in [0..m -> X] /\ g[0] = a /\ \A i \in 1..m : g[i] = W[i][g[i - 1]]
        BY <1>5 DEF Recurs
    <2>2. \A i \in 1..m : g[i - 1] \in X
        BY <2>1
    <2>3. \A i \in 1..m : g[i] = Before(g[i - 1])
        BY <1>4, <2>1, <2>2
    <2> QED
        BY <2>1, <2>3
<1> DEFINE end[n \in 0..m] ==
               IF n = 0 THEN Len(path)
               ELSE IF end[n - 1] < 1 \/ LastSlash(path, end[n - 1]) = 0 THEN 0
               ELSE NextEnd(LastSlash(path, end[n - 1]))
<1>7. end = CHOOSE f : f = [n \in 0..m |-> IF n = 0 THEN a ELSE Before(f[n - 1])]
    BY DEF Before, a
<1>8. SegmentFromEnd(path, m) = IF end[m] < 1 THEN <<>> ELSE SubSeq(path, LastSlash(path, end[m]) + 1, end[m])
    BY DEF SegmentFromEnd
<1> HIDE DEF end
<1>9. end = [n \in 0..m |-> IF n = 0 THEN a ELSE Before(end[n - 1])]
    BY <1>6, <1>7, Zenon
<1>10. end = [n \in 0..m |-> end[n]] /\ end[0] = a /\ \A n \in 1..m : end[n] = Before(end[n - 1])
    <2>1. DOMAIN end = 0..m
        BY <1>9
    <2> QED
        BY <1>9, <2>1
<1>11. \A n \in 1..m : end[n - 1] \in X => end[n] = W[n][end[n - 1]]
    BY <1>4, <1>10
<1>12. Recurs(end, X, W, a, m)
    BY <1>1, <1>3, <1>10, <1>11, Unfolds
<1>13. end \in [0..m -> X]
    BY <1>12 DEF Recurs
<1>14. \A n \in 1..m : end[n] = IF end[n - 1] < 1 \/ LastSlash(path, end[n - 1]) = 0 THEN 0
                                ELSE NextEnd(LastSlash(path, end[n - 1]))
    BY <1>10 DEF Before
<1> QED
    BY <1>8, <1>10, <1>13, <1>14 DEF Cuts, X, a

(* Up to a cut, what has been read is all but the segments cut off, or nothing is left. *)
LEMMA CutsAreSegments ==
    ASSUME NEW B, NEW p \in Seq(B), NEW read, Reads(read, p, B), NEW m \in Nat, NEW end, Cuts(end, p, m), NEW n \in 0..m
    PROVE  \/ n < Len(Split(p)) /\ Len(read[end[n]]) = Len(Split(p)) - n /\ \A i \in 1..(Len(Split(p)) - n) : read[end[n]][i] = Split(p)[i]
           \/ n >= Len(Split(p)) /\ end[n] = 0
<1> DEFINE S == Seq(B)
           N == Len(p)
           segs == Split(p)
           all == Len(segs)
           Left(k) == k < all /\ Len(read[end[k]]) = all - k /\ \A i \in 1..(all - k) : read[end[k]][i] = segs[i]
           Q(k) == Left(k) \/ (k >= all /\ end[k] = 0)
           T == {k \in Nat : k <= m => Q(k)}
<1> HIDE DEF S, N, segs, all, Left, Q, T
<1>1. /\ N \in Nat /\ segs = read[N]
      /\ \A k \in 0..N : read[k] \in Seq(S) /\ read[k] # <<>>
    <2>1. N \in Nat
        BY DEF N
    <2>2. read \in [0..N -> Seq(S) \ {<<>>}] /\ segs = read[N]
        BY DEF Reads, N, S, segs
    <2> QED
        BY <2>1, <2>2
<1>2. all \in Nat \ {0} /\ segs \in Seq(S)
    <2>1. segs \in Seq(S) /\ segs # <<>>
        BY <1>1
    <2> QED
        BY <2>1 DEF all
<1>3. /\ \A k \in 0..m : end[k] \in 0..N
      /\ end[0] = N
      /\ \A k \in 1..m : end[k] = IF end[k - 1] < 1 \/ LastSlash(p, end[k - 1]) = 0 THEN 0 ELSE LastSlash(p, end[k - 1]) - 1
    BY DEF Cuts, N, NextEnd
<1>4. Q(0)
    <2>1. read[end[0]] = segs
        BY <1>1, <1>3
    <2>2. 0 < all /\ Len(segs) = all - 0
        BY <1>2 DEF all
    <2>3. Left(0)
        BY ONLY <2>1, <2>2, Zenon DEF Left
    <2> QED
        BY <2>3 DEF Q
<1>5. ASSUME NEW k \in Nat, k + 1 <= m, Q(k)
      PROVE  Q(k + 1)
    <2> DEFINE e == end[k]
               l == LastSlash(p, e)
               r == read[e]
    <2>1. e \in 0..N /\ end[k + 1] = IF e < 1 \/ l = 0 THEN 0 ELSE l - 1
        <3>1. k \in 0..m /\ k + 1 \in 1..m /\ (k + 1) - 1 = k
            BY <1>5
        <3> QED
            BY <1>3, <3>1
    <2>2. l \in 0..e /\ (l = 0 => Len(r) = 1) /\ (l # 0 => Len(r) >= 2 /\ Front(r) = read[l - 1])
        BY <2>1, ReadsToTheSlash, SMTT(30) DEF N
    <2>3. r \in Seq(S) /\ r # <<>>
        BY <1>1, <2>1
    <2>4. CASE k >= all /\ e = 0
        BY <1>2, <1>5, <2>1, <2>4 DEF Q
    <2>5. CASE Left(k) /\ l = 0
        <3>1. all - k = 1 /\ end[k + 1] = 0
            BY <2>1, <2>2, <2>5 DEF Left
        <3> QED
            BY <1>2, <1>5, <3>1 DEF Q
    <2>6. CASE Left(k) /\ l # 0
        <3>1. end[k + 1] = l - 1 /\ l - 1 \in 0..N
            BY <1>1, <2>1, <2>2, <2>6, SMTT(30)
        <3>2. Len(r) = all - k /\ Len(r) >= 2 /\ \A i \in 1..(all - k) : r[i] = segs[i]
            BY <2>2, <2>6 DEF Left
        <3>3. read[end[k + 1]] = Front(r)
            BY <2>2, <2>6, <3>1
        <3> HIDE DEF r
        <3>4. Len(Front(r)) = Len(r) - 1 /\ \A i \in 1..(Len(r) - 1) : Front(r)[i] = r[i]
            BY <2>3, FrontOf
        <3>5. Len(Front(r)) = all - (k + 1) /\ k + 1 < all
            BY <1>2, <1>5, <3>2, <3>4
        <3>6. \A i \in 1..(all - (k + 1)) : Front(r)[i] = segs[i]
            BY <1>2, <1>5, <3>2, <3>4
        <3>7. Left(k + 1)
            <4> DEFINE x == read[end[k + 1]]
            <4>1. x = Front(r)
                BY <3>3
            <4> HIDE DEF x
            <4>2. k + 1 < all /\ Len(x) = all - (k + 1) /\ \A i \in 1..(all - (k + 1)) : x[i] = segs[i]
                BY <3>5, <3>6, <4>1
            <4> QED
                BY <4>2, Zenon DEF Left, x
        <3> QED
            BY <3>7 DEF Q
    <2> QED
        BY <1>5, <2>4, <2>5, <2>6 DEF Q
<1>6. T = Nat
    <2>1. 0 \in T
        BY <1>4 DEF T
    <2>2. \A k \in T : k + 1 \in T
        BY <1>5 DEF T
    <2>3. T \in SUBSET Nat
        BY DEF T
    <2> QED
        BY <2>1, <2>2, <2>3, Induction
<1>7. n \in T
    BY <1>6
<1>8. Q(n)
    BY <1>7 DEF T
<1> QED
    BY <1>8 DEF Q, Left, all, segs

(***************************************************************************)
(* segmentFromEnd is the segment that many from the end of the path, or    *)
(* nothing when the path is shorter: for every path.                       *)
(***************************************************************************)
LEMMA SegmentsFromEnd ==
    ASSUME NEW B, NEW p \in Seq(B), NEW n \in Nat
    PROVE  LET segs == Split(p) IN SegmentFromEnd(p, n) = IF n < Len(segs) THEN segs[Len(segs) - n] ELSE <<>>
<1>1. PICK read : Reads(read, p, B)
    BY Splitting
<1>2. PICK end : Cuts(end, p, n)
    BY Cutting
<1> DEFINE segs == Split(p)
           e == end[n]
           r == read[e]
<1>3. n \in 0..n /\ e \in 0..Len(p)
    BY <1>2 DEF Cuts
<1>4. SegmentFromEnd(p, n) = IF e < 1 THEN <<>> ELSE SubSeq(p, LastSlash(p, e) + 1, e)
    BY <1>2 DEF Cuts
<1>5. \/ n < Len(segs) /\ Len(r) = Len(segs) - n /\ \A i \in 1..(Len(segs) - n) : r[i] = segs[i]
      \/ n >= Len(segs) /\ e = 0
    BY <1>1, <1>2, <1>3, CutsAreSegments
<1>6. Last(r) = SubSeq(p, LastSlash(p, e) + 1, e)
    BY <1>1, <1>3, ReadsToTheSlash
<1>7. segs \in Seq(Seq(B)) /\ Len(segs) \in Nat
    <2>1. Len(p) \in 0..Len(p) /\ segs = read[Len(p)] /\ read \in [0..Len(p) -> Seq(Seq(B)) \ {<<>>}]
        BY <1>1 DEF Reads
    <2> QED
        BY <2>1
<1>8. CASE n >= Len(segs)
    BY <1>4, <1>5, <1>7, <1>8
<1> HIDE DEF r, e, segs
<1>9. CASE n < Len(segs)
    <2>1. Last(r) = segs[Len(segs) - n]
        <3>1. Len(segs) - n \in 1..(Len(segs) - n) /\ Len(r) = Len(segs) - n
            BY <1>5, <1>7, <1>9
        <3>2. r[Len(segs) - n] = segs[Len(segs) - n]
            BY <1>5, <1>9, <3>1
        <3> QED
            BY <3>1, <3>2 DEF Last
    <2>2. ASSUME e = 0 PROVE SegmentFromEnd(p, n) = segs[Len(segs) - n]
        <3>1. LastSlash(p, 0) = 0
            <4>1. 0 \in 0..Len(p)
                OBVIOUS
            <4> QED
                BY <4>1, LastSlashIs
        <3>2. Last(r) = SubSeq(p, 0 + 1, 0)
            BY <1>6, <2>2, <3>1
        <3>3. Last(r) = <<>>
            BY <3>2
        <3>4. SegmentFromEnd(p, n) = <<>>
            BY <1>4, <2>2
        <3> QED
            BY <2>1, <3>3, <3>4
    <2>3. ASSUME e # 0 PROVE SegmentFromEnd(p, n) = segs[Len(segs) - n]
        <3>1. ~(e < 1)
            BY <1>3, <2>3
        <3>2. SegmentFromEnd(p, n) = Last(r)
            BY ONLY <1>4, <1>6, <3>1
        <3> QED
            BY ONLY <2>1, <3>2
    <2>4. SegmentFromEnd(p, n) = segs[Len(segs) - n]
        BY <2>2, <2>3
    <2> QED
        BY <1>9, <2>4 DEF segs
<1> QED
    BY <1>7, <1>8, <1>9 DEF segs

-----------------------------------------------------------------------------
(* One segment more or less on the stack. *)
LEMMA PushType ==
    ASSUME NEW S, NEW out \in Seq(S), NEW seg \in S
    PROVE  Push(out, seg) \in Seq(S)
<1>1. out # <<>> => Front(out) \in Seq(S)
    BY EndsOf
<1>2. Append(out, seg) \in Seq(S)
    BY EndsOf
<1> QED
    BY <1>1, <1>2, Zenon DEF Push

(* out[n]: the stack behind the first n segments. *)
Stacks(out, segs, S) ==
    /\ out \in [0..Len(segs) -> Seq(S)]
    /\ out[0] = <<>>
    /\ \A n \in 1..Len(segs) : out[n] = Push(out[n - 1], segs[n])
    /\ Stacked(segs) = out[Len(segs)]

(* The stack, segment by segment. *)
LEMMA Stacking ==
    ASSUME NEW S, NEW segs \in Seq(S)
    PROVE  \E out : Stacks(out, segs, S)
<1> DEFINE X == Seq(S)
           N == Len(segs)
           W == [i \in 1..N |-> [x \in X |-> Push(x, segs[i])]]
           a == <<>>
<1>1. N \in Nat /\ a \in X
    OBVIOUS
<1>2. W \in [1..N -> [X -> X]]
    <2>1. \A i \in 1..N : \A x \in X : Push(x, segs[i]) \in X
        <3> SUFFICES ASSUME NEW i \in 1..N, NEW x \in X PROVE Push(x, segs[i]) \in X
            OBVIOUS
        <3>1. segs[i] \in S
            OBVIOUS
        <3> QED
            BY <3>1, PushType
    <2> HIDE DEF X, N
    <2> QED
        BY <2>1
<1>3. \A i \in 1..N : \A x \in X : W[i][x] = Push(x, segs[i])
    <2> HIDE DEF X, N
    <2> QED
        OBVIOUS
<1> HIDE DEF X, N, W, a
<1>4. PICK g : Recurs(g, X, W, a, N)
    BY <1>1, <1>2, Recursion
<1>5. g = [n \in 0..N |-> IF n = 0 THEN a ELSE Push(g[n - 1], segs[n])]
    <2>1. g \in [0..N -> X] /\ g[0] = a /\ \A i \in 1..N : g[i] = W[i][g[i - 1]]
        BY <1>4 DEF Recurs
    <2>2. \A i \in 1..N : g[i - 1] \in X
        BY <1>1, <2>1
    <2>3. \A i \in 1..N : g[i] = Push(g[i - 1], segs[i])
        BY <1>3, <2>1, <2>2
    <2> QED
        BY <1>1, <2>1, <2>3
<1> DEFINE f[n \in 0..N] == IF n = 0 THEN a ELSE Push(f[n - 1], segs[n])
<1>6. f = CHOOSE h : h = [n \in 0..N |-> IF n = 0 THEN a ELSE Push(h[n - 1], segs[n])]
    OBVIOUS
<1>7. Stacked(segs) = f[N]
    BY DEF Stacked, N, a
<1> HIDE DEF f
<1>8. f = [n \in 0..N |-> IF n = 0 THEN a ELSE Push(f[n - 1], segs[n])]
    BY <1>5, <1>6, Zenon
<1>9. f = [n \in 0..N |-> f[n]] /\ f[0] = a /\ \A n \in 1..N : f[n] = Push(f[n - 1], segs[n])
    <2>1. \A n \in 0..N : f[n] = IF n = 0 THEN a ELSE Push(f[n - 1], segs[n])
        BY <1>8, Zenon
    <2>2. DOMAIN f = 0..N
        BY <1>8, Zenon
    <2>3. f = [n \in 0..N |-> f[n]]
        BY <1>8, <2>1, Zenon
    <2>4. 0 \in 0..N /\ \A n \in 1..N : n \in 0..N /\ n # 0
        BY <1>1
    <2> QED
        BY <2>1, <2>3, <2>4, Zenon
<1>10. \A n \in 1..N : f[n - 1] \in X => f[n] = W[n][f[n - 1]]
    BY <1>3, <1>9
<1>11. Recurs(f, X, W, a, N)
    BY <1>1, <1>2, <1>9, <1>10, Unfolds
<1>12. f \in [0..N -> X]
    BY <1>11 DEF Recurs
<1>13. Stacks(f, segs, S)
    BY <1>7, <1>9, <1>12 DEF Stacks, N, X, a
<1> QED
    BY <1>13

(* The stack holds segments of the path. *)
LEMMA StackedType ==
    ASSUME NEW S, NEW segs \in Seq(S)
    PROVE  Stacked(segs) \in Seq(S)
<1>1. PICK out : Stacks(out, segs, S)
    BY Stacking
<1>2. Len(segs) \in 0..Len(segs)
    OBVIOUS
<1> QED
    BY <1>1, <1>2 DEF Stacks

(* path[n]: the first n segments, joined. *)
Joins(path, segs, B) ==
    /\ path \in [0..Len(segs) -> Seq(B)]
    /\ path[0] = <<>>
    /\ \A n \in 1..Len(segs) : path[n] = AddSegment(path[n - 1], segs[n])
    /\ Join(segs) = path[Len(segs)]

(* The segments joined, one by one. *)
LEMMA Joining ==
    ASSUME NEW B, "/" \in B, NEW segs \in Seq(Seq(B))
    PROVE  \E path : Joins(path, segs, B)
<1> DEFINE X == Seq(B)
           N == Len(segs)
           W == [i \in 1..N |-> [x \in X |-> AddSegment(x, segs[i])]]
           a == <<>>
<1>1. N \in Nat /\ a \in X
    OBVIOUS
<1>2. W \in [1..N -> [X -> X]]
    <2>1. \A i \in 1..N : \A x \in X : AddSegment(x, segs[i]) \in X
        <3> SUFFICES ASSUME NEW i \in 1..N, NEW x \in X PROVE AddSegment(x, segs[i]) \in X
            OBVIOUS
        <3>1. segs[i] \in Seq(B) /\ <<"/">> \in Seq(B)
            OBVIOUS
        <3>2. x \o <<"/">> \in Seq(B)
            BY <3>1
        <3> QED
            BY <3>1, <3>2 DEF AddSegment
    <2> HIDE DEF X, N
    <2> QED
        BY <2>1
<1>3. \A i \in 1..N : \A x \in X : W[i][x] = AddSegment(x, segs[i])
    <2> HIDE DEF X, N
    <2> QED
        OBVIOUS
<1> HIDE DEF X, N, W, a
<1>4. PICK g : Recurs(g, X, W, a, N)
    BY <1>1, <1>2, Recursion
<1>5. g = [n \in 0..N |-> IF n = 0 THEN a ELSE AddSegment(g[n - 1], segs[n])]
    <2>1. g \in [0..N -> X] /\ g[0] = a /\ \A i \in 1..N : g[i] = W[i][g[i - 1]]
        BY <1>4 DEF Recurs
    <2>2. \A i \in 1..N : g[i - 1] \in X
        BY <1>1, <2>1
    <2>3. \A i \in 1..N : g[i] = AddSegment(g[i - 1], segs[i])
        BY <1>3, <2>1, <2>2
    <2> QED
        BY <1>1, <2>1, <2>3
<1> DEFINE f[n \in 0..N] == IF n = 0 THEN a ELSE AddSegment(f[n - 1], segs[n])
<1>6. f = CHOOSE h : h = [n \in 0..N |-> IF n = 0 THEN a ELSE AddSegment(h[n - 1], segs[n])]
    OBVIOUS
<1>7. Join(segs) = f[N]
    BY DEF Join, N, a
<1> HIDE DEF f
<1>8. f = [n \in 0..N |-> IF n = 0 THEN a ELSE AddSegment(f[n - 1], segs[n])]
    BY <1>5, <1>6, Zenon
<1>9. f = [n \in 0..N |-> f[n]] /\ f[0] = a /\ \A n \in 1..N : f[n] = AddSegment(f[n - 1], segs[n])
    <2>1. \A n \in 0..N : f[n] = IF n = 0 THEN a ELSE AddSegment(f[n - 1], segs[n])
        BY <1>8, Zenon
    <2>2. DOMAIN f = 0..N
        BY <1>8, Zenon
    <2>3. f = [n \in 0..N |-> f[n]]
        BY <1>8, <2>1, Zenon
    <2>4. 0 \in 0..N /\ \A n \in 1..N : n \in 0..N /\ n # 0
        BY <1>1
    <2> QED
        BY <2>1, <2>3, <2>4, Zenon
<1>10. \A n \in 1..N : f[n - 1] \in X => f[n] = W[n][f[n - 1]]
    BY <1>3, <1>9
<1>11. Recurs(f, X, W, a, N)
    BY <1>1, <1>2, <1>9, <1>10, Unfolds
<1>12. f \in [0..N -> X]
    BY <1>11 DEF Recurs
<1>13. Joins(f, segs, B)
    BY <1>7, <1>9, <1>12 DEF Joins, N, X, a
<1> QED
    BY <1>13

(* The segments, joined, are a path again. *)
LEMMA JoinedType ==
    ASSUME NEW B, "/" \in B, NEW segs \in Seq(Seq(B))
    PROVE  Join(segs) \in Seq(B)
<1>1. PICK path : Joins(path, segs, B)
    BY Joining
<1>2. Len(segs) \in 0..Len(segs)
    OBVIOUS
<1> QED
    BY <1>1, <1>2 DEF Joins

(* A clean path is a path. *)
LEMMA CleanPathType ==
    ASSUME NEW B, "/" \in B, NEW path \in Seq(B)
    PROVE  CleanPath(path) \in Seq(B)
<1> DEFINE rooted == Rooted(path)
           out == Stacked(Split(rooted))
<1>1. rooted \in Seq(B)
    BY DEF Rooted
<1> HIDE DEF rooted
<1>2. Split(rooted) \in Seq(Seq(B))
    <2>1. PICK read : Reads(read, rooted, B)
        BY <1>1, Splitting
    <2> QED
        BY <1>1, <2>1 DEF Reads
<1>3. out \in Seq(Seq(B))
    BY <1>2, StackedType
<1> HIDE DEF out
<1>4. Join(out) \in Seq(B)
    BY <1>3, JoinedType
<1>5. Append(Join(out), "/") \in Seq(B) /\ <<"/">> \in Seq(B)
    BY <1>4
<1> QED
    BY <1>4, <1>5, Zenon DEF CleanPath, out, rooted

(* A target is as long as some natural number says. *)
Finite == Len(asked) \in Nat /\ Len(target) \in Nat

(* The decoded target is a path. *)
LEMMA ByteForByte ==
    ASSUME NEW raw, Len(raw) \in Nat
    PROVE  \E B : "/" \in B /\ Unescape(raw) \in Seq(B)
<1> DEFINE B == {"/"} \cup {raw[i].byte : i \in 1..Len(raw)}
<1>1. "/" \in B /\ \A i \in 1..Len(raw) : raw[i].byte \in B
    OBVIOUS
<1> HIDE DEF B
<1>2. Unescape(raw) \in [1..Len(raw) -> B]
    BY <1>1 DEF Unescape
<1>3. Unescape(raw) \in Seq(B)
    BY <1>2
<1> QED
    BY <1>1, <1>3

(* A target stays finite: the one a redirect leads to as well. *)
LEMMA PathsAreFinite == PathsSpec => []Finite
<1>1. PathsInit => Finite
    <2> SUFFICES ASSUME PathsInit PROVE Finite
        OBVIOUS
    <2>1. ASSUME NEW t \in Targets
          PROVE  t \in Seq(Tokens)
        <3>1. CASE t = <<>>
            BY <3>1
        <3>2. ASSUME NEW n \in 1..MaxLength, t \in [1..n -> Tokens]
              PROVE  t \in Seq(Tokens)
            BY <3>2, AlphabetAssumption
        <3> QED
            BY <3>1, <3>2 DEF Targets
    <2>2. PICK t \in Seq(Tokens) : asked = t \/ asked = <<Slash>> \o t
        BY <2>1 DEF PathsInit
    <2>3. Slash \in Tokens
        BY AlphabetAssumption, Zenon DEF Slash, Tokens
    <2>4. asked \in Seq(Tokens)
        <3> DEFINE first == <<Slash>>
        <3>1. first \in Seq(Tokens)
            BY <2>3
        <3>2. asked = t \/ asked = first \o t
            BY <2>2
        <3> HIDE DEF first
        <3>3. first \o t \in Seq(Tokens)
            BY <3>1
        <3> QED
            BY <3>1, <3>2, <3>3
    <2> QED
        BY <2>4 DEF PathsInit, Finite
<1>2. Finite /\ [PathsNext]_pathsVars => Finite'
    <2> SUFFICES ASSUME Finite, [PathsNext]_pathsVars PROVE Finite'
        OBVIOUS
    <2>1. CASE Follow
        <3>1. PICK B : "/" \in B /\ Unescape(target) \in Seq(B)
            BY ByteForByte DEF Finite
        <3> DEFINE path == CleanPath(Unescape(target))
        <3>2. path \in Seq(B)
            BY <3>1, CleanPathType
        <3>3. target' = EscapeForLocation(path) /\ asked' = asked
            BY <2>1 DEF Follow
        <3> HIDE DEF path
        <3>4. Len(target') = Len(path)
            BY <3>2, <3>3 DEF EscapeForLocation
        <3> QED
            BY <3>2, <3>3, <3>4 DEF Finite
    <2>2. CASE UNCHANGED <<asked, target>>
        BY <2>2 DEF Finite
    <2> QED
        BY <2>1, <2>2 DEF PathsNext, BadRequest, MovedPermanently, Route, pathsVars
<1> QED
    BY <1>1, <1>2, PTL DEF PathsSpec

(***************************************************************************)
(* A handler's path variable is the segment the router matched.            *)
(***************************************************************************)
THEOREM VariablesAreSegments == PathsSpec => []VariableIsSegment
<1>1. Finite => VariableIsSegment
    <2> SUFFICES ASSUME Finite PROVE VariableIsSegment
        OBVIOUS
    <2>1. PICK B : "/" \in B /\ Unescape(target) \in Seq(B)
        BY ByteForByte DEF Finite
    <2> DEFINE path == Unescape(target)
               segs == Split(path)
    <2>2. Len(segs) \in Nat
        <3>1. PICK read : Reads(read, path, B)
            BY <2>1, Splitting
        <3>2. segs \in Seq(Seq(B))
            BY <2>1, <3>1 DEF Reads
        <3> QED
            BY <3>2
    <2>3. ASSUME NEW n \in 0..(Len(segs) + 1)
          PROVE  SegmentFromEnd(path, n) = IF n < Len(segs) THEN segs[Len(segs) - n] ELSE <<>>
        <3>1. n \in Nat
            BY <2>2
        <3> QED
            BY <2>1, <3>1, SegmentsFromEnd
    <2> QED
        BY <2>3 DEF VariableIsSegment
<1> QED
    BY <1>1, PathsAreFinite, PTL

-----------------------------------------------------------------------------
(* Two paths that begin alike are read alike as far as they do. *)
LEMMA ReadAlike ==
    ASSUME NEW B, NEW p \in Seq(B), NEW q \in Seq(B), NEW f, Reads(f, p, B), NEW g, Reads(g, q, B),
           NEW n \in Nat, n <= Len(p), n <= Len(q), \A i \in 1..n : p[i] = q[i]
    PROVE  f[n] = g[n]
<1> DEFINE T == {k \in Nat : k <= n => f[k] = g[k]}
<1>1. 0 \in T
    BY DEF Reads
<1>2. ASSUME NEW k \in T
      PROVE  k + 1 \in T
    <2> SUFFICES ASSUME k + 1 <= n PROVE f[k + 1] = g[k + 1]
        OBVIOUS
    <2>1. k + 1 \in 1..n /\ k + 1 \in 1..Len(p) /\ k + 1 \in 1..Len(q) /\ (k + 1) - 1 = k /\ f[k] = g[k]
        OBVIOUS
    <2>2. f[k + 1] = AddByte(f[(k + 1) - 1], p[k + 1]) /\ g[k + 1] = AddByte(g[(k + 1) - 1], q[k + 1])
        BY <2>1 DEF Reads
    <2>3. p[k + 1] = q[k + 1]
        BY <2>1
    <2> QED
        BY <2>1, <2>2, <2>3
<1>3. T = Nat
    <2> HIDE DEF T
    <2>1. T \in SUBSET Nat
        BY DEF T
    <2> QED
        BY <1>1, <1>2, <2>1, Induction
<1> QED
    BY <1>3

(* A byte more. *)
LEMMA SplitLonger ==
    ASSUME NEW B, NEW p \in Seq(B), NEW b \in B
    PROVE  Split(Append(p, b)) = AddByte(Split(p), b)
<1> DEFINE q == Append(p, b)
           n == Len(p)
<1>1. q \in Seq(B) /\ Len(q) = n + 1 /\ q[n + 1] = b /\ n \in Nat /\ \A i \in 1..n : p[i] = q[i]
    BY EndsOf
<1> HIDE DEF q
<1>2. PICK f : Reads(f, p, B)
    BY Splitting
<1>3. PICK g : Reads(g, q, B)
    BY <1>1, Splitting
<1>4. f[n] = g[n]
    <2> HIDE DEF n
    <2>1. n <= Len(p) /\ n <= Len(q)
        BY <1>1 DEF n
    <2> QED
        BY <1>1, <1>2, <1>3, <2>1, ReadAlike
<1>5. g[n + 1] = AddByte(g[n], b)
    <2>1. n + 1 \in 1..Len(q) /\ (n + 1) - 1 = n
        BY <1>1
    <2>2. g[n + 1] = AddByte(g[(n + 1) - 1], q[n + 1])
        BY <1>3, <2>1 DEF Reads
    <2> QED
        BY <1>1, <2>1, <2>2
<1>6. Split(q) = g[n + 1] /\ Split(p) = f[n]
    BY <1>1, <1>2, <1>3 DEF Reads
<1> QED
    BY <1>4, <1>5, <1>6 DEF q

(* Nothing is one segment, an empty one. *)
LEMMA SplitNothing == Split(<<>>) = << <<>> >>
<1>1. <<>> \in Seq({}) /\ Len(<<>>) = 0
    OBVIOUS
<1>2. PICK f : Reads(f, <<>>, {})
    BY <1>1, Splitting
<1> QED
    BY <1>1, <1>2 DEF Reads

(* The segments of a path, at least one. *)
LEMMA SplitType ==
    ASSUME NEW B, NEW p \in Seq(B)
    PROVE  Split(p) \in Seq(Seq(B)) /\ Split(p) # <<>>
<1>1. PICK read : Reads(read, p, B)
    BY Splitting
<1> QED
    BY <1>1 DEF Reads

(* A segment more on the stack. *)
LEMMA StackedLonger ==
    ASSUME NEW S, <<>> \in S, NEW segs \in Seq(S), NEW seg \in S
    PROVE  Stacked(Append(segs, seg)) = Push(Stacked(segs), seg)
<1> DEFINE longer == Append(segs, seg)
           n == Len(segs)
<1>1. longer \in Seq(S) /\ Len(longer) = n + 1 /\ longer[n + 1] = seg /\ n \in Nat /\ \A i \in 1..n : segs[i] = longer[i]
    BY EndsOf
<1> HIDE DEF longer
<1>2. PICK f : Stacks(f, segs, S)
    BY Stacking
<1>3. PICK g : Stacks(g, longer, S)
    BY <1>1, Stacking
<1> DEFINE T == {k \in Nat : k <= n => f[k] = g[k]}
<1>4. 0 \in T
    BY <1>2, <1>3 DEF Stacks
<1>5. ASSUME NEW k \in T
      PROVE  k + 1 \in T
    <2> SUFFICES ASSUME k + 1 <= n PROVE f[k + 1] = g[k + 1]
        OBVIOUS
    <2>1. k + 1 \in 1..n /\ k + 1 \in 1..Len(longer) /\ (k + 1) - 1 = k /\ f[k] = g[k]
        BY <1>1
    <2>2. f[k + 1] = Push(f[(k + 1) - 1], segs[k + 1])
        BY <1>2, <2>1 DEF Stacks
    <2>3. g[k + 1] = Push(g[(k + 1) - 1], longer[k + 1])
        BY <1>3, <2>1 DEF Stacks
    <2>4. segs[k + 1] = longer[k + 1]
        BY <1>1, <2>1
    <2> QED
        BY <2>1, <2>2, <2>3, <2>4
<1>6. T = Nat
    <2> HIDE DEF T
    <2>1. T \in SUBSET Nat
        BY DEF T
    <2> QED
        BY <1>4, <1>5, <2>1, Induction
<1>7. f[n] = g[n]
    BY <1>1, <1>6
<1>8. g[n + 1] = Push(g[n], seg)
    <2>1. n + 1 \in 1..Len(longer) /\ (n + 1) - 1 = n
        BY <1>1
    <2>2. g[n + 1] = Push(g[(n + 1) - 1], longer[n + 1])
        BY <1>3, <2>1 DEF Stacks
    <2> QED
        BY <1>1, <2>1, <2>2
<1>9. Stacked(longer) = g[n + 1] /\ Stacked(segs) = f[n]
    BY <1>1, <1>2, <1>3 DEF Stacks
<1> QED
    BY <1>7, <1>8, <1>9 DEF longer

(* No segments leave no stack. *)
LEMMA StackedNothing == Stacked(<<>>) = <<>>
<1>1. <<>> \in Seq({}) /\ Len(<<>>) = 0
    OBVIOUS
<1>2. PICK f : Stacks(f, <<>>, {})
    BY <1>1, Stacking
<1> QED
    BY <1>1, <1>2 DEF Stacks

(* A segment more behind the others. *)
LEMMA JoinLonger ==
    ASSUME NEW B, "/" \in B, NEW segs \in Seq(Seq(B)), NEW seg \in Seq(B)
    PROVE  Join(Append(segs, seg)) = AddSegment(Join(segs), seg)
<1> DEFINE longer == Append(segs, seg)
           n == Len(segs)
           S == Seq(B)
<1> HIDE DEF S
<1>1. longer \in Seq(S) /\ Len(longer) = n + 1 /\ longer[n + 1] = seg /\ n \in Nat /\ \A i \in 1..n : segs[i] = longer[i]
    BY EndsOf DEF S
<1> HIDE DEF longer
<1>2. PICK f : Joins(f, segs, B)
    BY Joining
<1>3. PICK g : Joins(g, longer, B)
    BY <1>1, Joining DEF S
<1> DEFINE T == {k \in Nat : k <= n => f[k] = g[k]}
<1>4. 0 \in T
    BY <1>2, <1>3 DEF Joins
<1>5. ASSUME NEW k \in T
      PROVE  k + 1 \in T
    <2> SUFFICES ASSUME k + 1 <= n PROVE f[k + 1] = g[k + 1]
        OBVIOUS
    <2>1. k + 1 \in 1..n /\ k + 1 \in 1..Len(longer) /\ (k + 1) - 1 = k /\ f[k] = g[k]
        BY <1>1, SMTT(30)
    <2>2. f[k + 1] = AddSegment(f[(k + 1) - 1], segs[k + 1])
        BY <1>2, <2>1 DEF Joins
    <2>3. g[k + 1] = AddSegment(g[(k + 1) - 1], longer[k + 1])
        BY <1>3, <2>1 DEF Joins
    <2>4. segs[k + 1] = longer[k + 1]
        BY <1>1, <2>1
    <2> QED
        BY <2>1, <2>2, <2>3, <2>4
<1>6. T = Nat
    <2> HIDE DEF T
    <2>1. T \in SUBSET Nat
        BY DEF T
    <2> QED
        BY <1>4, <1>5, <2>1, Induction
<1>7. f[n] = g[n]
    BY <1>1, <1>6
<1>8. g[n + 1] = AddSegment(g[n], seg)
    <2>1. n + 1 \in 1..Len(longer) /\ (n + 1) - 1 = n
        BY <1>1
    <2>2. g[n + 1] = AddSegment(g[(n + 1) - 1], longer[n + 1])
        BY <1>3, <2>1 DEF Joins
    <2> QED
        BY <1>1, <2>1, <2>2
<1>9. Join(longer) = g[n + 1] /\ Join(segs) = f[n]
    BY <1>1, <1>2, <1>3 DEF Joins
<1> QED
    BY <1>7, <1>8, <1>9 DEF longer

(* No segments are no path. *)
LEMMA JoinNothing == Join(<<>>) = <<>>
<1>1. <<>> \in Seq(Seq({"/"})) /\ Len(<<>>) = 0
    OBVIOUS
<1>2. PICK f : Joins(f, <<>>, {"/"})
    BY <1>1, Joining
<1> QED
    BY <1>1, <1>2 DEF Joins

-----------------------------------------------------------------------------
(* A sequence is its beginnings, one element at a time. *)
LEMMA Beginnings ==
    ASSUME NEW S, NEW s \in Seq(S)
    PROVE  /\ Len(s) \in Nat /\ SubSeq(s, 1, 0) = <<>> /\ SubSeq(s, 1, Len(s)) = s
           /\ \A k \in 0..Len(s) : SubSeq(s, 1, k) \in Seq(S) /\ Len(SubSeq(s, 1, k)) = k
           /\ \A k \in Nat : k + 1 <= Len(s) => s[k + 1] \in S /\ SubSeq(s, 1, k + 1) = Append(SubSeq(s, 1, k), s[k + 1])
<1>1. Len(s) \in Nat /\ SubSeq(s, 1, 0) = <<>>
    OBVIOUS
<1>2. SubSeq(s, 1, Len(s)) = s
    OBVIOUS
<1>3. \A k \in 0..Len(s) : SubSeq(s, 1, k) \in Seq(S) /\ Len(SubSeq(s, 1, k)) = k
    OBVIOUS
<1>4. ASSUME NEW k \in Nat, k + 1 <= Len(s)
      PROVE  s[k + 1] \in S /\ SubSeq(s, 1, k + 1) = Append(SubSeq(s, 1, k), s[k + 1])
    <2>1. s[k + 1] \in S
        BY <1>4
    <2>2. 0 \in Nat /\ 0 <= k /\ 0 + 1 = 1
        OBVIOUS
    <2>3. SubSeq(s, 0 + 1, k + 1) = Append(SubSeq(s, 0 + 1, k), s[k + 1])
        BY <1>4, <2>2, SubSeqGrows
    <2> QED
        BY <2>1, <2>2, <2>3
<1> QED
    BY <1>1, <1>2, <1>3, <1>4

NoSlash(seg) == \A i \in 1..Len(seg) : seg[i] # "/"

(* A segment behind a path is one segment of it. *)
LEMMA SplitSegment ==
    ASSUME NEW B, "/" \in B, NEW p \in Seq(B), NEW seg \in Seq(B), NoSlash(seg)
    PROVE  Split(AddSegment(p, seg)) = Append(Split(p), seg)
<1> DEFINE part(k) == SubSeq(seg, 1, k)
           T == {k \in Nat : k <= Len(seg) => Split(AddSegment(p, part(k))) = Append(Split(p), part(k))}
           segs == Split(p)
<1>1. /\ Len(seg) \in Nat /\ part(0) = <<>> /\ part(Len(seg)) = seg
      /\ \A k \in 0..Len(seg) : part(k) \in Seq(B)
      /\ \A k \in Nat : k + 1 <= Len(seg) => seg[k + 1] \in B /\ part(k + 1) = Append(part(k), seg[k + 1])
    BY Beginnings
<1>2. segs \in Seq(Seq(B))
    BY SplitType
<1> HIDE DEF part, segs
<1>3. 0 \in T
    <2>1. AddSegment(p, <<>>) = Append(p, "/")
        BY DEF AddSegment
    <2>2. Split(Append(p, "/")) = AddByte(Split(p), "/")
        BY SplitLonger
    <2>3. AddByte(Split(p), "/") = Append(Split(p), <<>>)
        BY DEF AddByte
    <2> QED
        BY <1>1, <2>1, <2>2, <2>3
<1>4. ASSUME NEW k \in T
      PROVE  k + 1 \in T
    <2> SUFFICES ASSUME k + 1 <= Len(seg)
                 PROVE  Split(AddSegment(p, part(k + 1))) = Append(Split(p), part(k + 1))
        OBVIOUS
    <2> DEFINE x == part(k)
               b == seg[k + 1]
    <2>1. k \in Nat /\ k \in 0..Len(seg) /\ k <= Len(seg) /\ k + 1 \in 1..Len(seg)
        BY <1>1
    <2>2. b \in B /\ b # "/" /\ x \in Seq(B) /\ part(k + 1) = Append(x, b)
        BY <1>1, <2>1 DEF NoSlash
    <2>3. Split(AddSegment(p, x)) = Append(segs, x)
        BY <2>1 DEF segs
    <2> HIDE DEF x, b, T
    <2>4. AddSegment(p, x) \in Seq(B) /\ AddSegment(p, Append(x, b)) = Append(AddSegment(p, x), b)
        BY <2>2 DEF AddSegment
    <2>5. Split(AddSegment(p, Append(x, b))) = AddByte(Append(segs, x), b)
        <3> DEFINE y == AddSegment(p, x)
        <3> HIDE DEF y
        <3>1. Split(Append(y, b)) = AddByte(Split(y), b)
            BY <2>2, <2>4, SplitLonger DEF y
        <3> QED
            BY <2>3, <2>4, <3>1 DEF y
    <2>6. AddByte(Append(segs, x), b) = Append(segs, Append(x, b))
        <3> DEFINE S == Seq(B)
        <3> HIDE DEF S
        <3>1. segs \in Seq(S) /\ x \in S
            BY <1>2, <2>2 DEF S
        <3>2. Front(Append(segs, x)) = segs /\ Last(Append(segs, x)) = x
            BY <3>1, EndsOf
        <3> QED
            BY <2>2, <3>2 DEF AddByte
    <2> QED
        BY <2>2, <2>5, <2>6 DEF segs
<1>5. T = Nat
    <2> HIDE DEF T
    <2>1. T \in SUBSET Nat
        BY DEF T
    <2> QED
        BY <1>3, <1>4, <2>1, Induction
<1>6. Len(seg) \in T /\ Len(seg) <= Len(seg)
    <2> HIDE DEF T
    <2> QED
        BY <1>1, <1>5
<1>7. Split(AddSegment(p, part(Len(seg)))) = Append(Split(p), part(Len(seg)))
    BY <1>6
<1> QED
    BY <1>1, <1>7

(* What is between two slashes has none in it. *)
LEMMA SegmentsHaveNoSlash ==
    ASSUME NEW B, NEW p \in Seq(B)
    PROVE  \A i \in 1..Len(Split(p)) : NoSlash(Split(p)[i])
<1> DEFINE AllFree(segs) == \A i \in 1..Len(segs) : NoSlash(segs[i])
           T == {k \in Nat : k <= Len(p) => AllFree(Split(SubSeq(p, 1, k)))}
           S == Seq(B)
<1> HIDE DEF S
<1>1. /\ Len(p) \in Nat /\ SubSeq(p, 1, 0) = <<>> /\ SubSeq(p, 1, Len(p)) = p
      /\ \A k \in 0..Len(p) : SubSeq(p, 1, k) \in Seq(B)
      /\ \A k \in Nat : k + 1 <= Len(p) => p[k + 1] \in B /\ SubSeq(p, 1, k + 1) = Append(SubSeq(p, 1, k), p[k + 1])
    BY Beginnings
<1>2. 0 \in T
    <2>1. AllFree(<< <<>> >>)
        BY DEF NoSlash
    <2> QED
        BY <1>1, <2>1, SplitNothing
<1>3. ASSUME NEW k \in T
      PROVE  k + 1 \in T
    <2> SUFFICES ASSUME k + 1 <= Len(p) PROVE AllFree(Split(SubSeq(p, 1, k + 1)))
        OBVIOUS
    <2> DEFINE segs == Split(SubSeq(p, 1, k))
               b == p[k + 1]
    <2>1. k \in Nat /\ k \in 0..Len(p) /\ k <= Len(p)
        BY <1>1
    <2>2. b \in B /\ SubSeq(p, 1, k) \in Seq(B)
        BY <1>1, <2>1
    <2>3. segs \in Seq(S) /\ segs # <<>> /\ AllFree(segs)
        BY <2>1, <2>2, SplitType DEF S
    <2>4. Split(SubSeq(p, 1, k + 1)) = AddByte(segs, b)
        BY <1>1, <2>1, <2>2, SplitLonger
    <2> HIDE DEF segs, b
    <2> SUFFICES AllFree(AddByte(segs, b))
        BY <2>4
    <2>5. <<>> \in S /\ NoSlash(<<>>)
        BY DEF S, NoSlash
    <2>6. CASE b = "/"
        <3>1. Append(segs, <<>>) \in Seq(S) /\ Len(Append(segs, <<>>)) = Len(segs) + 1 /\ Append(segs, <<>>)[Len(segs) + 1] = <<>>
              /\ \A i \in 1..Len(segs) : Append(segs, <<>>)[i] = segs[i]
            BY <2>3, <2>5, EndsOf
        <3>2. AllFree(Append(segs, <<>>))
            BY <2>3, <2>5, <3>1
        <3> QED
            BY <2>6, <3>2 DEF AddByte
    <2>7. CASE b # "/"
        <3> DEFINE last == Append(Last(segs), b)
                   front == Front(segs)
        <3>1. Last(segs) \in S /\ Last(segs) = segs[Len(segs)] /\ Len(segs) \in 1..Len(segs)
            BY <2>3, EndsOf DEF Last
        <3>2. front \in Seq(S) /\ Len(front) = Len(segs) - 1 /\ \A i \in 1..(Len(segs) - 1) : front[i] = segs[i]
            BY <2>3, <2>5, EndsOf
        <3>3. last \in S /\ NoSlash(last)
            <4>1. NoSlash(Last(segs))
                BY <2>3, <3>1
            <4>2. last \in Seq(B) /\ Len(last) = Len(Last(segs)) + 1 /\ last[Len(Last(segs)) + 1] = b
                  /\ \A i \in 1..Len(Last(segs)) : last[i] = Last(segs)[i]
                BY <2>2, <3>1, EndsOf DEF S, b
            <4> QED
                BY <2>7, <4>1, <4>2 DEF NoSlash, S
        <3> HIDE DEF last, front
        <3>4. /\ Append(front, last) \in Seq(S) /\ Len(Append(front, last)) = Len(front) + 1
              /\ Append(front, last)[Len(front) + 1] = last /\ \A i \in 1..Len(front) : Append(front, last)[i] = front[i]
            BY <3>2, <3>3, EndsOf
        <3>5. AllFree(Append(front, last))
            <4> SUFFICES ASSUME NEW i \in 1..Len(Append(front, last)) PROVE NoSlash(Append(front, last)[i])
                OBVIOUS
            <4>1. CASE i = Len(front) + 1
                BY <3>3, <3>4, <4>1
            <4>2. CASE i \in 1..Len(front)
                BY <2>3, <3>2, <3>4, <4>2
            <4> QED
                BY <3>2, <3>4, <4>1, <4>2
        <3>6. AddByte(segs, b) = Append(front, last)
            BY <2>7 DEF AddByte, last, front
        <3> QED
            BY <3>5, <3>6
    <2> QED
        BY <2>6, <2>7
<1>4. T = Nat
    <2> HIDE DEF T
    <2>1. T \in SUBSET Nat
        BY DEF T
    <2> QED
        BY <1>2, <1>3, <2>1, Induction
<1>5. Len(p) \in T /\ Len(p) <= Len(p)
    <2> HIDE DEF T
    <2> QED
        BY <1>1, <1>4
<1>6. AllFree(Split(SubSeq(p, 1, Len(p))))
    BY <1>5
<1> QED
    BY <1>1, <1>6

-----------------------------------------------------------------------------
(* What is counted up to n, and one further. *)
LEMMA Counted ==
    ASSUME NEW D, NEW i \in Nat, NEW n \in Nat, i <= n + 1
    PROVE  /\ Cardinality((i..n) \cap D) \in Nat
           /\ i = n + 1 => Cardinality((i..n) \cap D) = 0
           /\ Cardinality((i..(n + 1)) \cap D) = Cardinality((i..n) \cap D) + (IF n + 1 \in D THEN 1 ELSE 0)
<1> DEFINE X == (i..n) \cap D
           Y == (i..(n + 1)) \cap D
<1>1. IsFiniteSet(X) /\ Cardinality(X) \in Nat
    <2>1. IsFiniteSet(i..n)
        BY FS_Interval
    <2> QED
        BY <2>1, FS_Subset, FS_CardinalityType
<1>2. i = n + 1 => Cardinality(X) = 0
    <2>1. i = n + 1 => X = {}
        OBVIOUS
    <2> QED
        BY <2>1, FS_EmptySet
<1>3. CASE n + 1 \in D
    <2>1. Y = X \cup {n + 1} /\ n + 1 \notin X
        BY <1>3
    <2> HIDE DEF X, Y
    <2> QED
        BY <1>1, <1>2, <1>3, <2>1, FS_AddElement DEF X, Y
<1>4. CASE n + 1 \notin D
    <2>1. Y = X
        BY <1>4
    <2> QED
        BY <1>1, <1>2, <1>4, <2>1
<1> QED
    BY <1>3, <1>4

(* The names and the ".." among the segments, one segment further. *)
LEMMA CountedSegments ==
    ASSUME NEW segs, NEW i \in Nat, NEW n \in Nat, i <= n + 1
    PROVE  /\ NamesIn(segs, i, n) \in Nat /\ UpsIn(segs, i, n) \in Nat
           /\ i = n + 1 => NamesIn(segs, i, n) = 0 /\ UpsIn(segs, i, n) = 0
           /\ NamesIn(segs, i, n + 1) = NamesIn(segs, i, n) + (IF Name(segs[n + 1]) THEN 1 ELSE 0)
           /\ UpsIn(segs, i, n + 1) = UpsIn(segs, i, n) + (IF segs[n + 1] = DotDot THEN 1 ELSE 0)
<1> DEFINE D == {k \in Nat : Name(segs[k])}
           E == {k \in Nat : segs[k] = DotDot}
<1>1. NamesIn(segs, i, n) = Cardinality((i..n) \cap D) /\ NamesIn(segs, i, n + 1) = Cardinality((i..(n + 1)) \cap D)
    <2>1. {k \in i..n : Name(segs[k])} = (i..n) \cap D /\ {k \in i..(n + 1) : Name(segs[k])} = (i..(n + 1)) \cap D
        OBVIOUS
    <2> QED
        BY <2>1 DEF NamesIn
<1>2. UpsIn(segs, i, n) = Cardinality((i..n) \cap E) /\ UpsIn(segs, i, n + 1) = Cardinality((i..(n + 1)) \cap E)
    <2>1. {k \in i..n : segs[k] = DotDot} = (i..n) \cap E /\ {k \in i..(n + 1) : segs[k] = DotDot} = (i..(n + 1)) \cap E
        OBVIOUS
    <2> QED
        BY <2>1 DEF UpsIn
<1>3. (n + 1 \in D <=> Name(segs[n + 1])) /\ (n + 1 \in E <=> segs[n + 1] = DotDot)
    OBVIOUS
<1> HIDE DEF D, E
<1>4. /\ Cardinality((i..n) \cap D) \in Nat
      /\ i = n + 1 => Cardinality((i..n) \cap D) = 0
      /\ Cardinality((i..(n + 1)) \cap D) = Cardinality((i..n) \cap D) + (IF n + 1 \in D THEN 1 ELSE 0)
    BY Counted, ZenonT(30)
<1>5. /\ Cardinality((i..n) \cap E) \in Nat
      /\ i = n + 1 => Cardinality((i..n) \cap E) = 0
      /\ Cardinality((i..(n + 1)) \cap E) = Cardinality((i..n) \cap E) + (IF n + 1 \in E THEN 1 ELSE 0)
    BY Counted, ZenonT(30)
<1> QED
    BY <1>1, <1>2, <1>3, <1>4, <1>5

(* What stays behind one segment more. *)
LEMMA StaysLonger ==
    ASSUME NEW segs, NEW n \in Nat
    PROVE  \A i : i \in Stays(segs, n + 1) <=>
                  \/ i = n + 1 /\ Name(segs[n + 1])
                  \/ i \in Stays(segs, n) /\ UpsIn(segs, i + 1, n + 1) <= NamesIn(segs, i + 1, n + 1)
<1> SUFFICES ASSUME NEW i
             PROVE  i \in Stays(segs, n + 1) <=>
                  \/ i = n + 1 /\ Name(segs[n + 1])
                  \/ i \in Stays(segs, n) /\ UpsIn(segs, i + 1, n + 1) <= NamesIn(segs, i + 1, n + 1)
    OBVIOUS
<1>1. CASE i \in 1..n
    <2>1. (i + 1)..(n + 1) = ((i + 1)..n) \cup {n + 1} /\ i # n + 1 /\ i \in 1..(n + 1)
        BY <1>1
    <2> QED
        BY <1>1, <2>1 DEF Stays
<1>2. CASE i = n + 1
    <2>1. (i + 1)..(n + 1) = {} /\ i \in 1..(n + 1) /\ i \notin 1..n
        BY <1>2
    <2> QED
        BY <1>2, <2>1 DEF Stays
<1>3. CASE i \notin 1..(n + 1)
    <2>1. i \notin 1..n /\ i # n + 1
        BY <1>3
    <2> QED
        BY <1>3, <2>1 DEF Stays
<1> QED
    BY <1>1, <1>2, <1>3

(***************************************************************************)
(* The stack behind n segments is the names that stay, in order; and there *)
(* have been as many more names than ".." behind each as the stack holds   *)
(* above it.                                                               *)
(***************************************************************************)
Listed(order, segs, out, n) ==
    /\ order \in [1..Len(out) -> 1..n]
    /\ \A j, k \in 1..Len(out) : j < k => order[j] < order[k]
    /\ \A i : i \in Stays(segs, n) <=> \E k \in 1..Len(out) : order[k] = i
    /\ \A k \in 1..Len(out) :
          /\ out[k] = segs[order[k]]
          /\ NamesIn(segs, order[k] + 1, n) = UpsIn(segs, order[k] + 1, n) + (Len(out) - k)
    /\ IsFiniteSet(Stays(segs, n)) /\ Cardinality(Stays(segs, n)) = Len(out)

(* An empty segment, or a dot. *)
LEMMA ListedPast ==
    ASSUME NEW S, NEW segs, NEW n \in Nat, NEW out \in Seq(S), NEW order, Listed(order, segs, out, n),
           segs[n + 1] \in {<<>>, Dot}
    PROVE  Listed(order, segs, out, n + 1)
<1>0. Len(out) \in Nat
    OBVIOUS
<1>1. ~Name(segs[n + 1]) /\ segs[n + 1] # DotDot
    <2>1. <<>> # DotDot /\ Dot # DotDot
        BY DEF Dot, DotDot
    <2> QED
        BY <2>1 DEF Name
<1>2. \A k \in 1..Len(out) : order[k] \in 1..n
    BY DEF Listed
<1>3. ASSUME NEW i \in 1..n
      PROVE  /\ NamesIn(segs, i + 1, n + 1) = NamesIn(segs, i + 1, n) /\ UpsIn(segs, i + 1, n + 1) = UpsIn(segs, i + 1, n)
             /\ NamesIn(segs, i + 1, n) \in Nat /\ UpsIn(segs, i + 1, n) \in Nat
    <2>1. i + 1 \in Nat /\ i + 1 <= n + 1
        OBVIOUS
    <2>2. NamesIn(segs, i + 1, n) \in Nat /\ UpsIn(segs, i + 1, n) \in Nat
        BY <2>1, CountedSegments, Zenon
    <2>3. /\ NamesIn(segs, i + 1, n + 1) = NamesIn(segs, i + 1, n) + 0
          /\ UpsIn(segs, i + 1, n + 1) = UpsIn(segs, i + 1, n) + 0
        BY <1>1, <2>1, CountedSegments, Zenon
    <2> QED
        BY <2>2, <2>3
<1>4. \A i \in Stays(segs, n) : UpsIn(segs, i + 1, n + 1) <= NamesIn(segs, i + 1, n + 1)
    <2> SUFFICES ASSUME NEW i \in Stays(segs, n) PROVE UpsIn(segs, i + 1, n + 1) <= NamesIn(segs, i + 1, n + 1)
        OBVIOUS
    <2>1. PICK k \in 1..Len(out) : order[k] = i
        BY DEF Listed
    <2>2. i \in 1..n /\ NamesIn(segs, i + 1, n) = UpsIn(segs, i + 1, n) + (Len(out) - k)
        BY <1>2, <2>1 DEF Listed
    <2> QED
        BY <1>0, <1>3, <2>1, <2>2
<1>5. Stays(segs, n + 1) = Stays(segs, n)
    <2>1. \A i : i \in Stays(segs, n + 1) <=> i \in Stays(segs, n)
        BY <1>1, <1>4, StaysLonger
    <2> QED
        BY <2>1
<1>6. order \in [1..Len(out) -> 1..(n + 1)]
    <2>1. order \in [1..Len(out) -> 1..n] /\ 1..n \subseteq 1..(n + 1)
        BY DEF Listed
    <2> QED
        BY <2>1
<1>7. ASSUME NEW k \in 1..Len(out)
      PROVE  NamesIn(segs, order[k] + 1, n + 1) = UpsIn(segs, order[k] + 1, n + 1) + (Len(out) - k)
    BY <1>2, <1>3 DEF Listed
<1> QED
    BY <1>5, <1>6, <1>7 DEF Listed

(* A name. *)
LEMMA ListedName ==
    ASSUME NEW S, NEW segs, NEW n \in Nat, NEW out \in Seq(S), NEW order, Listed(order, segs, out, n),
           segs[n + 1] \in S, Name(segs[n + 1])
    PROVE  \E o : Listed(o, segs, Append(out, segs[n + 1]), n + 1)
<1> DEFINE seg == segs[n + 1]
           longer == Append(out, seg)
           L == Len(out)
           o == [k \in 1..(L + 1) |-> IF k = L + 1 THEN n + 1 ELSE order[k]]
<1>0. L \in Nat /\ Len(longer) = L + 1 /\ longer[L + 1] = seg /\ \A k \in 1..L : longer[k] = out[k]
    BY EndsOf
<1>1. segs[n + 1] # DotDot
    BY DEF Name
<1>2. \A k \in 1..L : order[k] \in 1..n
    BY DEF Listed
<1>3. ASSUME NEW i \in 1..n
      PROVE  /\ NamesIn(segs, i + 1, n + 1) = NamesIn(segs, i + 1, n) + 1 /\ UpsIn(segs, i + 1, n + 1) = UpsIn(segs, i + 1, n)
             /\ NamesIn(segs, i + 1, n) \in Nat /\ UpsIn(segs, i + 1, n) \in Nat
    <2> HIDE DEF o, longer, L, seg
    <2>1. i + 1 \in Nat /\ i + 1 <= n + 1
        OBVIOUS
    <2>2. Name(segs[n + 1])
        OBVIOUS
    <2> DEFINE j == i + 1
    <2> HIDE DEF j
    <2>3. j \in Nat /\ j <= n + 1
        BY <2>1 DEF j
    <2>4. /\ NamesIn(segs, j, n) \in Nat /\ UpsIn(segs, j, n) \in Nat
          /\ NamesIn(segs, j, n + 1) = NamesIn(segs, j, n) + (IF Name(segs[n + 1]) THEN 1 ELSE 0)
          /\ UpsIn(segs, j, n + 1) = UpsIn(segs, j, n) + (IF segs[n + 1] = DotDot THEN 1 ELSE 0)
        BY <2>3, CountedSegments
    <2> QED
        BY <1>1, <2>2, <2>4 DEF j
<1>4. NamesIn(segs, (n + 1) + 1, n + 1) = 0 /\ UpsIn(segs, (n + 1) + 1, n + 1) = 0
    <2>1. (n + 1) + 1 \in Nat /\ n + 1 \in Nat /\ (n + 1) + 1 <= (n + 1) + 1
        OBVIOUS
    <2> QED
        BY <2>1, CountedSegments
<1>5. /\ o \in [1..(L + 1) -> 1..(n + 1)] /\ o[L + 1] = n + 1 /\ \A k \in 1..L : o[k] = order[k]
      /\ \A k \in 1..(L + 1) : k = L + 1 \/ k \in 1..L
    BY <1>0, <1>2
<1> HIDE DEF o, longer, L, seg
<1>6. ASSUME NEW j \in 1..(L + 1), NEW k \in 1..(L + 1), j < k
      PROVE  o[j] < o[k]
    <2>1. j \in 1..L /\ o[j] = order[j]
        BY <1>0, <1>5, <1>6
    <2>2. CASE k = L + 1
        BY <1>2, <1>5, <2>1, <2>2
    <2>3. CASE k \in 1..L
        <3>1. order[j] < order[k]
            BY <1>6, <2>1, <2>3 DEF Listed, L
        <3> QED
            BY <1>5, <2>1, <2>3, <3>1
    <2> QED
        BY <1>5, <2>2, <2>3
<1>7. \A i \in Stays(segs, n) : i \in 1..n /\ UpsIn(segs, i + 1, n + 1) <= NamesIn(segs, i + 1, n + 1)
    <2> SUFFICES ASSUME NEW i \in Stays(segs, n) PROVE i \in 1..n /\ UpsIn(segs, i + 1, n + 1) <= NamesIn(segs, i + 1, n + 1)
        OBVIOUS
    <2>1. PICK k \in 1..L : order[k] = i
        BY DEF Listed, L
    <2>2. i \in 1..n /\ NamesIn(segs, i + 1, n) = UpsIn(segs, i + 1, n) + (L - k)
        BY <1>2, <2>1 DEF Listed, L
    <2> QED
        BY <1>0, <1>3, <2>1, <2>2
<1>8. Stays(segs, n + 1) = Stays(segs, n) \cup {n + 1}
    <2>1. \A i : i \in Stays(segs, n + 1) <=> i = n + 1 \/ i \in Stays(segs, n)
        BY <1>7, StaysLonger
    <2> QED
        BY <2>1
<1>9. \A i : i \in Stays(segs, n + 1) <=> \E k \in 1..(L + 1) : o[k] = i
    <2> SUFFICES ASSUME NEW i PROVE i \in Stays(segs, n + 1) <=> \E k \in 1..(L + 1) : o[k] = i
        OBVIOUS
    <2>1. i \in Stays(segs, n) <=> \E k \in 1..L : order[k] = i
        BY DEF Listed, L
    <2>2. (\E k \in 1..(L + 1) : o[k] = i) <=> i = n + 1 \/ \E k \in 1..L : order[k] = i
        <3>1. L + 1 \in 1..(L + 1) /\ 1..L \subseteq 1..(L + 1)
            BY <1>0
        <3> QED
            BY <1>5, <3>1
    <2> QED
        BY <1>8, <2>1, <2>2
<1>10. ASSUME NEW k \in 1..(L + 1)
       PROVE  /\ longer[k] = segs[o[k]]
              /\ NamesIn(segs, o[k] + 1, n + 1) = UpsIn(segs, o[k] + 1, n + 1) + ((L + 1) - k)
    <2>1. CASE k = L + 1
        BY <1>0, <1>4, <1>5, <2>1 DEF seg
    <2>2. CASE k \in 1..L
        <3>1. out[k] = segs[order[k]] /\ NamesIn(segs, order[k] + 1, n) = UpsIn(segs, order[k] + 1, n) + (L - k)
            BY <2>2 DEF Listed, L
        <3>2. order[k] \in 1..n /\ o[k] = order[k] /\ longer[k] = out[k]
            BY <1>0, <1>2, <1>5, <2>2
        <3>3. /\ NamesIn(segs, order[k] + 1, n + 1) = NamesIn(segs, order[k] + 1, n) + 1
              /\ UpsIn(segs, order[k] + 1, n + 1) = UpsIn(segs, order[k] + 1, n)
              /\ NamesIn(segs, order[k] + 1, n) \in Nat /\ UpsIn(segs, order[k] + 1, n) \in Nat
            BY <1>3, <3>2
        <3> QED
            BY <1>0, <3>1, <3>2, <3>3
    <2> QED
        BY <1>5, <2>1, <2>2
<1>11. IsFiniteSet(Stays(segs, n + 1)) /\ Cardinality(Stays(segs, n + 1)) = L + 1
    <2>1. IsFiniteSet(Stays(segs, n)) /\ Cardinality(Stays(segs, n)) = L
        BY DEF Listed, L
    <2>2. n + 1 \notin Stays(segs, n)
        BY <1>7
    <2> QED
        BY <1>8, <2>1, <2>2, FS_AddElement
<1>12. Listed(o, segs, longer, n + 1)
    <2> DEFINE M == L + 1
    <2>1. Len(longer) = M
        BY <1>0
    <2> HIDE DEF M
    <2> QED
        BY <1>5, <1>6, <1>9, <1>10, <1>11, <2>1 DEF Listed, M
<1> QED
    BY <1>12 DEF longer, seg

(* A "..". *)
LEMMA ListedUp ==
    ASSUME NEW S, NEW segs, NEW n \in Nat, NEW out \in Seq(S), NEW order, Listed(order, segs, out, n),
           segs[n + 1] = DotDot
    PROVE  \E o : Listed(o, segs, IF out = <<>> THEN out ELSE Front(out), n + 1)
<1> DEFINE L == Len(out)
           M == IF L = 0 THEN 0 ELSE L - 1
           shorter == IF out = <<>> THEN out ELSE Front(out)
           o == [k \in 1..M |-> order[k]]
<1>0. L \in Nat /\ M \in Nat /\ (L # 0 => L = M + 1) /\ (L = 0 => M = 0) /\ Len(shorter) = M /\ \A k \in 1..M : shorter[k] = out[k]
    <2>1. CASE out = <<>>
        BY <2>1
    <2>2. CASE out # <<>>
        <3>1. L \in Nat /\ L # 0
            BY <2>2
        <3>2. Len(Front(out)) = L - 1 /\ \A k \in 1..(L - 1) : Front(out)[k] = out[k]
            BY <2>2, FrontOf
        <3> QED
            BY <2>2, <3>1, <3>2
    <2> QED
        BY <2>1, <2>2
<1>1. ~Name(segs[n + 1])
    BY DEF Name
<1>2. \A k \in 1..L : order[k] \in 1..n
    BY DEF Listed
<1>3. ASSUME NEW i \in 1..n
      PROVE  /\ NamesIn(segs, i + 1, n + 1) = NamesIn(segs, i + 1, n) /\ UpsIn(segs, i + 1, n + 1) = UpsIn(segs, i + 1, n) + 1
             /\ NamesIn(segs, i + 1, n) \in Nat /\ UpsIn(segs, i + 1, n) \in Nat
    <2> HIDE DEF o, shorter, L, M
    <2>1. i + 1 \in Nat /\ i + 1 <= n + 1
        OBVIOUS
    <2>2. segs[n + 1] = DotDot
        OBVIOUS
    <2> DEFINE j == i + 1
    <2> HIDE DEF j
    <2>3. j \in Nat /\ j <= n + 1
        BY <2>1 DEF j
    <2>4. /\ NamesIn(segs, j, n) \in Nat /\ UpsIn(segs, j, n) \in Nat
          /\ NamesIn(segs, j, n + 1) = NamesIn(segs, j, n) + (IF Name(segs[n + 1]) THEN 1 ELSE 0)
          /\ UpsIn(segs, j, n + 1) = UpsIn(segs, j, n) + (IF segs[n + 1] = DotDot THEN 1 ELSE 0)
        BY <2>3, CountedSegments
    <2> QED
        BY <1>1, <2>2, <2>4 DEF j
<1>4. 1..M \subseteq 1..L
    BY <1>0
<1> HIDE DEF shorter, L, M
<1>5. o \in [1..M -> 1..(n + 1)] /\ \A k \in 1..M : o[k] = order[k]
    BY <1>2, <1>4
<1> HIDE DEF o
<1>6. ASSUME NEW j \in 1..M, NEW k \in 1..M, j < k
      PROVE  o[j] < o[k]
    <2>1. order[j] < order[k]
        BY <1>4, <1>6 DEF Listed, L
    <2> QED
        BY <1>5, <2>1
<1>7. ASSUME NEW k \in 1..L
      PROVE  /\ order[k] \in Stays(segs, n)
             /\ order[k] \in Stays(segs, n + 1) <=> k \in 1..M
             /\ NamesIn(segs, order[k] + 1, n + 1) = UpsIn(segs, order[k] + 1, n + 1) + (M - k)
    <2>1. order[k] \in 1..n /\ order[k] # n + 1
        BY <1>2
    <2>2. order[k] \in Stays(segs, n)
        BY DEF Listed, L
    <2>3. /\ NamesIn(segs, order[k] + 1, n + 1) = NamesIn(segs, order[k] + 1, n)
          /\ UpsIn(segs, order[k] + 1, n + 1) = UpsIn(segs, order[k] + 1, n) + 1
          /\ NamesIn(segs, order[k] + 1, n) \in Nat /\ UpsIn(segs, order[k] + 1, n) \in Nat
        BY <1>3, <2>1
    <2>4. NamesIn(segs, order[k] + 1, n) = UpsIn(segs, order[k] + 1, n) + (L - k)
        BY DEF Listed, L
    <2>5. L = M + 1 /\ k \in Nat /\ k >= 1
        BY <1>0
    <2>6. NamesIn(segs, order[k] + 1, n + 1) = UpsIn(segs, order[k] + 1, n + 1) + (M - k)
        BY <1>0, <2>3, <2>4, <2>5
    <2>7. order[k] \in Stays(segs, n + 1) <=> UpsIn(segs, order[k] + 1, n + 1) <= NamesIn(segs, order[k] + 1, n + 1)
        BY <2>1, <2>2, StaysLonger
    <2> QED
        BY <1>0, <2>2, <2>3, <2>5, <2>6, <2>7
<1>8. \A i : i \in Stays(segs, n + 1) <=> \E k \in 1..M : o[k] = i
    <2> SUFFICES ASSUME NEW i PROVE i \in Stays(segs, n + 1) <=> \E k \in 1..M : o[k] = i
        OBVIOUS
    <2>1. ASSUME i \in Stays(segs, n + 1) PROVE \E k \in 1..M : o[k] = i
        <3>1. i \in Stays(segs, n)
            BY <1>1, <2>1, StaysLonger
        <3>2. PICK k \in 1..L : order[k] = i
            BY <3>1 DEF Listed, L
        <3>3. k \in 1..M
            BY <1>7, <2>1, <3>2
        <3> QED
            BY <1>5, <3>2, <3>3
    <2>2. ASSUME NEW k \in 1..M, o[k] = i PROVE i \in Stays(segs, n + 1)
        BY <1>4, <1>5, <1>7, <2>2
    <2> QED
        BY <2>1, <2>2
<1>9. ASSUME NEW k \in 1..M
      PROVE  /\ shorter[k] = segs[o[k]]
             /\ NamesIn(segs, o[k] + 1, n + 1) = UpsIn(segs, o[k] + 1, n + 1) + (M - k)
    <2>1. k \in 1..L /\ o[k] = order[k] /\ shorter[k] = out[k]
        BY <1>0, <1>4, <1>5
    <2>2. out[k] = segs[order[k]]
        BY <2>1 DEF Listed, L
    <2> QED
        BY <1>7, <2>1, <2>2
<1>10. IsFiniteSet(Stays(segs, n + 1)) /\ Cardinality(Stays(segs, n + 1)) = M
    <2>1. IsFiniteSet(Stays(segs, n)) /\ Cardinality(Stays(segs, n)) = L
        BY DEF Listed, L
    <2>2. CASE L = 0
        <3>1. Stays(segs, n) = {}
            BY <2>1, <2>2, FS_EmptySet
        <3>2. \A i : i \in Stays(segs, n + 1) => i \in Stays(segs, n)
            BY <1>1, StaysLonger
        <3>3. Stays(segs, n + 1) = {}
            BY <3>1, <3>2
        <3> QED
            BY <1>0, <2>2, <3>3, FS_EmptySet
    <2>3. CASE L # 0
        <3>1. L \in 1..L /\ L \notin 1..M
            BY <1>0, <2>3
        <3>2. order[L] \in Stays(segs, n) /\ order[L] \notin Stays(segs, n + 1)
            BY <1>7, <3>1
        <3>3. \A i \in Stays(segs, n) : i # order[L] => i \in Stays(segs, n + 1)
            <4> SUFFICES ASSUME NEW i \in Stays(segs, n), i # order[L] PROVE i \in Stays(segs, n + 1)
                OBVIOUS
            <4>1. PICK k \in 1..L : order[k] = i
                BY DEF Listed, L
            <4>2. k \in 1..M
                BY <1>0, <2>3, <4>1
            <4> QED
                BY <1>7, <4>1, <4>2
        <3>4. \A i : i \in Stays(segs, n + 1) => i \in Stays(segs, n)
            BY <1>1, StaysLonger
        <3>5. Stays(segs, n + 1) = Stays(segs, n) \ {order[L]}
            BY <3>2, <3>3, <3>4
        <3>6. IsFiniteSet(Stays(segs, n + 1)) /\ Cardinality(Stays(segs, n + 1)) = L - 1
            <4> DEFINE A == Stays(segs, n)
                       x == order[L]
            <4>1. IsFiniteSet(A) /\ x \in A
                BY <2>1, <3>2
            <4> HIDE DEF A, x
            <4>2. IsFiniteSet(A \ {x}) /\ Cardinality(A \ {x}) = Cardinality(A) - 1
                BY <4>1, FS_RemoveElement
            <4> QED
                BY <2>1, <3>5, <4>2 DEF A, x
        <3> QED
            BY <1>0, <2>3, <3>6
    <2> QED
        BY <2>2, <2>3
<1>11. Listed(o, segs, shorter, n + 1)
    <2>1. Len(shorter) = M
        BY <1>0
    <2> QED
        BY <1>5, <1>6, <1>8, <1>9, <1>10, <2>1 DEF Listed
<1> QED
    BY <1>11 DEF shorter

(* The stack behind each segment lists the names that stay there, in their order. *)
LEMMA StackIsListed ==
    ASSUME NEW S, <<>> \in S, NEW segs \in Seq(S)
    PROVE  \E order : Listed(order, segs, Stacked(segs), Len(segs))
<1> DEFINE out(n) == Stacked(SubSeq(segs, 1, n))
           T == {n \in Nat : n <= Len(segs) => \E order : Listed(order, segs, out(n), n)}
<1>1. /\ Len(segs) \in Nat /\ SubSeq(segs, 1, 0) = <<>> /\ SubSeq(segs, 1, Len(segs)) = segs
      /\ \A k \in 0..Len(segs) : SubSeq(segs, 1, k) \in Seq(S)
      /\ \A k \in Nat : k + 1 <= Len(segs) => segs[k + 1] \in S /\ SubSeq(segs, 1, k + 1) = Append(SubSeq(segs, 1, k), segs[k + 1])
    BY Beginnings
<1>2. out(0) = <<>> /\ out(Len(segs)) = Stacked(segs)
    BY <1>1, StackedNothing
<1>3. \A k \in Nat : k + 1 <= Len(segs) => out(k) \in Seq(S) /\ out(k + 1) = Push(out(k), segs[k + 1])
    <2> SUFFICES ASSUME NEW k \in Nat, k + 1 <= Len(segs) PROVE out(k) \in Seq(S) /\ out(k + 1) = Push(out(k), segs[k + 1])
        OBVIOUS
    <2>1. k \in 0..Len(segs)
        BY <1>1
    <2>2. SubSeq(segs, 1, k) \in Seq(S) /\ segs[k + 1] \in S
        BY <1>1, <2>1
    <2>3. Stacked(Append(SubSeq(segs, 1, k), segs[k + 1])) = Push(out(k), segs[k + 1])
        BY <2>2, StackedLonger
    <2> QED
        BY <1>1, <2>2, <2>3, StackedType
<1> HIDE DEF out
<1>4. 0 \in T
    <2> DEFINE none == [k \in 1..0 |-> 0]
    <2>1. Stays(segs, 0) = {}
        BY DEF Stays
    <2>2. IsFiniteSet(Stays(segs, 0)) /\ Cardinality(Stays(segs, 0)) = 0
        BY <2>1, FS_EmptySet
    <2>3. none \in [1..0 -> 1..0] /\ 1..0 = {} /\ Len(<<>>) = 0
        OBVIOUS
    <2> HIDE DEF none
    <2>4. Listed(none, segs, <<>>, 0)
        BY <2>1, <2>2, <2>3 DEF Listed
    <2> QED
        BY <1>2, <2>4
<1>5. ASSUME NEW n \in T
      PROVE  n + 1 \in T
    <2> SUFFICES ASSUME n + 1 <= Len(segs) PROVE \E order : Listed(order, segs, out(n + 1), n + 1)
        OBVIOUS
    <2>1. n \in Nat /\ n <= Len(segs)
        BY <1>1
    <2>2. PICK order : Listed(order, segs, out(n), n)
        BY <2>1
    <2>3. out(n) \in Seq(S) /\ out(n + 1) = Push(out(n), segs[n + 1]) /\ segs[n + 1] \in S
        BY <1>1, <1>3, <2>1
    <2> HIDE DEF T
    <2>4. CASE segs[n + 1] \in {<<>>, Dot}
        <3>1. Listed(order, segs, out(n), n + 1)
            BY <2>1, <2>2, <2>3, <2>4, ListedPast
        <3>2. out(n + 1) = out(n)
            <4>1. <<>> # DotDot /\ Dot # DotDot
                BY DEF Dot, DotDot
            <4>2. segs[n + 1] # DotDot
                BY <2>4, <4>1
            <4> QED
                BY <2>3, <2>4, <4>2, Zenon DEF Push
        <3> QED
            BY <3>1, <3>2
    <2>5. CASE segs[n + 1] = DotDot
        <3>1. \E o : Listed(o, segs, IF out(n) = <<>> THEN out(n) ELSE Front(out(n)), n + 1)
            BY <2>1, <2>2, <2>3, <2>5, ListedUp
        <3>2. segs[n + 1] \notin {<<>>, Dot}
            <4>1. <<>> # DotDot /\ Dot # DotDot
                BY DEF Dot, DotDot
            <4> QED
                BY <2>5, <4>1
        <3>3. out(n + 1) = IF out(n) = <<>> THEN out(n) ELSE Front(out(n))
            BY <2>3, <2>5, <3>2, Zenon DEF Push
        <3> QED
            BY <3>1, <3>3, Zenon
    <2>6. CASE Name(segs[n + 1])
        <3>1. \E o : Listed(o, segs, Append(out(n), segs[n + 1]), n + 1)
            BY <2>1, <2>2, <2>3, <2>6, ListedName
        <3>2. segs[n + 1] \notin {<<>>, Dot} /\ segs[n + 1] # DotDot
            BY <2>6 DEF Name
        <3>3. out(n + 1) = Append(out(n), segs[n + 1])
            BY <2>3, <3>2, Zenon DEF Push
        <3> QED
            BY <3>1, <3>3, Zenon
    <2> QED
        BY <2>4, <2>5, <2>6 DEF Name
<1>6. T = Nat
    <2> HIDE DEF T
    <2>1. T \in SUBSET Nat
        BY DEF T
    <2> QED
        BY <1>4, <1>5, <2>1, Induction
<1>7. Len(segs) \in T /\ Len(segs) <= Len(segs)
    <2> HIDE DEF T
    <2> QED
        BY <1>1, <1>6
<1>8. \E order : Listed(order, segs, out(Len(segs)), Len(segs))
    BY <1>7
<1> QED
    BY <1>2, <1>8

(* A set of numbers has one ascending order. *)
LEMMA OneOrder ==
    ASSUME NEW n \in Nat, NEW set \in SUBSET Nat, NEW f \in [1..n -> set], NEW g \in [1..n -> set],
           Ascends(f, n, set), Ascends(g, n, set)
    PROVE  \A k \in 1..n : f[k] = g[k]
<1> DEFINE U == {k \in Nat : k \in 1..n /\ f[k] # g[k]}
<1> SUFFICES ASSUME U # {} PROVE FALSE
    OBVIOUS
<1>1. PICK m \in U : \A k \in U : m <= k
    <2>1. U \in SUBSET Nat
        OBVIOUS
    <2> HIDE DEF U
    <2> QED
        BY <2>1, LeastNatural
<1>2. m \in 1..n /\ f[m] # g[m] /\ f[m] \in Nat /\ g[m] \in Nat /\ f[m] \in set /\ g[m] \in set
    OBVIOUS
<1>3. \A k \in 1..n : k < m => f[k] = g[k]
    BY <1>1, <1>2
<1> HIDE DEF U
<1>4. CASE f[m] < g[m]
    <2>1. PICK j \in 1..n : g[j] = f[m]
        BY <1>2 DEF Ascends
    <2>2. CASE j < m
        <3>1. f[j] = g[j] /\ f[j] < f[m]
            BY <1>2, <1>3, <2>2 DEF Ascends
        <3> QED
            BY <1>2, <2>1, <3>1
    <2>3. CASE j = m
        BY <1>2, <2>1, <2>3
    <2>4. CASE m < j
        <3>1. g[m] < g[j]
            BY <1>2, <2>4 DEF Ascends
        <3> QED
            BY <1>2, <1>4, <2>1, <3>1
    <2> QED
        BY <1>2, <2>2, <2>3, <2>4
<1>5. CASE g[m] < f[m]
    <2>1. PICK j \in 1..n : f[j] = g[m]
        BY <1>2 DEF Ascends
    <2>2. CASE j < m
        <3>1. f[j] = g[j] /\ g[j] < g[m]
            BY <1>2, <1>3, <2>2 DEF Ascends
        <3> QED
            BY <1>2, <2>1, <3>1
    <2>3. CASE j = m
        BY <1>2, <2>1, <2>3
    <2>4. CASE m < j
        <3>1. f[m] < f[j]
            BY <1>2, <2>4 DEF Ascends
        <3> QED
            BY <1>2, <1>5, <2>1, <3>1
    <2> QED
        BY <1>2, <2>2, <2>3, <2>4
<1> QED
    BY <1>2, <1>4, <1>5

(* What a path names is what is left on the stack. *)
LEMMA NamedIsStacked ==
    ASSUME NEW B, NEW p \in Seq(B)
    PROVE  Named(p) = Stacked(Split(p))
<1> DEFINE segs == Split(p)
           S == Seq(B)
           out == Stacked(segs)
           set == Stays(segs, Len(segs))
           n == Cardinality(set)
           chosen == CHOOSE order \in [1..n -> set] : Ascends(order, n, set)
<1>1. segs \in Seq(S) /\ <<>> \in S
    BY SplitType
<1> HIDE DEF segs, S
<1>2. out \in Seq(S)
    BY <1>1, StackedType
<1>3. PICK order : Listed(order, segs, out, Len(segs))
    BY <1>1, StackIsListed
<1>4. set \in SUBSET Nat
    BY DEF Stays
<1> HIDE DEF out
<1>5. n = Len(out) /\ n \in Nat
    BY <1>2, <1>3 DEF Listed
<1>6. order \in [1..n -> set] /\ Ascends(order, n, set)
    <2>1. order \in [1..Len(out) -> 1..Len(segs)] /\ \A i : i \in set <=> \E k \in 1..Len(out) : order[k] = i
        BY <1>3 DEF Listed
    <2>2. \A j, k \in 1..Len(out) : j < k => order[j] < order[k]
        BY <1>3 DEF Listed
    <2> HIDE DEF set, n
    <2>3. \A k \in 1..n : order[k] \in set
        BY <1>5, <2>1
    <2>4. order \in [1..n -> set]
        BY <1>5, <2>1, <2>3
    <2> QED
        BY <1>5, <2>1, <2>2, <2>4 DEF Ascends
<1>7. chosen \in [1..n -> set] /\ Ascends(chosen, n, set)
    <2> HIDE DEF set, n
    <2> QED
        BY <1>6
<1>8. Named(p) = [k \in 1..n |-> segs[chosen[k]]]
    BY DEF Named, Sorted, segs
<1> HIDE DEF set, n, chosen
<1>9. \A k \in 1..n : chosen[k] = order[k]
    BY <1>4, <1>5, <1>6, <1>7, OneOrder
<1>10. \A k \in 1..n : out[k] = segs[chosen[k]]
    BY <1>3, <1>5, <1>9 DEF Listed
<1>11. out = [k \in 1..n |-> out[k]]
    BY <1>2, <1>5
<1>12. Named(p) = out
    BY <1>8, <1>10, <1>11
<1> QED
    BY <1>12 DEF out, segs

(* On the stack there are names, none with a slash in it. *)
LEMMA NamesOnTheStack ==
    ASSUME NEW B, NEW p \in Seq(B)
    PROVE  \A k \in 1..Len(Stacked(Split(p))) : Name(Stacked(Split(p))[k]) /\ NoSlash(Stacked(Split(p))[k])
<1> DEFINE segs == Split(p)
           S == Seq(B)
           out == Stacked(segs)
<1>1. segs \in Seq(S) /\ <<>> \in S
    BY SplitType
<1>2. \A i \in 1..Len(segs) : NoSlash(segs[i])
    BY SegmentsHaveNoSlash
<1> HIDE DEF segs, S
<1>3. PICK order : Listed(order, segs, out, Len(segs))
    BY <1>1, StackIsListed
<1> HIDE DEF out
<1>4. ASSUME NEW k \in 1..Len(out)
      PROVE  Name(out[k]) /\ NoSlash(out[k])
    <2>1. order[k] \in 1..Len(segs) /\ order[k] \in Stays(segs, Len(segs)) /\ out[k] = segs[order[k]]
        BY <1>3 DEF Listed
    <2> QED
        BY <1>2, <2>1 DEF Stays
<1> QED
    BY <1>4 DEF out, segs

(* What cleanPath makes of a stack, with the trailing slash or without. *)
Cleaned(out, trailing) ==
    IF out = <<>> THEN <<"/">> ELSE IF trailing THEN AddSegment(Join(out), <<>>) ELSE Join(out)

(* cleanPath, by its stack and its trailing slash. *)
LEMMA CleanPathIsCleaned ==
    ASSUME NEW B, "/" \in B, NEW p \in Seq(B)
    PROVE  CleanPath(p) = Cleaned(Stacked(Split(Rooted(p))), Last(Rooted(p)) = "/")
<1> DEFINE rooted == Rooted(p)
           out == Stacked(Split(rooted))
           path == Join(out)
<1>1. AddSegment(path, <<>>) = Append(path, "/")
    <2>1. rooted \in Seq(B)
        BY DEF Rooted
    <2> HIDE DEF rooted
    <2>2. out \in Seq(Seq(B))
        BY <2>1, SplitType, StackedType
    <2> HIDE DEF out
    <2>3. path \in Seq(B)
        BY <2>2, JoinedType
    <2> HIDE DEF path
    <2> QED
        BY <2>3 DEF AddSegment
<1>2. CleanPath(p) = IF out = <<>> THEN <<"/">>
                     ELSE IF Last(rooted) = "/" THEN Append(path, "/") ELSE path
    BY DEF CleanPath
<1>3. Cleaned(out, Last(rooted) = "/") = IF out = <<>> THEN <<"/">>
                     ELSE IF Last(rooted) = "/" THEN AddSegment(path, <<>>) ELSE path
    BY DEF Cleaned
<1> HIDE DEF out, rooted, path
<1>4. CleanPath(p) = Cleaned(out, Last(rooted) = "/")
    BY <1>1, <1>2, <1>3, Zenon
<1> QED
    BY <1>4 DEF out, rooted

(* Names without slashes. *)
AllNames(out) == \A k \in 1..Len(out) : Name(out[k]) /\ NoSlash(out[k])

Leading == << <<>> >>

(* An empty segment before the others: that of the slash a path begins with. *)
LEMMA LeadingIs ==
    ASSUME NEW S, <<>> \in S, NEW out \in Seq(S)
    PROVE  /\ Leading \in Seq(S) /\ Leading \o <<>> = Leading /\ Leading \o out \in Seq(S) /\ Len(Leading \o out) = Len(out) + 1
           /\ (Leading \o out)[1] = <<>> /\ \A k \in 1..Len(out) : (Leading \o out)[k + 1] = out[k]
           /\ \A x \in S : Leading \o Append(out, x) = Append(Leading \o out, x)
<1>1. Leading \in Seq(S) /\ Len(Leading) = 1 /\ Leading[1] = <<>>
    BY DEF Leading
<1>2. Leading \o <<>> = Leading
    BY DEF Leading
<1> HIDE DEF Leading
<1> DEFINE both == Leading \o out
<1>6. both \in Seq(S) /\ Len(both) = Len(Leading) + Len(out) /\ Len(out) \in Nat
      /\ \A i \in 1..(Len(Leading) + Len(out)) : both[i] = IF i <= Len(Leading) THEN Leading[i] ELSE out[i - Len(Leading)]
    <2> DEFINE x == Leading
    <2> HIDE DEF x
    <2>1. x \in Seq(S) /\ Len(out) \in Nat
        BY <1>1 DEF x
    <2>2. /\ x \o out \in Seq(S) /\ Len(x \o out) = Len(x) + Len(out)
          /\ \A i \in 1..(Len(x) + Len(out)) : (x \o out)[i] = IF i <= Len(x) THEN x[i] ELSE out[i - Len(x)]
        BY <2>1, Concatenation
    <2> QED
        BY <2>1, <2>2 DEF x
<1> HIDE DEF both
<1>3. both \in Seq(S) /\ Len(both) = Len(out) + 1
    BY <1>1, <1>6
<1>7. both[1] = <<>>
    <2>1. 1 \in 1..(Len(Leading) + Len(out)) /\ 1 <= Len(Leading)
        BY <1>1, <1>6
    <2> QED
        BY <1>1, <1>6, <2>1
<1>8. ASSUME NEW k \in 1..Len(out)
      PROVE  both[k + 1] = out[k]
    <2>1. k + 1 \in 1..(Len(Leading) + Len(out)) /\ ~(k + 1 <= Len(Leading)) /\ (k + 1) - Len(Leading) = k
        BY <1>1, <1>6
    <2> QED
        BY <1>6, <2>1
<1>4. both[1] = <<>> /\ \A k \in 1..Len(out) : both[k + 1] = out[k]
    BY <1>7, <1>8
<1>5. \A x \in S : Leading \o Append(out, x) = Append(Leading \o out, x)
    BY <1>1
<1> QED
    BY <1>1, <1>2, <1>3, <1>4, <1>5 DEF both

(* What was joined is split into the same segments, and cleaned to the same stack. *)
LEMMA JoinedAndSplit ==
    ASSUME NEW B, "/" \in B, NEW out \in Seq(Seq(B)), AllNames(out)
    PROVE  Split(Join(out)) = Leading \o out /\ Stacked(Leading \o out) = out
<1> DEFINE S == Seq(B)
           part(k) == SubSeq(out, 1, k)
           T == {k \in Nat : k <= Len(out) => Split(Join(part(k))) = Leading \o part(k) /\ Stacked(Leading \o part(k)) = part(k)}
<1>1. /\ Len(out) \in Nat /\ part(0) = <<>> /\ part(Len(out)) = out
      /\ \A k \in 0..Len(out) : part(k) \in Seq(S)
      /\ \A k \in Nat : k + 1 <= Len(out) => out[k + 1] \in S /\ part(k + 1) = Append(part(k), out[k + 1])
    <2> HIDE DEF S
    <2> QED
        BY Beginnings DEF S
<1>2. <<>> \in S
    OBVIOUS
<1> HIDE DEF part, S
<1>3. 0 \in T
    <2>1. Split(Join(<<>>)) = Leading
        BY JoinNothing, SplitNothing DEF Leading
    <2>2. Stacked(Leading) = <<>>
        <3>1. Stacked(Append(<<>>, <<>>)) = Push(Stacked(<<>>), <<>>)
            <4>1. <<>> \in Seq(S)
                OBVIOUS
            <4> QED
                BY <1>2, <4>1, StackedLonger
        <3>2. Append(<<>>, <<>>) = Leading
            BY DEF Leading
        <3>3. <<>> # DotDot
            BY DEF DotDot
        <3>4. Push(<<>>, <<>>) = <<>>
            BY <3>3, Zenon DEF Push
        <3> QED
            BY <3>1, <3>2, <3>4, StackedNothing
    <2>3. Leading \o <<>> = Leading
        BY <1>2, <1>1, LeadingIs
    <2> QED
        BY <1>1, <2>1, <2>2, <2>3
<1>4. ASSUME NEW k \in T
      PROVE  k + 1 \in T
    <2> SUFFICES ASSUME k + 1 <= Len(out)
                 PROVE  Split(Join(part(k + 1))) = Leading \o part(k + 1) /\ Stacked(Leading \o part(k + 1)) = part(k + 1)
        OBVIOUS
    <2> DEFINE x == part(k)
               seg == out[k + 1]
    <2>1. k \in Nat /\ k \in 0..Len(out) /\ k <= Len(out) /\ k + 1 \in 1..Len(out)
        BY <1>1
    <2>2. x \in Seq(S) /\ seg \in S /\ part(k + 1) = Append(x, seg) /\ Name(seg) /\ NoSlash(seg)
        BY <1>1, <2>1 DEF AllNames
    <2>3. Split(Join(x)) = Leading \o x /\ Stacked(Leading \o x) = x
        BY <2>1
    <2> HIDE DEF x, seg, T
    <2>4. Leading \o Append(x, seg) = Append(Leading \o x, seg) /\ Leading \o x \in Seq(S)
        BY <1>2, <2>2, LeadingIs
    <2>5. Join(x) \in Seq(B) /\ Join(Append(x, seg)) = AddSegment(Join(x), seg)
        BY <2>2, JoinedType, JoinLonger DEF S
    <2>6. Split(AddSegment(Join(x), seg)) = Append(Split(Join(x)), seg)
        <3> DEFINE path == Join(x)
        <3> HIDE DEF path
        <3>1. Split(AddSegment(path, seg)) = Append(Split(path), seg)
            BY <2>2, <2>5, SplitSegment DEF path, S
        <3> QED
            BY <3>1 DEF path
    <2>7. Stacked(Append(Leading \o x, seg)) = Push(x, seg)
        <3> DEFINE y == Leading \o x
        <3> HIDE DEF y
        <3>1. Stacked(Append(y, seg)) = Push(Stacked(y), seg)
            BY <1>2, <2>2, <2>4, StackedLonger DEF y
        <3> QED
            BY <2>3, <3>1 DEF y
    <2>8. Push(x, seg) = Append(x, seg)
        <3>1. seg \notin {<<>>, Dot} /\ seg # DotDot
            BY <2>2 DEF Name
        <3> QED
            BY <3>1, Zenon DEF Push
    <2> QED
        BY <2>2, <2>3, <2>4, <2>5, <2>6, <2>7, <2>8
<1>5. T = Nat
    <2> HIDE DEF T
    <2>1. T \in SUBSET Nat
        BY DEF T
    <2> QED
        BY <1>3, <1>4, <2>1, Induction
<1>6. Len(out) \in T /\ Len(out) <= Len(out)
    <2> HIDE DEF T
    <2> QED
        BY <1>1, <1>5
<1>7. Split(Join(part(Len(out)))) = Leading \o part(Len(out)) /\ Stacked(Leading \o part(Len(out))) = part(Len(out))
    BY <1>6
<1> QED
    BY <1>1, <1>7

(* A segment behind a path: the first byte of both, and the last. *)
LEMMA SegmentAdded ==
    ASSUME NEW B, "/" \in B, NEW p \in Seq(B), NEW seg \in Seq(B)
    PROVE  /\ AddSegment(p, seg) \in Seq(B) /\ AddSegment(p, seg) # <<>>
           /\ AddSegment(p, seg)[1] = IF p = <<>> THEN "/" ELSE p[1]
           /\ Last(AddSegment(p, seg)) = IF seg = <<>> THEN "/" ELSE seg[Len(seg)]
<1> DEFINE q == AddSegment(p, seg)
           first == p \o <<"/">>
<1>1. first \in Seq(B) /\ Len(first) = Len(p) + 1 /\ first[Len(p) + 1] = "/" /\ \A k \in 1..Len(p) : first[k] = p[k]
    OBVIOUS
<1>2. q = first \o seg
    BY DEF AddSegment
<1>3. Len(p) \in Nat /\ Len(seg) \in Nat
    OBVIOUS
<1> HIDE DEF q, first
<1>8. /\ q \in Seq(B) /\ Len(q) = Len(first) + Len(seg)
      /\ \A i \in 1..(Len(first) + Len(seg)) : q[i] = IF i <= Len(first) THEN first[i] ELSE seg[i - Len(first)]
    BY <1>1, <1>2, Concatenation
<1>9. ASSUME NEW k \in 1..Len(first)
      PROVE  q[k] = first[k]
    <2>1. k \in 1..(Len(first) + Len(seg)) /\ k <= Len(first)
        BY <1>1, <1>3
    <2> QED
        BY <1>8, <2>1
<1>10. ASSUME NEW k \in 1..Len(seg)
       PROVE  q[Len(first) + k] = seg[k]
    <2>1. Len(first) + k \in 1..(Len(first) + Len(seg)) /\ ~(Len(first) + k <= Len(first)) /\ (Len(first) + k) - Len(first) = k
        BY <1>1, <1>3
    <2> QED
        BY <1>8, <2>1
<1>4. /\ q \in Seq(B) /\ Len(q) = Len(first) + Len(seg)
      /\ \A k \in 1..Len(first) : q[k] = first[k]
      /\ \A k \in 1..Len(seg) : q[Len(first) + k] = seg[k]
    BY <1>8, <1>9, <1>10
<1>5. q # <<>> /\ Len(q) \in Nat /\ Len(q) > 0
    BY <1>1, <1>3, <1>4
<1>6. q[1] = IF p = <<>> THEN "/" ELSE p[1]
    <2>1. CASE p = <<>>
        <3>1. Len(p) = 0
            BY <2>1
        <3> QED
            BY <1>1, <1>4, <2>1, <3>1
    <2>2. CASE p # <<>>
        <3>1. Len(p) # 0
            BY <2>2
        <3>2. 1 \in 1..Len(p) /\ 1 \in 1..Len(first)
            BY <1>1, <1>3, <3>1
        <3> QED
            BY <1>1, <1>4, <2>2, <3>2
    <2> QED
        BY <2>1, <2>2
<1>7. q[Len(q)] = IF seg = <<>> THEN "/" ELSE seg[Len(seg)]
    <2>1. CASE seg = <<>>
        <3>1. Len(seg) = 0
            BY <2>1
        <3>2. Len(q) = Len(p) + 1 /\ Len(p) + 1 \in 1..Len(first)
            BY <1>1, <1>3, <1>4, <3>1
        <3> QED
            BY <1>1, <1>4, <2>1, <3>2
    <2>2. CASE seg # <<>>
        <3>1. Len(seg) # 0
            BY <2>2
        <3>2. Len(seg) \in 1..Len(seg)
            BY <1>3, <3>1
        <3> QED
            BY <1>1, <1>4, <2>2, <3>2
    <2> QED
        BY <2>1, <2>2
<1> QED
    BY <1>4, <1>5, <1>6, <1>7 DEF q, Last

(* An empty segment at the end, or in front of nothing, changes no stack. *)
LEMMA StackAppended ==
    ASSUME NEW S, <<>> \in S, NEW segs \in Seq(S)
    PROVE  Stacked(Append(segs, <<>>)) = Stacked(segs)
<1>1. Stacked(Append(segs, <<>>)) = Push(Stacked(segs), <<>>)
    BY StackedLonger
<1>2. <<>> # DotDot
    BY DEF DotDot
<1>3. Push(Stacked(segs), <<>>) = Stacked(segs)
    BY <1>2, Zenon DEF Push
<1> QED
    BY <1>1, <1>3

(* The segments of a cleaned path: an empty one, the names of the stack, and an empty one for a slash at the end. *)
Ended(out, trailing) == IF out = <<>> \/ trailing THEN Append(Leading \o out, <<>>) ELSE Leading \o out

(* What is made of a stack of names is a path with just these segments. *)
LEMMA CleanedPath ==
    ASSUME NEW B, "/" \in B, NEW out \in Seq(Seq(B)), AllNames(out), NEW trailing \in BOOLEAN
    PROVE  /\ Cleaned(out, trailing) \in Seq(B) /\ Cleaned(out, trailing) # <<>> /\ Cleaned(out, trailing)[1] = "/"
           /\ Last(Cleaned(out, trailing)) = "/" <=> (out = <<>> \/ trailing)
           /\ Split(Cleaned(out, trailing)) = Ended(out, trailing)
           /\ Stacked(Split(Cleaned(out, trailing))) = out
<1> DEFINE S == Seq(B)
           p == Join(out)
           c == Cleaned(out, trailing)
<1>1. p \in Seq(B) /\ Split(p) = Leading \o out /\ Stacked(Leading \o out) = out
    BY JoinedType, JoinedAndSplit
<1>2. <<>> \in S /\ Leading \o out \in Seq(S) /\ <<>> \in Seq(B)
    <2>1. <<>> \in S /\ out \in Seq(S)
        OBVIOUS
    <2> HIDE DEF S
    <2>2. Leading \o out \in Seq(S)
        BY <2>1, LeadingIs
    <2> QED
        BY <2>1, <2>2 DEF S
<1>3. Stacked(Append(Leading \o out, <<>>)) = out
    <2> DEFINE x == Leading \o out
    <2> HIDE DEF x, S
    <2>1. Stacked(Append(x, <<>>)) = Stacked(x)
        BY <1>2, StackAppended DEF x
    <2> QED
        BY <1>1, <2>1 DEF x
<1>4. out # <<>> => p # <<>> /\ p[1] = "/" /\ Last(p) # "/"
    <2> SUFFICES ASSUME out # <<>> PROVE p # <<>> /\ p[1] = "/" /\ Last(p) # "/"
        OBVIOUS
    <2> DEFINE front == Front(out)
               seg == Last(out)
    <2> HIDE DEF S
    <2>1. front \in Seq(S) /\ seg \in S
        BY <1>2, EndsOf DEF S
    <2>2. out = Append(front, seg)
        <3>1. Len(out) \in Nat /\ Len(out) > 0 /\ out \in Seq(S)
            BY DEF S
        <3>2. Len(front) = Len(out) - 1 /\ \A i \in 1..(Len(out) - 1) : front[i] = out[i]
            BY <1>2, <3>1, EndsOf
        <3>3. seg = out[Len(out)]
            BY DEF Last
        <3> DEFINE w == Append(front, seg)
        <3> HIDE DEF front, seg
        <3>4. w \in Seq(S) /\ Len(w) = Len(front) + 1 /\ w[Len(front) + 1] = seg /\ \A i \in 1..Len(front) : w[i] = front[i]
            BY <2>1, EndsOf
        <3> HIDE DEF w
        <3> DEFINE m == Len(front)
        <3>a. m \in Nat /\ Len(out) = m + 1
            BY <3>1, <3>2
        <3>b. /\ \A i \in 1..m : w[i] = front[i] /\ front[i] = out[i]
              /\ w[m + 1] = out[m + 1] /\ Len(w) = m + 1
            BY <3>1, <3>2, <3>3, <3>4
        <3> HIDE DEF m
        <3>5. Len(w) = Len(out) /\ \A i \in 1..Len(out) : w[i] = out[i]
            BY <3>a, <3>b
        <3>6. w = out
            BY <3>1, <3>4, <3>5, SeqEqual
        <3> QED
            BY <3>6 DEF w
    <2>3. Name(seg) /\ NoSlash(seg)
        <3>1. Len(out) \in 1..Len(out)
            BY <1>2 DEF S
        <3> QED
            BY <3>1 DEF AllNames, Last
    <2>4. Join(front) \in Seq(B) /\ p = AddSegment(Join(front), seg)
        <3> DEFINE f == front  s == seg
        <3> HIDE DEF f, s
        <3>1. f \in Seq(Seq(B)) /\ s \in Seq(B) /\ out = Append(f, s)
            BY <2>1, <2>2 DEF S, f, s
        <3>2. Join(Append(f, s)) = AddSegment(Join(f), s) /\ Join(f) \in Seq(B)
            BY <3>1, JoinLonger, JoinedType
        <3> QED
            BY <3>1, <3>2 DEF f, s
    <2>5. Join(front) = <<>> \/ Join(front)[1] = "/"
        <3>1. \A x \in Seq(S) : Join(x) = <<>> \/ Join(x)[1] = "/"
            <4> SUFFICES ASSUME NEW x \in Seq(S) PROVE Join(x) = <<>> \/ Join(x)[1] = "/"
                OBVIOUS
            <4> DEFINE Begun(k) == Join(SubSeq(x, 1, k)) = <<>> \/ Join(SubSeq(x, 1, k))[1] = "/"
                       T == {k \in Nat : k <= Len(x) => Begun(k)}
            <4>1. /\ Len(x) \in Nat /\ SubSeq(x, 1, 0) = <<>> /\ SubSeq(x, 1, Len(x)) = x
                  /\ \A k \in 0..Len(x) : SubSeq(x, 1, k) \in Seq(S)
                  /\ \A k \in Nat : k + 1 <= Len(x) => x[k + 1] \in S /\ SubSeq(x, 1, k + 1) = Append(SubSeq(x, 1, k), x[k + 1])
                BY Beginnings
            <4>2. 0 \in T
                BY <4>1, JoinNothing
            <4>3. ASSUME NEW k \in T
                  PROVE  k + 1 \in T
                <5> SUFFICES ASSUME k + 1 <= Len(x) PROVE Begun(k + 1)
                    OBVIOUS
                <5> DEFINE y == SubSeq(x, 1, k)
                           b == x[k + 1]
                           z == Join(y)
                <5>1. k \in Nat /\ k \in 0..Len(x) /\ k <= Len(x)
                    BY <4>1
                <5>2. y \in Seq(S) /\ b \in S /\ SubSeq(x, 1, k + 1) = Append(y, b) /\ (z = <<>> \/ z[1] = "/")
                    BY <4>1, <5>1
                <5> HIDE DEF y, b, T
                <5>3. z \in Seq(B) /\ Join(Append(y, b)) = AddSegment(z, b)
                    BY <5>2, JoinLonger, JoinedType DEF S
                <5>4. z = <<>> \/ z[1] = "/"
                    BY <5>2
                <5> HIDE DEF z
                <5>5. AddSegment(z, b)[1] = IF z = <<>> THEN "/" ELSE z[1]
                    BY <5>2, <5>3, SegmentAdded DEF S
                <5>6. Join(Append(y, b))[1] = "/"
                    BY <5>3, <5>4, <5>5
                <5> QED
                    BY <5>2, <5>6
            <4>4. T = Nat
                <5> HIDE DEF T
                <5>1. T \in SUBSET Nat
                    BY DEF T
                <5> QED
                    BY <4>2, <4>3, <5>1, Induction
            <4>5. Len(x) \in T /\ Len(x) <= Len(x)
                <5> HIDE DEF T
                <5> QED
                    BY <4>1, <4>4
            <4>6. Begun(Len(x))
                BY <4>5
            <4> QED
                BY <4>1, <4>6
        <3> QED
            BY <2>1, <3>1
    <2>6. seg # <<>>
        BY <2>3 DEF Name
    <2> DEFINE head == Join(front)
    <2> HIDE DEF front, seg, p, head
    <2>7. /\ AddSegment(head, seg) # <<>> /\ AddSegment(head, seg)[1] = IF head = <<>> THEN "/" ELSE head[1]
          /\ Last(AddSegment(head, seg)) = IF seg = <<>> THEN "/" ELSE seg[Len(seg)]
        <3>1. head \in Seq(B) /\ seg \in Seq(B)
            BY <2>1, <2>4 DEF S, head
        <3> QED
            BY <3>1, SegmentAdded
    <2>8. seg[Len(seg)] # "/"
        <3>1. Len(seg) \in 1..Len(seg)
            BY <2>1, <2>6 DEF S
        <3> QED
            BY <2>3, <3>1 DEF NoSlash
    <2> QED
        BY <2>4, <2>5, <2>6, <2>7, <2>8 DEF head
<1>5. /\ AddSegment(p, <<>>) \in Seq(B) /\ AddSegment(p, <<>>) # <<>>
      /\ AddSegment(p, <<>>)[1] = IF p = <<>> THEN "/" ELSE p[1]
      /\ Last(AddSegment(p, <<>>)) = "/"
      /\ Split(AddSegment(p, <<>>)) = Append(Leading \o out, <<>>)
    <2>1. NoSlash(<<>>)
        BY DEF NoSlash
    <2> HIDE DEF p
    <2>2. Split(AddSegment(p, <<>>)) = Append(Split(p), <<>>)
        BY <1>1, <1>2, <2>1, SplitSegment
    <2> QED
        BY <1>1, <1>2, <2>2, SegmentAdded
<1>6. CASE out = <<>>
    <2>1. AddSegment(p, <<>>) = <<"/">>
        <3>1. p = <<>>
            BY <1>6, JoinNothing
        <3> QED
            BY <3>1 DEF AddSegment
    <2>2. c = AddSegment(p, <<>>)
        BY <1>6, <2>1 DEF Cleaned
    <2>3. AddSegment(p, <<>>)[1] = "/"
        BY <2>1
    <2> HIDE DEF c, p
    <2>4. c \in Seq(B) /\ c # <<>> /\ c[1] = "/" /\ Last(c) = "/" /\ Split(c) = Append(Leading \o out, <<>>)
        BY <1>5, <2>2, <2>3
    <2>5. Ended(out, trailing) = Append(Leading \o out, <<>>)
        BY <1>6 DEF Ended
    <2> QED
        BY <1>3, <1>6, <2>4, <2>5 DEF c
<1>7. CASE out # <<>> /\ trailing
    <2>2. c = AddSegment(p, <<>>)
        BY <1>7 DEF Cleaned
    <2> HIDE DEF c, p
    <2>4. c \in Seq(B) /\ c # <<>> /\ c[1] = "/" /\ Last(c) = "/" /\ Split(c) = Append(Leading \o out, <<>>)
        BY <1>4, <1>5, <1>7, <2>2
    <2>5. Ended(out, trailing) = Append(Leading \o out, <<>>)
        BY <1>7 DEF Ended
    <2> QED
        BY <1>3, <1>7, <2>4, <2>5 DEF c
<1>8. CASE out # <<>> /\ ~trailing
    <2>2. c = p
        BY <1>8 DEF Cleaned
    <2> HIDE DEF c, p
    <2>4. c \in Seq(B) /\ c # <<>> /\ c[1] = "/" /\ Last(c) # "/" /\ Split(c) = Leading \o out
        BY <1>1, <1>4, <1>8, <2>2
    <2>5. Ended(out, trailing) = Leading \o out
        BY <1>8 DEF Ended
    <2> QED
        BY <1>1, <1>8, <2>4, <2>5 DEF c
<1> QED
    BY <1>6, <1>7, <1>8

(* A path that begins with a slash, or is none. *)
Absolute(p) == p = <<>> \/ p[1] = "/"

(* A path that begins with a slash, or is none, is rooted without a change to its segments' stack. *)
LEMMA RootedPath ==
    ASSUME NEW B, "/" \in B, NEW p \in Seq(B), Absolute(p)
    PROVE  /\ Rooted(p) \in Seq(B) /\ Rooted(p) = IF p = <<>> THEN <<"/">> ELSE p
           /\ Stacked(Split(Rooted(p))) = Stacked(Split(p))
<1>1. CASE p = <<>>
    <2>1. Rooted(p) = <<"/">>
        BY <1>1 DEF Rooted
    <2>2. <<"/">> = Append(<<>>, "/") /\ <<"/">> \in Seq(B) /\ <<>> \in Seq(B)
        OBVIOUS
    <2>3. Split(Append(<<>>, "/")) = AddByte(Split(<<>>), "/")
        BY <2>2, SplitLonger
    <2>4. AddByte(Split(<<>>), "/") = Append(Split(<<>>), <<>>)
        BY DEF AddByte
    <2>5. Split(<<>>) \in Seq(Seq(B)) /\ <<>> \in Seq(B)
        BY <2>2, SplitType
    <2>6. Stacked(Append(Split(<<>>), <<>>)) = Stacked(Split(<<>>))
        BY <2>5, StackAppended
    <2> QED
        BY <1>1, <2>1, <2>2, <2>3, <2>4, <2>6
<1>2. CASE p # <<>>
    <2>1. Rooted(p) = p
        BY <1>2 DEF Rooted, Absolute
    <2> QED
        BY <1>2, <2>1
<1> QED
    BY <1>1, <1>2

(***************************************************************************)
(* cleanPath: what it makes of a path is a path that it leaves as it is,   *)
(* that names the same, and that ends with a slash if the path does and    *)
(* names something.                                                        *)
(***************************************************************************)
LEMMA CleanPathIs ==
    ASSUME NEW B, "/" \in B, NEW p \in Seq(B), Absolute(p)
    PROVE  /\ CleanPath(p) \in Seq(B) /\ Absolute(CleanPath(p)) /\ CleanPath(p) # <<>>
           /\ CleanPath(CleanPath(p)) = CleanPath(p)
           /\ Named(CleanPath(p)) = Named(p)
           /\ Named(p) # <<>> => (Last(CleanPath(p)) = "/" <=> Last(p) = "/")
           /\ LET segs == Split(CleanPath(p)) IN
                 /\ \A i \in 2..(Len(segs) - 1) : Name(segs[i])
                 /\ Last(segs) \notin {Dot, DotDot}
<1> DEFINE S == Seq(B)
           out == Stacked(Split(p))
           rooted == Rooted(p)
           trailing == Last(rooted) = "/"
           c == CleanPath(p)
           segs == Split(c)
<1>1. rooted \in Seq(B) /\ rooted = (IF p = <<>> THEN <<"/">> ELSE p) /\ Stacked(Split(rooted)) = out
    BY RootedPath
<1>2. c = Cleaned(out, trailing)
    BY <1>1, CleanPathIsCleaned
<1>3. AllNames(out) /\ out \in Seq(S)
    BY NamesOnTheStack, SplitType, StackedType DEF AllNames
<1>4. Named(p) = out
    BY NamedIsStacked
<1> HIDE DEF out, rooted, trailing, c
<1>5. trailing \in BOOLEAN
    BY DEF trailing
<1>6. /\ c \in Seq(B) /\ c # <<>> /\ c[1] = "/"
      /\ Last(c) = "/" <=> (out = <<>> \/ trailing)
      /\ Split(c) = Ended(out, trailing) /\ Stacked(Split(c)) = out
    BY <1>2, <1>3, <1>5, CleanedPath
<1>7. Absolute(c)
    BY <1>6 DEF Absolute
<1>8. CleanPath(c) = c
    <2>1. Rooted(c) = c
        BY <1>6 DEF Rooted
    <2>2. CleanPath(c) = Cleaned(out, Last(c) = "/")
        <3>1. CleanPath(c) = Cleaned(Stacked(Split(Rooted(c))), Last(Rooted(c)) = "/")
            BY <1>6, CleanPathIsCleaned
        <3> QED
            BY <1>6, <2>1, <3>1
    <2>3. CASE out = <<>>
        BY <1>2, <2>2, <2>3 DEF Cleaned
    <2>4. CASE out # <<>>
        <3>1. Last(c) = "/" <=> trailing
            BY <1>6, <2>4
        <3>2. Cleaned(out, Last(c) = "/") = Cleaned(out, trailing)
            BY <3>1 DEF Cleaned
        <3> QED
            BY <1>2, <2>2, <3>2
    <2> QED
        BY <2>3, <2>4
<1>9. Named(c) = Named(p)
    <2>1. Named(c) = Stacked(Split(c))
        BY <1>6, NamedIsStacked
    <2> QED
        BY <1>4, <1>6, <2>1
<1>10. Named(p) # <<>> => (Last(c) = "/" <=> Last(p) = "/")
    <2> SUFFICES ASSUME out # <<>> PROVE Last(c) = "/" <=> Last(p) = "/"
        BY <1>4
    <2>1. p # <<>>
        <3>1. Stacked(Split(<<>>)) = <<>>
            <4>1. Leading = Append(<<>>, <<>>) /\ <<>> \in Seq({<<>>}) /\ <<>> \in {<<>>}
                BY DEF Leading
            <4>2. Stacked(Append(<<>>, <<>>)) = Stacked(<<>>)
                BY <4>1, StackAppended
            <4> QED
                BY <4>1, <4>2, SplitNothing, StackedNothing DEF Leading
        <3> QED
            BY <3>1 DEF out
    <2> QED
        BY <1>1, <1>6, <2>1 DEF trailing
<1>11. /\ \A i \in 2..(Len(segs) - 1) : Name(segs[i])
       /\ Last(segs) \notin {Dot, DotDot}
    <2> DEFINE base == Leading \o out
    <2>1. <<>> \in S /\ Len(out) \in Nat
        BY <1>3
    <2>2. base \in Seq(S) /\ Len(base) = Len(out) + 1 /\ base[1] = <<>> /\ \A k \in 1..Len(out) : base[k + 1] = out[k]
        <3> HIDE DEF S
        <3> QED
            BY <1>3, <2>1, LeadingIs
    <2>3. \A i \in 2..Len(base) : Name(base[i])
        <3> SUFFICES ASSUME NEW i \in 2..Len(base) PROVE Name(base[i])
            OBVIOUS
        <3> HIDE DEF base
        <3>1. i - 1 \in 1..Len(out) /\ (i - 1) + 1 = i
            BY <2>1, <2>2
        <3>2. base[i] = out[i - 1]
            BY <2>2, <3>1
        <3> QED
            BY <1>3, <3>1, <3>2 DEF AllNames
    <2>4. <<>> \notin {Dot, DotDot} /\ \A x : Name(x) => x \notin {Dot, DotDot}
        BY DEF Dot, DotDot, Name
    <2> HIDE DEF base, S
    <2>5. CASE out = <<>> \/ trailing
        <3> DEFINE w == Append(base, <<>>)
        <3>1. segs = w
            BY <1>6, <2>5 DEF Ended, base
        <3>a. w \in Seq(S) /\ w # <<>> /\ Len(w) = Len(base) + 1 /\ w[Len(base) + 1] = <<>> /\ \A k \in 1..Len(base) : w[k] = base[k]
            <4>1. base \in Seq(S) /\ <<>> \in S
                BY <2>1, <2>2
            <4> QED
                BY <4>1, EndsOf
        <3> HIDE DEF segs, w
        <3>2. Len(segs) = Len(base) + 1 /\ Last(segs) = <<>> /\ \A k \in 1..Len(base) : segs[k] = base[k]
            BY <3>1, <3>a DEF Last
        <3>3. \A i \in 2..(Len(segs) - 1) : i \in 2..Len(base) /\ i \in 1..Len(base)
            BY <2>1, <2>2, <3>2
        <3> QED
            BY <2>3, <2>4, <3>2, <3>3
    <2>6. CASE ~(out = <<>> \/ trailing)
        <3>1. segs = base
            BY <1>6, <2>6 DEF Ended, base
        <3> HIDE DEF segs
        <3>2. Len(out) >= 1
            BY <1>3, <2>1, <2>6
        <3>3. Len(segs) \in 2..Len(base) /\ \A i \in 2..(Len(segs) - 1) : i \in 2..Len(base)
            BY <2>1, <2>2, <3>1, <3>2
        <3>4. Name(segs[Len(segs)])
            BY <2>3, <3>1, <3>3
        <3> QED
            BY <2>3, <2>4, <3>1, <3>3, <3>4 DEF Last
    <2> QED
        BY <2>5, <2>6
<1> QED
    BY <1>6, <1>7, <1>8, <1>9, <1>10, <1>11 DEF c

(* What is escaped for a Location reads as what it was. *)
LEMMA EscapedIs ==
    ASSUME NEW B, NEW p \in Seq(B)
    PROVE  /\ Unescape(EscapeForLocation(p)) = p
           /\ ~Malformed(EscapeForLocation(p))
           /\ Absolute(p) => ~Rootless(EscapeForLocation(p))
<1> DEFINE e == EscapeForLocation(p)
<1>1. Len(p) \in Nat /\ p = [i \in 1..Len(p) |-> p[i]]
    OBVIOUS
<1>2. e = [i \in 1..Len(p) |-> [byte |-> p[i], escaped |-> ~Kept(p[i])]]
    BY DEF EscapeForLocation
<1>3. Len(e) = Len(p)
    BY <1>1, <1>2
<1>4. \A i \in 1..Len(p) : e[i].byte = p[i] /\ e[i].escaped = ~Kept(p[i])
    BY <1>2
<1>5. ASSUME Absolute(p), Len(p) > 0
      PROVE  e[1] = Slash
    <2>1. p[1] = "/" /\ 1 \in 1..Len(p)
        BY <1>1, <1>5 DEF Absolute
    <2>2. e[1] = [byte |-> p[1], escaped |-> ~Kept(p[1])]
        BY <1>2, <2>1
    <2>3. Kept("/")
        BY DEF Kept
    <2> QED
        BY <2>1, <2>2, <2>3, Zenon DEF Slash
<1> HIDE DEF e
<1>6. Unescape(e) = p
    BY <1>1, <1>3, <1>4 DEF Unescape
<1>7. ~Malformed(e)
    BY <1>3, <1>4 DEF Malformed, Kept
<1>8. Absolute(p) => ~Rootless(e)
    BY <1>3, <1>5 DEF Rootless
<1> QED
    BY <1>6, <1>7, <1>8 DEF e

(* A target that is not refused for its first byte is a path from the root, or none. *)
LEMMA RootedIs ==
    ASSUME NEW raw, Len(raw) \in Nat, ~Rootless(raw)
    PROVE  Absolute(Unescape(raw))
<1>1. CASE Len(raw) = 0
    <2>1. Unescape(raw) = [i \in {} |-> raw[i].byte]
        BY <1>1 DEF Unescape
    <2> QED
        BY <2>1 DEF Absolute
<1>2. CASE Len(raw) > 0
    <2>1. raw[1].byte = "/" /\ 1 \in 1..Len(raw)
        BY <1>2 DEF Rootless, Slash
    <2> QED
        BY <2>1 DEF Absolute, Unescape
<1> QED
    BY <1>1, <1>2

(***************************************************************************)
(* Before the redirect the target is the one asked for, behind it the      *)
(* clean path of that one, and it is then neither refused nor moved again. *)
(***************************************************************************)
RoutedInv ==
    /\ hops \in {0, 1}
    /\ hops = 1 \/ verdict \in {"moved", "routed"} => Absolute(Unescape(asked))
    /\ hops = 0 => target = asked
    /\ hops = 1 => /\ verdict \in {"pending", "routed"}
                   /\ ~Malformed(target) /\ ~Rootless(target)
                   /\ Unescape(target) = CleanPath(Unescape(asked))
    /\ verdict = "routed" => Clean

(* The invariant holds of what is asked for. *)
LEMMA RoutedInitially == PathsInit => RoutedInv
    BY DEF PathsInit, RoutedInv

(* No step breaks it: a path that was cleaned is clean. *)
LEMMA RoutedNext == Finite /\ RoutedInv /\ [PathsNext]_pathsVars => RoutedInv'
<1> SUFFICES ASSUME Finite, RoutedInv, [PathsNext]_pathsVars PROVE RoutedInv'
    OBVIOUS
<1> DEFINE wanted == Unescape(asked)
<1>1. PICK B : "/" \in B /\ wanted \in Seq(B)
    BY ByteForByte DEF Finite
<1>2. hops = 1 \/ verdict \in {"moved", "routed"} \/ ~Rootless(target) => Absolute(wanted)
    BY RootedIs DEF Finite, RoutedInv
<1> HIDE DEF wanted
<1>3. ASSUME Absolute(wanted)
      PROVE  /\ CleanPath(wanted) \in Seq(B) /\ Absolute(CleanPath(wanted))
             /\ CleanPath(CleanPath(wanted)) = CleanPath(wanted)
    BY <1>1, <1>3, CleanPathIs
<1>4. hops = 1 => Clean
    <2>1. hops = 1 => Unescape(target) = CleanPath(wanted)
        BY DEF RoutedInv, wanted
    <2> QED
        BY <1>2, <1>3, <2>1 DEF Clean
<1>5. CASE BadRequest
    BY <1>5 DEF BadRequest, RoutedInv
<1>6. CASE MovedPermanently
    <2>1. hops # 1
        BY <1>4, <1>6 DEF MovedPermanently
    <2>2. Absolute(wanted)
        BY <1>2, <1>6 DEF MovedPermanently
    <2> QED
        BY <1>6, <2>1, <2>2 DEF MovedPermanently, RoutedInv, wanted
<1>7. CASE Route
    <2>1. Clean'
        BY <1>7 DEF Route, Clean
    <2>2. Absolute(wanted)
        BY <1>2, <1>7 DEF Route
    <2> QED
        BY <1>7, <2>1, <2>2 DEF Route, RoutedInv, wanted
<1>8. CASE Follow
    <2>1. hops = 0 /\ hops' = 1 /\ verdict' = "pending" /\ asked' = asked
        BY <1>8 DEF Follow
    <2>2. target' = EscapeForLocation(CleanPath(wanted))
        BY <1>8, <2>1 DEF Follow, RoutedInv, wanted
    <2> DEFINE clean == CleanPath(wanted)
    <2>3. Absolute(wanted)
        BY <1>2, <1>8 DEF Follow
    <2>4. clean \in Seq(B) /\ Absolute(clean) /\ target' = EscapeForLocation(clean)
        BY <1>3, <2>2, <2>3
    <2> HIDE DEF clean
    <2>5. Unescape(target') = clean /\ ~Malformed(target') /\ ~Rootless(target')
        BY <2>4, EscapedIs
    <2> QED
        BY <2>1, <2>3, <2>5 DEF RoutedInv, clean, wanted
<1>9. CASE UNCHANGED pathsVars
    <2>1. Clean' = Clean
        BY <1>9 DEF pathsVars, Clean
    <2> QED
        BY <1>9, <2>1 DEF pathsVars, RoutedInv
<1> QED
    BY <1>5, <1>6, <1>7, <1>8, <1>9 DEF PathsNext

(* It says where the caller gets. *)
LEMMA RoutedPath == Finite /\ RoutedInv => RoutedWhereAsked
<1> SUFFICES ASSUME Finite, RoutedInv PROVE RoutedWhereAsked
    OBVIOUS
<1> DEFINE wanted == Unescape(asked)
           path == Unescape(target)
           segs == Split(path)
<1>1. PICK B : "/" \in B /\ wanted \in Seq(B)
    BY ByteForByte DEF Finite
<1>2. hops = 1 => verdict \in {"pending", "routed"}
    BY DEF RoutedInv
<1>3. ASSUME verdict = "routed"
      PROVE  path = CleanPath(wanted)
    <2>1. CleanPath(path) = path
        BY <1>3 DEF RoutedInv, Clean
    <2> QED
        BY <2>1 DEF RoutedInv
<1>4. verdict = "routed" => Absolute(wanted)
    BY DEF RoutedInv
<1>5. ASSUME verdict = "routed"
      PROVE  /\ Named(path) = Named(wanted)
             /\ \A i \in 2..(Len(segs) - 1) : Name(segs[i])
             /\ Last(segs) \notin {Dot, DotDot}
             /\ Named(wanted) # <<>> => (Last(path) = "/" <=> Last(wanted) = "/")
    <2> HIDE DEF wanted, path
    <2> QED
        BY <1>1, <1>3, <1>4, <1>5, CleanPathIs
<1> QED
    BY <1>2, <1>5 DEF RoutedWhereAsked

(***************************************************************************)
(* The caller gets to what they asked for: see RoutedWhereAsked.           *)
(***************************************************************************)
THEOREM PathsAreRoutedWhereAsked == PathsSpec => []RoutedWhereAsked
<1>1. PathsInit => RoutedInv
    BY RoutedInitially
<1>2. Finite /\ RoutedInv /\ [PathsNext]_pathsVars => RoutedInv'
    BY RoutedNext
<1>3. Finite /\ RoutedInv => RoutedWhereAsked
    BY RoutedPath
<1> QED
    BY <1>1, <1>2, <1>3, PathsAreFinite, PTL DEF PathsSpec
=============================================================================
