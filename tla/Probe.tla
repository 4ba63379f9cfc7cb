-------------------------------- MODULE Probe --------------------------------
(***************************************************************************)
(* The probe of a deployment before its PR is merged                       *)
(* (scripts/cutover-probe.mjs): a list of checks, each of some requests    *)
(* and the answers wanted, run one after the other; a check whose inputs   *)
(* are not set is skipped; the tally is RED or GREEN.  One check reads the *)
(* autopilot twice, and it moves in between.                               *)
(*                                                                         *)
(* The deployment answers every request as it should but for one, at most. *)
(* An answer is its status and what it is: CloudFront gives the dashboard, *)
(* 200 and HTML, for what no origin routes.                                *)
(***************************************************************************)
EXTENDS Integers, Sequences, FiniteSets, SequencesExt

CONSTANTS
    Limit,      \* events the autopilot's log is asked for (200)
    MaxEvents   \* bound: events in the log

ASSUME ProbeAssumption == Limit \in Nat \ {0} /\ MaxEvents \in Nat

Inputs == {"OPERATOR_TOKEN", "NO_SCOPE_TOKEN", "AGENT_DIRECT_URL"}

-----------------------------------------------------------------------------
(* A request and what is wanted of its answer. *)
Ask(route, token, statuses, type) == [route |-> route, token |-> token, statuses |-> statuses, type |-> type]
Check(needs, asks) == [needs |-> needs, asks |-> asks]
One(needs, route, token, status, type) == Check(needs, <<Ask(route, token, {status}, type)>>)
Each(routes, needs, token, status, type) == [i \in 1..Len(routes) |-> One(needs, routes[i], token, status, type)]

Healths   == <<"agent", "fleet", "automation", "navigation", "st-gateway">>
LiveReads == <<"current-agent", "live-agent", "ships", "contracts">>
Purchase  == "purchase"
Writes    == <<Purchase, "sell", "deliver">>
Operator  == {"OPERATOR_TOKEN"}
NoScope   == {"NO_SCOPE_TOKEN"}

Twice(route) == Check({}, <<Ask(route, "none", {401}, "any"), Ask(route, "garbage", {401}, "any")>>)

(* The check of the automation cycle is told apart: its verdict depends on what it reads. *)
Cycle == Check({}, <<Ask("autopilot", "none", {200}, "json"), Ask("events", "none", {200}, "json")>>)

Swagger == Check({"AGENT_DIRECT_URL"},
                 <<Ask("swagger", "none", {200}, "html"), Ask("spec", "none", {200}, "ours"), Ask("demo", "none", {404}, "any")>>)

Checks ==
    Each(Healths, {}, "none", 200, "json")
    \o <<Check({}, <<Ask("preflight", "none", {200, 204}, "allows")>>),
         One({}, "list", "none", 200, "json"), One({}, "bad-type", "none", 400, "not-html"),
         One({}, "deliveries", "none", 200, "json")>>
    \o Each(LiveReads, {}, "none", 401, "json")
    \o Each(LiveReads, Operator, "operator", 200, "json")
    \o <<One(Operator, "list", "operator", 200, "json"), One(Operator, "expiry", "operator", 200, "any")>>
    \o Each(Writes, {}, "none", 401, "json")
    \o Each(Writes, Operator, "operator", 400, "not-html")
    \o <<One({}, Purchase, "garbage", 401, "json"), One({}, Purchase, "forged", 401, "any"),
         One({}, Purchase, "basic", 401, "any"), One({}, "list", "garbage", 401, "any"),
         One(NoScope, Purchase, "no-scope", 403, "json"), One(NoScope, "live-agent", "no-scope", 200, "any"),
         One({}, "autopilot", "none", 200, "json"), Twice("ai-events"), Twice("cooldown"),
         Swagger, Cycle, One({}, "list", "none", 200, "json"),
         Check(Operator, <<Ask("cooldown", "operator", {200, 204, 400, 404, 500}, "any")>>)>>

-----------------------------------------------------------------------------
Requests == {[route |-> a.route, token |-> a.token] : a \in UNION {Range(c.asks) : c \in Range(Checks)}}

Answers == [status : {200, 401, 403, 404, 503}, type : {"json"}] \cup {[status |-> 200, type |-> "html"], [status |-> 0, type |-> "none"]}

TypeMeets(type, wanted) ==
    CASE wanted = "any" -> TRUE
      [] wanted = "not-html" -> type # "html"
      [] OTHER -> type = wanted

Meets(answer, ask) == answer.status \in ask.statuses /\ TypeMeets(answer.type, ask.type)

(* What a sound deployment answers: what is wanted, everywhere. *)
Sound(r) ==
    LET ask == CHOOSE a \in UNION {Range(c.asks) : c \in Range(Checks)} : a.route = r.route /\ a.token = r.token
    IN  [status |-> CHOOSE s \in ask.statuses : TRUE,
         type   |-> IF ask.type \in {"any", "not-html"} THEN "json" ELSE ask.type]

(* The one request answered otherwise; or none.  The Go image has no page with our spec. *)
Nowhere == [route |-> "none", token |-> "none"]

VARIABLES
    strict, allowed, inputs,   \* the arguments and the environment
    usage,      \* "fine", or why nothing is run: "help", "unusable", "dry-run"
    fault, says,   \* the request that is answered otherwise, and how
    autopilot,  \* its status and mode
    log,        \* its events, newest first: type, and whether at or after SINCE
    at,         \* checks done
    seen,       \* the mode in which the cycle check has read the autopilot armed; "unread" before
    passes, fails, skipped,   \* the tally; what each skipped check lacked
    result      \* "pending", "RED", "GREEN", or the exit status of a run without a verdict

probeVars == <<strict, allowed, inputs, usage, fault, says, autopilot, log, at, seen, passes, fails, skipped, result>>
world == <<strict, allowed, inputs, usage, fault, says>>

Answer(ask) == LET r == [route |-> ask.route, token |-> ask.token] IN IF r = fault THEN says ELSE Sound(r)

Evidence == [shadow |-> {"shadow_assignment"}, live |-> {"credits_snapshot", "assignment"}]
EventTypes == Evidence.shadow \cup Evidence.live \cup {"tick_error", "other"}
Events == [type : EventTypes, recent : BOOLEAN]
Autopilots == [status : {"armed", "paused"}, mode : {"live", "shadow", "none"}]
Healthy == [status |-> "armed", mode |-> "shadow"]

(* Newest first: what is recent comes before what is not. *)
InOrder(events) == \A i \in 1..Len(events) : \A j \in 1..i : events[i].recent => events[j].recent

(* Either the deployment is at fault, with a healthy autopilot, or the autopilot may be in any state. *)
ProbeInit ==
    /\ strict \in BOOLEAN /\ allowed \in SUBSET {"NO_SCOPE_TOKEN", "AGENT_DIRECT_URL"} /\ inputs \in SUBSET Inputs
    /\ usage \in {"fine", "help", "unusable", "dry-run"}
    /\ \/ /\ fault \in Requests /\ says \in Answers
          /\ autopilot = Healthy /\ log = <<[type |-> "shadow_assignment", recent |-> TRUE]>>
       \/ /\ fault = Nowhere /\ says = [status |-> 0, type |-> "none"]
          /\ strict /\ allowed = {} /\ inputs = Inputs
          /\ autopilot \in Autopilots
          /\ log \in UNION {[1..n -> Events] : n \in 0..MaxEvents} /\ InOrder(log)
    /\ at = 0 /\ seen = "unread" /\ passes = 0 /\ fails = 0 /\ skipped = <<>>
    /\ result = "pending"

-----------------------------------------------------------------------------
Ready == usage = "fine" /\ "OPERATOR_TOKEN" \in inputs /\ result = "pending"

(* An unknown flag, --help, a BASE_URL or SINCE that is none, no OPERATOR_TOKEN, or --dry-run. *)
NoRun ==
    /\ result = "pending" /\ ~Ready
    /\ result' = IF usage \in {"help", "dry-run"} THEN "exit_0" ELSE "exit_2"
    /\ UNCHANGED <<world, autopilot, log, at, seen, passes, fails, skipped>>

Current == Checks[at + 1]
Configured(check) == check.needs \subseteq inputs
Running == Ready /\ at < Len(Checks)

SkipCheck ==
    /\ Running /\ ~Configured(Current)
    /\ skipped' = Append(skipped, Current.needs \ inputs)
    /\ at' = at + 1
    /\ UNCHANGED <<world, autopilot, log, seen, passes, fails, result>>

Tally(passed) ==
    /\ at' = at + 1
    /\ IF passed THEN passes' = passes + 1 /\ UNCHANGED fails ELSE fails' = fails + 1 /\ UNCHANGED passes
    /\ UNCHANGED <<world, autopilot, log, skipped, result>>

RunCheck ==
    /\ Running /\ Configured(Current) /\ Current # Cycle
    /\ UNCHANGED seen
    /\ Tally(\A i \in 1..Len(Current.asks) : Meets(Answer(Current.asks[i]), Current.asks[i]))

(* The cycle check reads the status: not armed is its verdict. *)
ReadStatus ==
    /\ Running /\ Current = Cycle /\ seen = "unread"
    /\ IF autopilot.status = "armed" /\ Meets(Answer(Cycle.asks[1]), Cycle.asks[1])
       THEN seen' = autopilot.mode /\ UNCHANGED <<world, autopilot, log, at, passes, fails, skipped, result>>
       ELSE Tally(FALSE) /\ UNCHANGED seen

(* Mutant: any mode's events count. *)
WantedOfAny(mode) == Evidence.shadow \cup Evidence.live

(* cycleVerdict: only the events of the mode that was read count. *)
Wanted(mode) == CASE mode = "shadow" -> Evidence.shadow
                  [] mode = "live"   -> Evidence.live
                  [] OTHER           -> {}

Newest == SubSeq(log, 1, IF Len(log) < Limit THEN Len(log) ELSE Limit)
RecentTypes == {Newest[i].type : i \in {j \in 1..Len(Newest) : Newest[j].recent}}

(* and then the log: a recent error fails it, the mode's evidence passes it. *)
ReadEvents ==
    /\ Running /\ Current = Cycle /\ seen # "unread"
    /\ UNCHANGED seen
    /\ Tally(/\ Meets(Answer(Cycle.asks[2]), Cycle.asks[2])
             /\ "tick_error" \notin RecentTypes
             /\ RecentTypes \cap Wanted(seen) # {})

(* Mutant: a skipped check is no failure. *)
FailedWithoutSkips == fails > 0

Failed == fails > 0 \/ (strict /\ \E i \in 1..Len(skipped) : skipped[i] \cap allowed = {})

Verdict ==
    /\ Ready /\ at = Len(Checks)
    /\ result' = IF Failed THEN "RED" ELSE "GREEN"
    /\ UNCHANGED <<world, autopilot, log, at, seen, passes, fails, skipped>>

(* The autopilot, between the two reads: it is paused, armed or switched, and logs what it does. *)
AutopilotMoves ==
    /\ Running /\ Current = Cycle /\ seen # "unread" /\ fault = Nowhere
    /\ \/ autopilot' \in Autopilots \ {autopilot} /\ UNCHANGED log
       \/ /\ Len(log) < MaxEvents /\ autopilot.status = "armed"
          /\ \E type \in {"tick_error", "other"} \cup Wanted(autopilot.mode) :
                log' = <<[type |-> type, recent |-> TRUE]>> \o log
          /\ UNCHANGED autopilot
    /\ UNCHANGED <<world, at, seen, passes, fails, skipped, result>>

ProbeNext == NoRun \/ SkipCheck \/ RunCheck \/ ReadStatus \/ ReadEvents \/ Verdict \/ AutopilotMoves

ProbeSpec == ProbeInit /\ [][ProbeNext]_probeVars

-----------------------------------------------------------------------------
(***************************************************************************)
(* GREEN, with --strict, is said of a deployment only if every request the *)
(* checks make is answered as it should be, the page only the TypeScript   *)
(* image serves among them; but for the requests that only checks make     *)
(* whose input was explicitly allowed to be missing.                       *)
(***************************************************************************)
GreenMeansSound ==
    result = "GREEN" /\ strict =>
        \A i \in 1..Len(Checks) : (\E a \in Range(Checks[i].asks) : ~Meets(Answer(a), a)) =>
            Checks[i].needs \cap (allowed \ inputs) # {}

(***************************************************************************)
(* GREEN proves a cycle of the mode the autopilot was armed in when its    *)
(* status was read, whatever it did before the log was read: an event only *)
(* that mode writes is in the log, at or after SINCE, and none of the      *)
(* events asked for is a recent error.                                     *)
(***************************************************************************)
GreenMeansCycle ==
    result = "GREEN" =>
        /\ \E m \in {"live", "shadow"} :
              seen = m /\ \E i \in 1..Len(log) : log[i].recent /\ log[i].type \in Evidence[m]
        /\ \A i \in 1..Len(log) : i <= Limit /\ log[i].recent => log[i].type # "tick_error"
(* GREEN is said of a sound deployment, with a cycle seen. *)
GreenMeansGood == GreenMeansSound /\ GreenMeansCycle
=============================================================================
