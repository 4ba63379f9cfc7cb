------------------------------ MODULE ToolsProofs ------------------------------
(***************************************************************************)
(* Proofs about the programs that let a change through: the judge of a     *)
(* contract run (Judge), for any suites, cases and skip lists; the probe   *)
(* of a cutover (Probe), for any limit of answers and any number of events *)
(* at the gateway; the check of the lockfile (Dependencies), for any       *)
(* number of edits of the files a commit can change; and the harness of a  *)
(* contract run (Harness), for any number of services, calls, targets and  *)
(* tests.                                                                  *)
(***************************************************************************)
EXTENDS Harness, Probe, Dependencies, Judge, WellFoundedInduction, FiniteSetTheorems, TLAPS

-----------------------------------------------------------------------------
(* The lists are as the run they were written from has them, and a verdict is that of the problems found. *)
Written ==
    /\ InRun(first) # {} /\ Used(InRun(first)) = 1..Len(listing)
    /\ vacuous = {c \in SuiteCases : IsListed(c) /\ first[c] = "pass"}
    /\ expected = Counts(first)
    /\ \A c \in SuiteCases : first[c] = "fail" => IsListed(c)

Runs ==
    /\ first \in [SuiteCases -> Outcomes] /\ outcome \in [SuiteCases -> Outcomes]
    /\ exited \in {0, 1}
    /\ judged \in {"no", "due", "good", "bad"}

Judged ==
    /\ judged = "good" => ~Problems(outcome)
    /\ judged = "bad" => Problems(outcome)

JudgeInv == Runs /\ Written /\ Judged

LEMMA SuiteInitInv == SuiteInit => JudgeInv
<1> SUFFICES ASSUME SuiteInit PROVE JudgeInv
    OBVIOUS
<1>1. Runs /\ Judged
    BY DEF SuiteInit, Runs, Judged
<1>2. Used(InRun(first)) = 1..Len(listing)
    BY DEF SuiteInit, Used, Hits
<1> QED
    BY <1>1, <1>2 DEF SuiteInit, JudgeInv, Written

LEMMA SuiteNextInv == JudgeInv /\ [SuiteNext]_judgeVars => JudgeInv'
<1> SUFFICES ASSUME JudgeInv, [SuiteNext]_judgeVars PROVE JudgeInv'
    OBVIOUS
<1> USE DEF JudgeInv
<1>1. ASSUME UNCHANGED <<listing, vacuous, expected, first>>
      PROVE  Written'
    <2>1. Used(InRun(first))' = Used(InRun(first)) /\ Counts(first)' = Counts(first)
        BY <1>1 DEF Used, Hits, InRun, Counts, IsListed
    <2> QED
        BY <1>1, <2>1 DEF Written, InRun, IsListed, Hits
<1>2. CASE RunSuite
    BY <1>1, <1>2 DEF RunSuite, Runs, Judged
<1>3. CASE Judging
    <2>1. UNCHANGED <<listing, vacuous, expected, first, outcome, broken, thrown, exited>>
        BY <1>3 DEF Judging
    <2>2. Problems(outcome)' <=> Problems(outcome)
        BY <2>1 DEF Problems, OwnFailures, IsListed, Hits, InRun, CaseProblem, Used, Failures, Counts
    <2> QED
        BY <1>1, <1>3, <2>1, <2>2 DEF Judging, Runs, Judged
<1>4. CASE UNCHANGED judgeVars
    <2>1. Problems(outcome)' <=> Problems(outcome)
        BY <1>4 DEF judgeVars, Problems, OwnFailures, IsListed, Hits, InRun, CaseProblem, Used, Failures, Counts
    <2> QED
        BY <1>1, <1>4, <2>1 DEF judgeVars, Runs, Judged
<1> QED
    BY <1>2, <1>3, <1>4 DEF SuiteNext

(***************************************************************************)
(* Where the numbers are the same and no case begins to run, or to be run  *)
(* rather than skipped, all that ran still do.                             *)
(***************************************************************************)
LEMMA AllStillRun ==
    ASSUME Runs, Counts(outcome) = Counts(first),
           \A c \in SuiteCases : first[c] \in {"skip", "absent"} => outcome[c] = first[c],
           \A c \in SuiteCases : first[c] \in {"pass", "fail"} /\ outcome[c] \in {"pass", "fail"} => outcome[c] = first[c]
    PROVE  outcome = first
<1> DEFINE Ran(run) == {c \in InRun(run) : run[c] # "skip"}
           Skipped(run) == InRun(run) \ Ran(run)
<1>1. /\ Cardinality(InRun(outcome)) = Cardinality(InRun(first))
      /\ Cardinality(Skipped(outcome)) = Cardinality(Skipped(first))
    BY DEF Counts
<1>2. /\ InRun(outcome) \in SUBSET SuiteCases /\ InRun(first) \in SUBSET SuiteCases
      /\ InRun(outcome) \subseteq InRun(first)
      /\ Skipped(outcome) \subseteq InRun(outcome) /\ Skipped(first) \subseteq Skipped(outcome)
    BY DEF InRun
<1> HIDE DEF Skipped
<1>3. IsFiniteSet(InRun(first)) /\ IsFiniteSet(InRun(outcome)) /\ IsFiniteSet(Skipped(outcome))
    BY <1>2, SuiteAssumption, FS_Subset
<1>4. InRun(outcome) = InRun(first) /\ Skipped(outcome) = Skipped(first)
    BY <1>1, <1>2, <1>3, FS_Subset
<1>5. ASSUME NEW c \in SuiteCases
      PROVE  outcome[c] = first[c]
    <2>1. first[c] \in Outcomes /\ outcome[c] \in Outcomes
        BY DEF Runs
    <2>2. first[c] = "absent" <=> outcome[c] = "absent"
        BY <1>4 DEF InRun
    <2>3. first[c] = "skip" <=> outcome[c] = "skip"
        BY <1>4, <2>2 DEF InRun, Skipped
    <2> QED
        BY <2>1, <2>2, <2>3 DEF Outcomes
<1> QED
    BY <1>5 DEF Runs

(* What Problems looks for is what may have changed; and a run like the first has none of it. *)
LEMMA GoodIsUnchanged == JudgeInv => GoodMeansUnchanged
<1> SUFFICES ASSUME JudgeInv PROVE GoodMeansUnchanged
    OBVIOUS
<1> USE DEF JudgeInv
<1>1. ASSUME judged = "good"
      PROVE  /\ \A c \in SuiteCases : {first[c], outcome[c]} \cap {"skip", "absent"} = {} => outcome[c] = first[c]
             /\ (\A c \in SuiteCases : first[c] \in {"skip", "absent"} => outcome[c] = first[c]) => outcome = first
             /\ \A i \in 1..Len(listing) : \E p \in InRun(outcome) \cup OwnFailures : listing[i] \cap Prefixes(p) # {}
             /\ ~thrown /\ \A s \in broken : IsListed(<<s>>)
             /\ exited = 0 \/ Failures(outcome) # {}
    <2>1. ~Problems(outcome)
        BY <1>1 DEF Judged
    <2>2. ASSUME NEW c \in SuiteCases, first[c] \in {"pass", "fail"}, outcome[c] \in {"pass", "fail"}
          PROVE  outcome[c] = first[c]
        <3>1. c \in InRun(outcome) /\ ~CaseProblem(outcome, c)
            BY <2>1, <2>2 DEF Problems, InRun
        <3>2. CASE ~IsListed(c)
            BY <2>2, <3>1, <3>2 DEF CaseProblem, Written
        <3>3. CASE IsListed(c) /\ first[c] = "pass"
            BY <2>1, <2>2, <3>3 DEF Problems, Written
        <3>4. CASE IsListed(c) /\ first[c] = "fail"
            BY <2>2, <3>1, <3>4 DEF CaseProblem, Written
        <3> QED
            BY <2>2, <3>2, <3>3, <3>4
    <2>3. \A c \in SuiteCases : {first[c], outcome[c]} \cap {"skip", "absent"} = {} =>
              first[c] \in {"pass", "fail"} /\ outcome[c] \in {"pass", "fail"}
        BY DEF Runs, Outcomes
    <2>4. \A s \in broken : <<s>> \in OwnFailures
        BY DEF OwnFailures
    <2>5. ASSUME \A c \in SuiteCases : first[c] \in {"skip", "absent"} => outcome[c] = first[c]
          PROVE  outcome = first
        BY <2>1, <2>2, <2>5, AllStillRun DEF Problems, Written
    <2>6. ASSUME NEW i \in 1..Len(listing)
          PROVE  \E p \in InRun(outcome) \cup OwnFailures : listing[i] \cap Prefixes(p) # {}
        <3>1. i \in Used(InRun(outcome) \cup OwnFailures)
            BY <2>1 DEF Problems
        <3> QED
            BY <3>1 DEF Used, Hits
    <2> QED
        BY <2>1, <2>2, <2>3, <2>4, <2>5, <2>6 DEF Problems
<1>2. ASSUME judged \in {"good", "bad"}, outcome = first, broken = {}, ~thrown, exited = 1 <=> Failures(first) # {}
      PROVE  judged = "good"
    <2>1. OwnFailures = {}
        BY <1>2 DEF OwnFailures
    <2>2. \A c \in InRun(outcome) : ~CaseProblem(outcome, c)
        BY <1>2 DEF InRun, CaseProblem, Written
    <2>3. InRun(outcome) \cup OwnFailures = InRun(first)
        BY <1>2, <2>1
    <2>4. ~(exited # 0 /\ Failures(outcome) = {})
        BY <1>2 DEF Runs
    <2>5. \A c \in vacuous : IsListed(c) /\ outcome[c] = "pass"
        BY <1>2 DEF Written
    <2>6. ~Problems(outcome)
        BY <1>2, <2>1, <2>2, <2>3, <2>4, <2>5 DEF Problems, Written
    <2> QED
        BY <1>2, <2>6 DEF Judged
<1> QED
    BY <1>1, <1>2 DEF GoodMeansUnchanged

(***************************************************************************)
(* A contract run that is judged good ended, case by case, as the run the  *)
(* skip list was written from, lost no case unless another came, and left  *)
(* no pattern unmatched; one that ends like the first is judged good:      *)
(* whatever the patterns of the list are and however they overlap.         *)
(***************************************************************************)
THEOREM GoodRunsAreUnchanged == SuiteSpec => []GoodMeansUnchanged
<1>1. SuiteInit => JudgeInv
    BY SuiteInitInv
<1>2. JudgeInv /\ [SuiteNext]_judgeVars => JudgeInv'
    BY SuiteNextInv
<1>3. JudgeInv => GoodMeansUnchanged
    BY GoodIsUnchanged
<1> QED
    BY <1>1, <1>2, <1>3, PTL DEF SuiteSpec
-----------------------------------------------------------------------------
(* A check as the runner needs it, and a list of checks none of which is that of the automation cycle. *)
WellFormed(c) == c.needs \subseteq Inputs /\ DOMAIN c.asks = 1..Len(c.asks)

PlainList(s) ==
    /\ Len(s) \in Nat /\ s = [i \in 1..Len(s) |-> s[i]]
    /\ \A i \in 1..Len(s) : WellFormed(s[i]) /\ s[i] # Cycle

LEMMA OneIsPlain ==
    ASSUME NEW needs \in SUBSET Inputs, NEW route, NEW token, NEW status, NEW type
    PROVE  WellFormed(One(needs, route, token, status, type)) /\ One(needs, route, token, status, type) # Cycle
<1>1. One(needs, route, token, status, type).needs = needs /\ Len(One(needs, route, token, status, type).asks) = 1
    BY DEF One, Check
<1>2. DOMAIN One(needs, route, token, status, type).asks = 1..1
    BY DEF One, Check
<1>3. Len(Cycle.asks) = 2
    BY DEF Cycle, Check
<1> QED
    BY <1>1, <1>2, <1>3 DEF WellFormed

LEMMA TwiceIsPlain ==
    ASSUME NEW route \in {"ai-events", "cooldown"}
    PROVE  WellFormed(Twice(route)) /\ Twice(route) # Cycle
<1>1. Twice(route).needs = {} /\ Len(Twice(route).asks) = 2 /\ DOMAIN Twice(route).asks = 1..2
    BY DEF Twice, Check
<1>2. Twice(route).asks[1].route = route /\ Cycle.asks[1].route = "autopilot"
    BY DEF Twice, Cycle, Check, Ask
<1> QED
    BY <1>1, <1>2 DEF WellFormed

LEMMA SwaggerIsPlain == WellFormed(Swagger) /\ Swagger # Cycle
<1>1. Swagger.needs = {"AGENT_DIRECT_URL"} /\ Len(Swagger.asks) = 3 /\ DOMAIN Swagger.asks = 1..3
    BY DEF Swagger, Check
<1>2. Cycle.needs = {}
    BY DEF Cycle, Check
<1> QED
    BY <1>1, <1>2 DEF WellFormed, Inputs

LEMMA CycleIsWellFormed == WellFormed(Cycle) /\ Cycle.needs = {} /\ Len(Cycle.asks) = 2
<1>1. Cycle.needs = {} /\ Len(Cycle.asks) = 2 /\ DOMAIN Cycle.asks = 1..2
    BY DEF Cycle, Check
<1> QED
    BY <1>1 DEF WellFormed

LEMMA SingleIsPlain ==
    ASSUME NEW needs \in SUBSET Inputs, NEW a
    PROVE  WellFormed(Check(needs, <<a>>)) /\ Check(needs, <<a>>) # Cycle
<1>1. Check(needs, <<a>>).needs = needs /\ Len(Check(needs, <<a>>).asks) = 1 /\ DOMAIN Check(needs, <<a>>).asks = 1..1
    BY DEF Check
<1> QED
    BY <1>1, CycleIsWellFormed DEF WellFormed

LEMMA EachIsPlain ==
    ASSUME NEW routes, Len(routes) \in Nat, NEW needs \in SUBSET Inputs, NEW token, NEW status, NEW type
    PROVE  PlainList(Each(routes, needs, token, status, type))
<1> DEFINE list == Each(routes, needs, token, status, type)
<1>1. list = [i \in 1..Len(routes) |-> One(needs, routes[i], token, status, type)]
    BY DEF Each
<1>2. Len(list) = Len(routes) /\ \A i \in 1..Len(routes) : list[i] = One(needs, routes[i], token, status, type)
    BY <1>1
<1>3. list = [i \in 1..Len(list) |-> list[i]]
    BY <1>1, <1>2
<1>4. \A i \in 1..Len(routes) : WellFormed(list[i]) /\ list[i] # Cycle
    BY <1>2, OneIsPlain
<1> HIDE DEF list
<1>5. PlainList(list)
    BY <1>2, <1>3, <1>4 DEF PlainList
<1> QED
    BY <1>5 DEF list

LEMMA PlainListsJoin ==
    ASSUME NEW s, NEW u, PlainList(s), PlainList(u)
    PROVE  PlainList(s \o u) /\ Len(s \o u) = Len(s) + Len(u)
<1> DEFINE S == {s[i] : i \in 1..Len(s)} \cup {u[i] : i \in 1..Len(u)}
<1>1. s \in Seq(S) /\ u \in Seq(S)
    BY DEF PlainList
<1> HIDE DEF S
<1>2. /\ s \o u \in Seq(S) /\ Len(s \o u) = Len(s) + Len(u)
      /\ \A i \in 1..(Len(s) + Len(u)) : (s \o u)[i] = IF i <= Len(s) THEN s[i] ELSE u[i - Len(s)]
    BY <1>1
<1>3. ASSUME NEW i \in 1..(Len(s) + Len(u))
      PROVE  WellFormed((s \o u)[i]) /\ (s \o u)[i] # Cycle
    <2>1. CASE i <= Len(s)
        BY <1>2, <2>1 DEF PlainList
    <2>2. CASE ~(i <= Len(s))
        <3>1. i - Len(s) \in 1..Len(u)
            BY <2>2 DEF PlainList
        <3> QED
            BY <1>2, <2>2, <3>1 DEF PlainList
    <2> QED
        BY <2>1, <2>2
<1>4. s \o u = [i \in 1..Len(s \o u) |-> (s \o u)[i]]
    <2>1. ASSUME NEW w \in Seq(S)
          PROVE  w = [i \in 1..Len(w) |-> w[i]]
        OBVIOUS
    <2> QED
        BY <1>2, <2>1, Zenon
<1> QED
    BY <1>2, <1>3, <1>4 DEF PlainList

(***************************************************************************)
(* The list of checks holds that of the automation cycle exactly once.     *)
(***************************************************************************)
LEMMA CycleIsCheckedOnce ==
    /\ Len(Checks) \in Nat /\ \A i \in 1..Len(Checks) : WellFormed(Checks[i])
    /\ \E n \in 1..Len(Checks) : \A i \in 1..Len(Checks) : Checks[i] = Cycle <=> i = n
<1> DEFINE
      Public   == <<Check({}, <<Ask("preflight", "none", {200, 204}, "allows")>>),
                    One({}, "list", "none", 200, "json"), One({}, "bad-type", "none", 400, "not-html"),
                    One({}, "deliveries", "none", 200, "json")>>
      Listings == <<One(Operator, "list", "operator", 200, "json"), One(Operator, "expiry", "operator", 200, "any")>>
      a == One({}, Purchase, "garbage", 401, "json")
      b == One({}, Purchase, "forged", 401, "any")
      c == One({}, Purchase, "basic", 401, "any")
      d == One({}, "list", "garbage", 401, "any")
      e == One(NoScope, Purchase, "no-scope", 403, "json")
      f == One(NoScope, "live-agent", "no-scope", 200, "any")
      g == One({}, "autopilot", "none", 200, "json")
      h == Twice("ai-events")
      j == Twice("cooldown")
      k == Swagger
      l == One({}, "list", "none", 200, "json")
      m == Check(Operator, <<Ask("cooldown", "operator", {200, 204, 400, 404, 500}, "any")>>)
      Others   == <<a, b, c, d, e, f, g, h, j, k, Cycle, l, m>>
      Before   == Each(Healths, {}, "none", 200, "json") \o Public
                  \o Each(LiveReads, {}, "none", 401, "json") \o Each(LiveReads, Operator, "operator", 200, "json")
                  \o Listings \o Each(Writes, {}, "none", 401, "json") \o Each(Writes, Operator, "operator", 400, "not-html")
<1>1. Checks = Before \o Others
    BY DEF Checks
<1>2. {} \subseteq Inputs /\ Operator \subseteq Inputs /\ NoScope \subseteq Inputs
    BY DEF Operator, NoScope, Inputs
<1>3. PlainList(Public)
    <2>1. ASSUME NEW p, NEW q, NEW r, NEW t, \A x \in {p, q, r, t} : WellFormed(x) /\ x # Cycle
          PROVE  PlainList(<<p, q, r, t>>)
        BY <2>1 DEF PlainList
    <2> QED
        BY <1>2, <2>1, OneIsPlain, SingleIsPlain
<1>4. PlainList(Listings)
    <2>1. ASSUME NEW p, NEW q, \A x \in {p, q} : WellFormed(x) /\ x # Cycle
          PROVE  PlainList(<<p, q>>)
        BY <2>1 DEF PlainList
    <2> QED
        BY <1>2, <2>1, OneIsPlain
<1>5. /\ PlainList(Each(Healths, {}, "none", 200, "json")) /\ PlainList(Each(LiveReads, {}, "none", 401, "json"))
      /\ PlainList(Each(LiveReads, Operator, "operator", 200, "json")) /\ PlainList(Each(Writes, {}, "none", 401, "json"))
      /\ PlainList(Each(Writes, Operator, "operator", 400, "not-html"))
    <2>1. Len(Healths) \in Nat /\ Len(LiveReads) \in Nat /\ Len(Writes) \in Nat
        BY DEF Healths, LiveReads, Writes
    <2> QED
        BY <1>2, <2>1, EachIsPlain
<1>6. PlainList(Before)
    <2> HIDE DEF Public, Listings
    <2> QED
        BY <1>3, <1>4, <1>5, PlainListsJoin
<1>7. /\ Len(Others) = 13 /\ Others = [i \in 1..13 |-> Others[i]]
      /\ \A i \in 1..13 : WellFormed(Others[i]) /\ (Others[i] = Cycle <=> i = 11)
    <2>1. \A x \in {a, b, c, d, e, f, g} : WellFormed(x) /\ x # Cycle
        BY <1>2, OneIsPlain
    <2>2. \A x \in {h, j, k} : WellFormed(x) /\ x # Cycle
        BY TwiceIsPlain, SwaggerIsPlain
    <2>3. \A x \in {l, m} : WellFormed(x) /\ x # Cycle
        BY <1>2, OneIsPlain, SingleIsPlain
    <2>4. \A i \in 1..13 : \/ i = 1 \/ i = 2 \/ i = 3 \/ i = 4 \/ i = 5 \/ i = 6 \/ i = 7
                           \/ i = 8 \/ i = 9 \/ i = 10 \/ i = 11 \/ i = 12 \/ i = 13
        OBVIOUS
    <2> HIDE DEF a, b, c, d, e, f, g, h, j, k, l, m
    <2> QED
        BY <2>1, <2>2, <2>3, <2>4, CycleIsWellFormed
<1> HIDE DEF Before, Others
<1>8. /\ Len(Checks) = Len(Before) + 13 /\ Len(Before) \in Nat
      /\ \A i \in 1..(Len(Before) + 13) : Checks[i] = IF i <= Len(Before) THEN Before[i] ELSE Others[i - Len(Before)]
    <2> DEFINE S == {Before[i] : i \in 1..Len(Before)} \cup {Others[i] : i \in 1..13}
    <2>1. Before \in Seq(S)
        BY <1>6 DEF PlainList
    <2>2. Others \in Seq(S)
        BY <1>7
    <2> HIDE DEF S
    <2> QED
        BY <1>1, <1>7, <2>1, <2>2
<1>9. ASSUME NEW i \in 1..Len(Checks)
      PROVE  WellFormed(Checks[i]) /\ (Checks[i] = Cycle <=> i = Len(Before) + 11)
    <2>1. CASE i <= Len(Before)
        BY <1>6, <1>8, <2>1 DEF PlainList
    <2>2. CASE ~(i <= Len(Before))
        <3>1. i - Len(Before) \in 1..13 /\ Checks[i] = Others[i - Len(Before)]
            BY <1>8, <2>2, SMTT(30)
        <3> QED
            BY <1>7, <1>8, <3>1, SMTT(30)
    <2> QED
        BY <2>1, <2>2
<1>10. Len(Before) + 11 \in 1..Len(Checks)
    BY <1>8
<1>11. \A i \in 1..Len(Checks) : Checks[i] = Cycle <=> i = Len(Before) + 11
    BY <1>9
<1>12. \E n \in 1..Len(Checks) : \A i \in 1..Len(Checks) : Checks[i] = Cycle <=> i = n
    BY <1>10, <1>11
<1> QED
    BY <1>8, <1>9, <1>12

-----------------------------------------------------------------------------
(* Where the check of the cycle is in the list. *)
CyclePlace == CHOOSE n \in 1..Len(Checks) : \A i \in 1..Len(Checks) : Checks[i] = Cycle <=> i = n

AllMet(c) == \A i \in 1..Len(c.asks) : Meets(Answer(c.asks[i]), c.asks[i])

(* What is done of the list was met, or was skipped for what it lacked, or something failed. *)
Accounted(i) ==
    \/ fails > 0
    \/ AllMet(Checks[i])
    \/ \E k \in 1..Len(skipped) : skipped[k] = Checks[i].needs \ inputs

(* The log, as far as it is asked for, shows a cycle of the mode that was read, and no error. *)
CycleSeen ==
    /\ \E m \in {"live", "shadow"} :
          seen = m /\ \E i \in 1..Len(log) : log[i].recent /\ log[i].type \in Evidence[m]
    /\ \A i \in 1..Len(log) : i <= Limit /\ log[i].recent => log[i].type # "tick_error"

Counters ==
    /\ at \in 0..Len(Checks) /\ passes \in Nat /\ fails \in Nat
    /\ skipped \in Seq(SUBSET Inputs) /\ log \in Seq(Events)

StatusWasMet == seen # "unread" => Meets(Answer(Cycle.asks[1]), Cycle.asks[1])
DoneIsAccounted == \A i \in 1..at : Accounted(i)
CycleWasSeen == at >= CyclePlace => fails > 0 \/ CycleSeen
GreenIsFinal == result = "GREEN" => at = Len(Checks) /\ ~Failed

ProbeInv == Counters /\ StatusWasMet /\ DoneIsAccounted /\ CycleWasSeen /\ GreenIsFinal

LEMMA CyclePlaceIsUnique ==
    /\ Len(Checks) \in Nat /\ CyclePlace \in 1..Len(Checks)
    /\ \A i \in 1..Len(Checks) : WellFormed(Checks[i]) /\ (Checks[i] = Cycle <=> i = CyclePlace)
BY CycleIsCheckedOnce DEF CyclePlace

LEMMA ProbeInitInv == ProbeInit => ProbeInv
<1> SUFFICES ASSUME ProbeInit PROVE ProbeInv
    OBVIOUS
<1>1. log \in Seq(Events)
    <2>1. CASE log = <<[type |-> "shadow_assignment", recent |-> TRUE]>>
        BY <2>1 DEF Events, EventTypes, Evidence
    <2>2. CASE log \in UNION {[1..n -> Events] : n \in 0..MaxEvents}
        <3>1. PICK n \in 0..MaxEvents : log \in [1..n -> Events]
            BY <2>2
        <3> QED
            BY <3>1, ProbeAssumption
    <2> QED
        BY <2>1, <2>2 DEF ProbeInit
<1>2. at = 0 /\ seen = "unread" /\ passes = 0 /\ fails = 0 /\ skipped = <<>> /\ result = "pending"
    BY DEF ProbeInit
<1>3. Counters
    BY <1>1, <1>2, CyclePlaceIsUnique DEF Counters
<1> QED
    BY <1>2, <1>3, CyclePlaceIsUnique DEF ProbeInv, StatusWasMet, DoneIsAccounted, CycleWasSeen, GreenIsFinal

(* The deployment and the arguments do not change, and so neither do its answers. *)
LEMMA AnswersStay ==
    ASSUME UNCHANGED world
    PROVE  /\ \A a : Answer(a)' = Answer(a)
           /\ \A i : AllMet(Checks[i])' <=> AllMet(Checks[i])
           /\ Meets(Answer(Cycle.asks[1]), Cycle.asks[1])' <=> Meets(Answer(Cycle.asks[1]), Cycle.asks[1])
           /\ inputs' = inputs /\ strict' = strict /\ allowed' = allowed
<1>1. \A a : Answer(a)' = Answer(a)
    BY DEF world, Answer
<1> QED
    BY <1>1 DEF world, AllMet

(* A step that does not touch the tally leaves what was accounted for. *)
LEMMA AccountStays ==
    ASSUME ProbeInv, UNCHANGED <<world, at, passes, fails, skipped>>
    PROVE  DoneIsAccounted' /\ Failed' = Failed
<1>1. UNCHANGED world
    OBVIOUS
<1>2. \A i \in 1..at : Accounted(i)'
    BY <1>1, AnswersStay DEF ProbeInv, DoneIsAccounted, Accounted
<1> QED
    BY <1>1, <1>2, AnswersStay DEF DoneIsAccounted, Failed

(* A check that was run is counted as what it was. *)
LEMMA TallyKeeps ==
    ASSUME ProbeInv, Running, NEW passed \in BOOLEAN, Tally(passed), UNCHANGED seen,
           passed => AllMet(Current),
           Current = Cycle => (passed => CycleSeen)
    PROVE  ProbeInv'
<1> USE DEF ProbeInv
<1>1. /\ at \in 0..(Len(Checks) - 1) /\ Len(Checks) \in Nat /\ at' = at + 1 /\ result = "pending"
      /\ UNCHANGED <<world, autopilot, log, skipped, result>>
    BY CyclePlaceIsUnique DEF Counters, Running, Ready, Tally
<1>2. fails \in Nat /\ fails' \in Nat /\ fails' >= fails /\ passes' \in Nat /\ (~passed => fails' > 0)
    BY DEF Tally, Counters
<1>3. Counters'
    BY <1>1, <1>2 DEF Counters
<1>4. StatusWasMet'
    BY <1>1, AnswersStay DEF StatusWasMet
<1>5. DoneIsAccounted'
    <2> SUFFICES ASSUME NEW i \in 1..(at + 1) PROVE Accounted(i)'
        BY <1>1 DEF DoneIsAccounted
    <2>1. CASE i \in 1..at
        BY <1>1, <1>2, <2>1, AnswersStay, SMTT(30) DEF DoneIsAccounted, Accounted
    <2>2. CASE i = at + 1
        BY <1>1, <1>2, <2>2, AnswersStay DEF Accounted, Current
    <2> QED
        BY <1>1, <2>1, <2>2
<1>6. CycleWasSeen'
    <2>1. CycleSeen' <=> CycleSeen
        BY <1>1 DEF CycleSeen
    <2>2. CASE at >= CyclePlace
        BY <1>1, <1>2, <2>1, <2>2 DEF CycleWasSeen
    <2>3. CASE at + 1 = CyclePlace
        <3>1. Current = Cycle
            BY <1>1, <2>3, CyclePlaceIsUnique DEF Current
        <3> QED
            BY <1>2, <2>1, <3>1 DEF CycleWasSeen
    <2> QED
        BY <1>1, <2>2, <2>3, CyclePlaceIsUnique DEF CycleWasSeen
<1> QED
    BY <1>1, <1>3, <1>4, <1>5, <1>6 DEF GreenIsFinal

LEMMA SkipCheckInv == ProbeInv /\ SkipCheck => ProbeInv'
<1> SUFFICES ASSUME ProbeInv, SkipCheck PROVE ProbeInv'
    OBVIOUS
<1> USE DEF ProbeInv
<1>1. /\ at \in 0..(Len(Checks) - 1) /\ Len(Checks) \in Nat /\ at' = at + 1 /\ result = "pending"
      /\ UNCHANGED <<world, autopilot, log, seen, passes, fails, result>>
      /\ skipped' = Append(skipped, Current.needs \ inputs)
    BY CyclePlaceIsUnique DEF Counters, Running, Ready, SkipCheck
<1>2. Current.needs \ inputs \in SUBSET Inputs
    <2>1. at + 1 \in 1..Len(Checks)
        BY <1>1
    <2>2. WellFormed(Checks[at + 1])
        BY <2>1, CyclePlaceIsUnique, Zenon
    <2>3. Current.needs \subseteq Inputs
        BY <2>2, Zenon DEF WellFormed, Current
    <2> QED
        BY <2>3
<1>3. /\ skipped \in Seq(SUBSET Inputs) /\ skipped' \in Seq(SUBSET Inputs) /\ Len(skipped') = Len(skipped) + 1
      /\ Len(skipped) \in Nat /\ skipped'[Len(skipped) + 1] = Current.needs \ inputs
      /\ \A k \in 1..Len(skipped) : skipped'[k] = skipped[k]
    BY <1>1, <1>2 DEF Counters
<1>4. Counters'
    BY <1>1, <1>3 DEF Counters
<1>5. StatusWasMet'
    BY <1>1, AnswersStay DEF StatusWasMet
<1>6. DoneIsAccounted'
    <2> SUFFICES ASSUME NEW i \in 1..(at + 1) PROVE Accounted(i)'
        BY <1>1 DEF DoneIsAccounted
    <2>1. CASE i \in 1..at
        <3>1. Accounted(i)
            BY <2>1 DEF DoneIsAccounted
        <3>2. ASSUME NEW k \in 1..Len(skipped), skipped[k] = Checks[i].needs \ inputs
              PROVE  k \in 1..Len(skipped') /\ skipped'[k] = Checks[i].needs \ inputs'
            BY <1>1, <1>3, <3>2, AnswersStay
        <3> QED
            BY <1>1, <3>1, <3>2, AnswersStay DEF Accounted
    <2>2. CASE i = at + 1
        <3>1. Len(skipped) + 1 \in 1..Len(skipped') /\ skipped'[Len(skipped) + 1] = Checks[i].needs \ inputs'
            BY <1>1, <1>3, <2>2, AnswersStay DEF Current
        <3> QED
            BY <3>1 DEF Accounted
    <2> QED
        BY <1>1, <2>1, <2>2
<1>7. CycleWasSeen'
    <2>1. CycleSeen' <=> CycleSeen
        BY <1>1 DEF CycleSeen
    <2>2. at + 1 # CyclePlace
        <3> SUFFICES ASSUME at + 1 = CyclePlace PROVE FALSE
            OBVIOUS
        <3>1. Current = Cycle
            BY <1>1, CyclePlaceIsUnique DEF Current
        <3> QED
            BY <3>1, CycleIsWellFormed DEF SkipCheck, Configured
    <2> QED
        BY <1>1, <2>1, <2>2, CyclePlaceIsUnique DEF CycleWasSeen
<1> QED
    BY <1>1, <1>4, <1>5, <1>6, <1>7 DEF GreenIsFinal

LEMMA RunCheckInv == ProbeInv /\ RunCheck => ProbeInv'
<1> SUFFICES ASSUME ProbeInv, RunCheck PROVE ProbeInv'
    OBVIOUS
<1> DEFINE passed == \A i \in 1..Len(Current.asks) : Meets(Answer(Current.asks[i]), Current.asks[i])
<1>1. Running /\ Current # Cycle /\ UNCHANGED seen /\ Tally(passed)
    BY DEF RunCheck
<1>2. passed \in BOOLEAN /\ (passed => AllMet(Current))
    BY DEF AllMet
<1> HIDE DEF passed
<1> QED
    BY <1>1, <1>2, TallyKeeps

(* The first of the two reads: only an armed autopilot is looked at again. *)
LEMMA ReadStatusInv == ProbeInv /\ ReadStatus => ProbeInv'
<1> SUFFICES ASSUME ProbeInv, ReadStatus PROVE ProbeInv'
    OBVIOUS
<1>1. CASE autopilot.status = "armed" /\ Meets(Answer(Cycle.asks[1]), Cycle.asks[1])
    <2>1. /\ UNCHANGED <<world, autopilot, log, at, passes, fails, skipped, result>>
          /\ Current = Cycle /\ Running
        BY <1>1 DEF ReadStatus
    <2>2. DoneIsAccounted' /\ Failed' = Failed
        BY <2>1, AccountStays
    <2>3. at + 1 = CyclePlace /\ at \in Nat
        <3>1. at + 1 \in 1..Len(Checks) /\ at \in Nat
            BY <2>1, CyclePlaceIsUnique DEF Running, ProbeInv, Counters
        <3> QED
            BY <2>1, <3>1, CyclePlaceIsUnique DEF Current
    <2>4. CycleWasSeen'
        BY <2>1, <2>3 DEF CycleWasSeen
    <2> QED
        BY <1>1, <2>1, <2>2, <2>4, AnswersStay DEF ProbeInv, Counters, StatusWasMet, GreenIsFinal
<1>2. CASE ~(autopilot.status = "armed" /\ Meets(Answer(Cycle.asks[1]), Cycle.asks[1]))
    BY <1>2, TallyKeeps DEF ReadStatus
<1> QED
    BY <1>1, <1>2

(* The second: what passes shows a cycle of the mode that was read first. *)
LEMMA ReadEventsInv == ProbeInv /\ ReadEvents => ProbeInv'
<1> SUFFICES ASSUME ProbeInv, ReadEvents PROVE ProbeInv'
    OBVIOUS
<1> DEFINE passed == /\ Meets(Answer(Cycle.asks[2]), Cycle.asks[2])
                     /\ "tick_error" \notin RecentTypes
                     /\ RecentTypes \cap Wanted(seen) # {}
           m == IF Len(log) < Limit THEN Len(log) ELSE Limit
<1>1. Running /\ Current = Cycle /\ seen # "unread" /\ UNCHANGED seen /\ Tally(passed)
    BY DEF ReadEvents
<1>2. passed \in BOOLEAN
    OBVIOUS
<1>3. ASSUME passed PROVE AllMet(Current)
    <2>1. Meets(Answer(Cycle.asks[1]), Cycle.asks[1])
        BY <1>1 DEF ProbeInv, StatusWasMet
    <2>2. \A i \in 1..Len(Cycle.asks) : i = 1 \/ i = 2
        BY CycleIsWellFormed
    <2> QED
        BY <1>1, <1>3, <2>1, <2>2 DEF AllMet
<1>4. ASSUME passed PROVE CycleSeen
    <2>1. /\ log \in Seq(Events) /\ Len(log) \in Nat /\ m \in 0..Len(log)
          /\ Limit \in Nat /\ \A i \in 1..Len(log) : i <= Limit => i <= m
        BY ProbeAssumption DEF ProbeInv, Counters
    <2>2. Newest = SubSeq(log, 1, m)
        BY DEF Newest
    <2> HIDE DEF m
    <2>3. Len(Newest) = m /\ \A i \in 1..m : Newest[i] = log[i]
        BY <2>1, <2>2
    <2>4. RecentTypes = {log[i].type : i \in {j \in 1..m : log[j].recent}}
        BY <2>3 DEF RecentTypes
    <2>5. \A i \in 1..Len(log) : i <= Limit /\ log[i].recent => log[i].type # "tick_error"
        BY <1>4, <2>1, <2>4
    <2>6. PICK i \in 1..m : log[i].recent /\ log[i].type \in Wanted(seen)
        BY <1>4, <2>4
    <2>7. seen \in {"live", "shadow"} /\ Wanted(seen) = Evidence[seen]
        BY <2>6 DEF Wanted, Evidence
    <2> QED
        BY <2>1, <2>5, <2>6, <2>7 DEF CycleSeen
<1> HIDE DEF passed
<1> QED
    BY <1>1, <1>2, <1>3, <1>4, TallyKeeps

LEMMA VerdictInv == ProbeInv /\ Verdict => ProbeInv'
<1> SUFFICES ASSUME ProbeInv, Verdict PROVE ProbeInv'
    OBVIOUS
<1>1. UNCHANGED <<world, autopilot, log, at, seen, passes, fails, skipped>> /\ at = Len(Checks)
    BY DEF Verdict
<1>2. DoneIsAccounted' /\ Failed' = Failed
    BY <1>1, AccountStays
<1>3. GreenIsFinal'
    BY <1>1, <1>2 DEF GreenIsFinal, Verdict
<1>4. StatusWasMet' /\ CycleWasSeen' /\ Counters'
    BY <1>1, AnswersStay DEF ProbeInv, StatusWasMet, CycleWasSeen, CycleSeen, Counters
<1> QED
    BY <1>2, <1>3, <1>4 DEF ProbeInv

LEMMA NoRunInv == ProbeInv /\ NoRun => ProbeInv'
<1> SUFFICES ASSUME ProbeInv, NoRun PROVE ProbeInv'
    OBVIOUS
<1>1. UNCHANGED <<world, autopilot, log, at, seen, passes, fails, skipped>> /\ result' # "GREEN"
    BY DEF NoRun
<1>2. DoneIsAccounted'
    BY <1>1, AccountStays
<1>3. StatusWasMet' /\ CycleWasSeen' /\ Counters'
    BY <1>1, AnswersStay DEF ProbeInv, StatusWasMet, CycleWasSeen, CycleSeen, Counters
<1> QED
    BY <1>1, <1>2, <1>3 DEF ProbeInv, GreenIsFinal

(* The autopilot moves only while the check of the cycle is between its reads. *)
LEMMA AutopilotMovesInv == ProbeInv /\ AutopilotMoves => ProbeInv'
<1> SUFFICES ASSUME ProbeInv, AutopilotMoves PROVE ProbeInv'
    OBVIOUS
<1>1. UNCHANGED <<world, at, seen, passes, fails, skipped, result>> /\ Running /\ Current = Cycle
    BY DEF AutopilotMoves
<1>2. log' \in Seq(Events)
    <2>1. CASE UNCHANGED log
        BY <2>1 DEF ProbeInv, Counters
    <2>2. ASSUME NEW type \in {"tick_error", "other"} \cup Wanted(autopilot.mode),
                 log' = <<[type |-> type, recent |-> TRUE]>> \o log
          PROVE  log' \in Seq(Events)
        <3>1. type \in EventTypes
            BY <2>2 DEF EventTypes, Wanted, Evidence
        <3>2. <<[type |-> type, recent |-> TRUE]>> \in Seq(Events)
            BY <3>1 DEF Events
        <3> QED
            BY <2>2, <3>2 DEF ProbeInv, Counters
    <2> QED
        BY <2>1, <2>2 DEF AutopilotMoves
<1>3. DoneIsAccounted' /\ Failed' = Failed
    BY <1>1, AccountStays
<1>4. at + 1 = CyclePlace /\ at \in Nat
    <2>1. at + 1 \in 1..Len(Checks) /\ at \in Nat
        BY <1>1, CyclePlaceIsUnique DEF Running, ProbeInv, Counters
    <2> QED
        BY <1>1, <2>1, CyclePlaceIsUnique DEF Current
<1>5. CycleWasSeen'
    BY <1>1, <1>4 DEF CycleWasSeen
<1> QED
    BY <1>1, <1>2, <1>3, <1>5, AnswersStay DEF ProbeInv, Counters, StatusWasMet, GreenIsFinal

LEMMA ProbeNextInv == ProbeInv /\ [ProbeNext]_probeVars => ProbeInv'
<1> SUFFICES ASSUME ProbeInv, [ProbeNext]_probeVars PROVE ProbeInv'
    OBVIOUS
<1>1. CASE UNCHANGED probeVars
    <2>1. UNCHANGED <<world, at, passes, fails, skipped>> /\ UNCHANGED <<log, seen, result>>
        BY <1>1 DEF probeVars, world
    <2>2. DoneIsAccounted' /\ Failed' = Failed
        BY <2>1, AccountStays
    <2> QED
        BY <2>1, <2>2, AnswersStay DEF ProbeInv, Counters, StatusWasMet, CycleWasSeen, CycleSeen, GreenIsFinal
<1> QED
    BY <1>1, NoRunInv, SkipCheckInv, RunCheckInv, ReadStatusInv, ReadEventsInv, VerdictInv, AutopilotMovesInv DEF ProbeNext

LEMMA GreenIsGood == ProbeInv => GreenMeansGood
<1> SUFFICES ASSUME ProbeInv, result = "GREEN" PROVE (strict => GreenMeansSound) /\ GreenMeansCycle
    BY DEF GreenMeansGood, GreenMeansSound, GreenMeansCycle
<1>1. at = Len(Checks) /\ ~Failed /\ fails = 0
    BY DEF ProbeInv, GreenIsFinal, Failed, Counters
<1>2. CycleSeen
    BY <1>1, CyclePlaceIsUnique DEF ProbeInv, CycleWasSeen
<1>3. ASSUME strict, NEW i \in 1..Len(Checks), NEW a \in Range(Checks[i].asks), ~Meets(Answer(a), a)
      PROVE  Checks[i].needs \cap (allowed \ inputs) # {}
    <2>1. ~AllMet(Checks[i])
        BY <1>3, CyclePlaceIsUnique DEF AllMet, WellFormed, Range
    <2>2. PICK k \in 1..Len(skipped) : skipped[k] = Checks[i].needs \ inputs
        BY <1>1, <2>1 DEF ProbeInv, DoneIsAccounted, Accounted
    <2>3. skipped[k] \cap allowed # {}
        BY <1>1, <1>3 DEF Failed
    <2> QED
        BY <2>2, <2>3
<1> QED
    BY <1>2, <1>3 DEF GreenMeansSound, GreenMeansCycle, CycleSeen

(***************************************************************************)
(* A green probe, with --strict, was answered as wanted wherever no input  *)
(* was allowed to be missing, and, strict or not, has seen a cycle of the  *)
(* mode it read the autopilot armed in, whatever the autopilot did before  *)
(* its log was read: for any length of the log and any number of events    *)
(* that are asked for.                                                     *)
(***************************************************************************)
THEOREM GreenProbesAreRight == ProbeSpec => []GreenMeansGood
<1>1. ProbeInit => ProbeInv
    BY ProbeInitInv
<1>2. ProbeInv /\ [ProbeNext]_probeVars => ProbeInv'
    BY ProbeNextInv
<1>3. ProbeInv => GreenMeansGood
    BY GreenIsGood
<1> QED
    BY <1>1, <1>2, <1>3, PTL DEF ProbeSpec

-----------------------------------------------------------------------------
(* The least of a set of natural numbers; induction on them. *)
LEMMA LeastNatural ==
    ASSUME NEW T \in SUBSET Nat, T # {}
    PROVE  \E n \in T : \A k \in T : n <= k
<1> DEFINE Less == {p \in Nat \X Nat : p[1] < p[2]}
<1>1. Less = OpToRel(<, Nat)
    BY DEF OpToRel
<1>2. IsWellFoundedOn(Less, Nat)
    BY <1>1, NatLessThanWellFounded
<1> HIDE DEF Less
<1>3. PICK n \in T : \A k \in T : ~(<<k, n>> \in Less)
    BY <1>2, WFMin
<1>4. \A k \in T : ~(k < n)
    BY <1>3 DEF Less
<1> QED
    BY <1>4

LEMMA Induction ==
    ASSUME NEW T \in SUBSET Nat, 0 \in T, \A n \in T : n + 1 \in T
    PROVE  T = Nat
<1> SUFFICES ASSUME Nat \ T # {} PROVE FALSE
    OBVIOUS
<1>1. PICK m \in Nat \ T : \A k \in Nat \ T : m <= k
    <2>1. Nat \ T \in SUBSET Nat
        OBVIOUS
    <2> QED
        BY <2>1, LeastNatural
<1>2. m # 0 /\ m - 1 \in Nat
    BY <1>1
<1>3. m - 1 \in T
    BY <1>1, <1>2
<1>4. (m - 1) + 1 \in T
    BY <1>3
<1> QED
    BY <1>1, <1>2, <1>4

-----------------------------------------------------------------------------
(* A lockfile's paths; and what was accepted had none of the problems, and is edited no more. *)
Lockfile(l) == DOMAIN l \in SUBSET Seq(Names) /\ IsFiniteSet(DOMAIN l)

Refusable ==
    \/ PackageProblems \/ \E p \in DOMAIN lock : EntryProblem(p)
    \/ DevFlagProblems \/ SnapshotConflicts(lock) \/ SnapshotProblems

RepoInv == Lockfile(lock) /\ (checked = "accepted" => ~Refusable)

LEMMA ReviewedIsLockfile ==
    /\ DOMAIN ReviewedLock = {<<"clerk">>, <<"express">>, <<"long">>, <<"jest">>, <<"lint">>, <<"jest", "long">>, <<"wide-cjs">>}
    /\ Lockfile(ReviewedLock)
<1> DEFINE D == {<<"clerk">>, <<"express">>, <<"long">>, <<"jest">>, <<"lint">>, <<"jest", "long">>, <<"wide-cjs">>}
<1>1. DOMAIN ReviewedLock = D
    BY DEF ReviewedLock
<1>2. D \in SUBSET Seq(Names)
    BY DEF Names
<1>3. IsFiniteSet(D)
    <2>1. ASSUME NEW a, NEW b, NEW c, NEW d, NEW e, NEW f, NEW g
          PROVE  IsFiniteSet({a, b, c, d, e, f, g})
        <3> IsFiniteSet({a})
            BY FS_Singleton
        <3>1. IsFiniteSet({a, b})
            BY FS_AddElement, {a, b} = {a} \cup {b}
        <3>2. IsFiniteSet({a, b, c})
            BY <3>1, FS_AddElement, {a, b, c} = {a, b} \cup {c}
        <3>3. IsFiniteSet({a, b, c, d})
            BY <3>2, FS_AddElement, {a, b, c, d} = {a, b, c} \cup {d}
        <3>4. IsFiniteSet({a, b, c, d, e})
            BY <3>3, FS_AddElement, {a, b, c, d, e} = {a, b, c, d} \cup {e}
        <3>5. IsFiniteSet({a, b, c, d, e, f})
            BY <3>4, FS_AddElement, {a, b, c, d, e, f} = {a, b, c, d, e} \cup {f}
        <3> QED
            BY <3>5, FS_AddElement, {a, b, c, d, e, f, g} = {a, b, c, d, e, f} \cup {g}
    <2> QED
        BY <2>1
<1> QED
    BY <1>1, <1>2, <1>3 DEF Lockfile

LEMMA RepoInitInv == RepoInit => RepoInv
BY ReviewedIsLockfile DEF RepoInit, RepoInv

LEMMA EditKeepsLockfile ==
    ASSUME Lockfile(lock), Edit
    PROVE  Lockfile(lock')
<1>1. CASE lock' = lock
    BY <1>1
<1>2. CASE DOMAIN lock' = DOMAIN lock
    BY <1>2 DEF Lockfile
<1>3. ASSUME NEW p, DOMAIN lock' = DOMAIN lock \ {p}
      PROVE  Lockfile(lock')
    BY <1>3, FS_RemoveElement DEF Lockfile
<1>4. ASSUME NEW n \in {"express", "clerk"}, DOMAIN lock' = DOMAIN lock \cup {<<n, "long">>}
      PROVE  Lockfile(lock')
    <2>1. <<n, "long">> \in Seq(Names)
        BY DEF Names
    <2>2. IsFiniteSet(DOMAIN lock \cup {<<n, "long">>})
        BY FS_AddElement DEF Lockfile
    <2> QED
        BY <1>4, <2>1, <2>2 DEF Lockfile
<1>5. CASE EditEntry
    BY <1>2, <1>5 DEF EditEntry
<1>6. CASE MoveEntry
    <2>1. CASE \E p \in DOMAIN lock : lock' = [q \in DOMAIN lock \ {p} |-> lock[q]]
        BY <1>3, <2>1
    <2>2. ASSUME NEW p \in DOMAIN lock, NEW n \in {"express", "clerk"}, NEW i,
                 lock' = With(lock, <<n, "long">>, [lock[p] EXCEPT !.integrity = i])
          PROVE  Lockfile(lock')
        BY <1>4, <2>2 DEF With
    <2> QED
        BY <1>6, <2>1, <2>2 DEF MoveEntry
<1>7. CASE EditPackage \/ WriteSnapshot
    BY <1>1, <1>7 DEF EditPackage, WriteSnapshot
<1> QED
    BY <1>5, <1>6, <1>7 DEF Edit

LEMMA ProblemsStay ==
    ASSUME UNCHANGED <<package, others, allowlist, lock, lockRoot, lines>>
    PROVE  Refusable' <=> Refusable
<1>1. PackageProblems' <=> PackageProblems
    BY DEF PackageProblems, SpecProblem
<1>2. ASSUME NEW p
      PROVE  EntryProblem(p)' <=> EntryProblem(p)
    BY DEF EntryProblem, AliasProblem, ReleaseProblem, Declared
<1>3. DevFlagProblems' <=> DevFlagProblems
    BY DEF DevFlagProblems
<1>4. SnapshotConflicts(lock)' <=> SnapshotConflicts(lock)
    OBVIOUS
<1>5. SnapshotProblems' <=> SnapshotProblems
    BY DEF SnapshotProblems
<1> QED
    BY <1>1, <1>2, <1>3, <1>4, <1>5 DEF Refusable

LEMMA RepoNextInv == RepoInv /\ [RepoNext]_repoVars => RepoInv'
<1> SUFFICES ASSUME RepoInv, [RepoNext]_repoVars PROVE RepoInv'
    OBVIOUS
<1>1. CASE Edit
    BY <1>1, EditKeepsLockfile DEF RepoInv, Edit
<1>2. CASE CheckDependencies
    BY <1>2, ProblemsStay DEF RepoInv, CheckDependencies, Refusable
<1>3. CASE UNCHANGED repoVars
    BY <1>3, ProblemsStay DEF RepoInv, repoVars
<1> QED
    BY <1>1, <1>2, <1>3 DEF RepoNext

-----------------------------------------------------------------------------
(* A snapshot without conflicts says of every entry what it is. *)
LEMMA SnapshotIsOfEntries ==
    ASSUME NEW l, Lockfile(l), ~SnapshotConflicts(l)
    PROVE  ComputeSnapshot(l) = {[key |-> Key(l[p]), integrity |-> l[p].integrity] : p \in DOMAIN l}
<1> DEFINE First(k) == CHOOSE p \in DOMAIN l : Key(l[p]) = k /\ \A q \in DOMAIN l : Key(l[q]) = k => Len(p) <= Len(q)
<1>1. ASSUME NEW p \in DOMAIN l
      PROVE  l[First(Key(l[p]))].integrity = l[p].integrity
    <2> DEFINE k == Key(l[p])
               T == {Len(q) : q \in {x \in DOMAIN l : Key(l[x]) = k}}
    <2>1. T \in SUBSET Nat /\ T # {}
        <3>1. \A q \in DOMAIN l : Len(q) \in Nat
            BY DEF Lockfile
        <3>2. Len(p) \in T
            OBVIOUS
        <3> QED
            BY <3>1, <3>2
    <2>2. PICK n \in T : \A m \in T : n <= m
        BY <2>1, LeastNatural
    <2>3. PICK q \in DOMAIN l : Key(l[q]) = k /\ Len(q) = n
        OBVIOUS
    <2>4. \A x \in DOMAIN l : Key(l[x]) = k => Len(q) <= Len(x)
        BY <2>2, <2>3
    <2>5. First(k) \in DOMAIN l /\ Key(l[First(k)]) = k
        BY <2>3, <2>4
    <2> HIDE DEF First
    <2> QED
        BY <2>5 DEF SnapshotConflicts
<1>2. ComputeSnapshot(l) = {[key |-> k, integrity |-> l[First(k)].integrity] : k \in {Key(l[p]) : p \in DOMAIN l}}
    BY DEF ComputeSnapshot
<1> HIDE DEF First
<1> QED
    BY <1>1, <1>2

(* What was reviewed for the image. *)
LEMMA ReviewedSnapshot ==
    /\ ~SnapshotConflicts(ReviewedLock)
    /\ ComputeSnapshot(ReviewedLock) =
           {[key |-> <<"runtime", "clerk", 1>>, integrity |-> "sha"], [key |-> <<"runtime", "express", 4>>, integrity |-> "sha"],
            [key |-> <<"runtime", "long", 1>>, integrity |-> "sha"], [key |-> <<"dev", "jest", 1>>, integrity |-> "sha"],
            [key |-> <<"dev", "long", 2>>, integrity |-> "sha"], [key |-> <<"dev", "wide", 1>>, integrity |-> "sha"],
            [key |-> <<"dev", "lint", 1>>, integrity |-> "sha"]}
<1> DEFINE D == {<<"clerk">>, <<"express">>, <<"long">>, <<"jest">>, <<"lint">>, <<"jest", "long">>, <<"wide-cjs">>}
<1>1. DOMAIN ReviewedLock = D /\ Lockfile(ReviewedLock)
    BY ReviewedIsLockfile
<1>2. \A p \in D : ReviewedLock[p].integrity = "sha"
    BY DEF ReviewedLock, Entry
<1>3. ~SnapshotConflicts(ReviewedLock)
    BY <1>1, <1>2 DEF SnapshotConflicts
<1>4. /\ Key(ReviewedLock[<<"clerk">>]) = <<"runtime", "clerk", 1>> /\ Key(ReviewedLock[<<"express">>]) = <<"runtime", "express", 4>>
      /\ Key(ReviewedLock[<<"long">>]) = <<"runtime", "long", 1>> /\ Key(ReviewedLock[<<"jest">>]) = <<"dev", "jest", 1>>
      /\ Key(ReviewedLock[<<"jest", "long">>]) = <<"dev", "long", 2>> /\ Key(ReviewedLock[<<"wide-cjs">>]) = <<"dev", "wide", 1>>
      /\ Key(ReviewedLock[<<"lint">>]) = <<"dev", "lint", 1>>
    <2>1. /\ ReviewedLock[<<"clerk">>] = Entry("clerk", 1, Released("clerk", 1), {}, {})
          /\ ReviewedLock[<<"long">>] = Entry("long", 1, Registry("long", 1), {}, {})
          /\ ReviewedLock[<<"lint">>] = Entry("lint", 1, Released("lint", 1), {"dev"}, {})
          /\ ReviewedLock[<<"wide-cjs">>] = Entry("wide", 1, Registry("wide", 1), {"dev"}, {})
          /\ ReviewedLock[<<"jest", "long">>] = Entry("long", 2, Registry("long", 2), {"dev"}, {})
        BY DEF ReviewedLock
    <2>2. ReviewedLock[<<"express">>] = Entry("express", 4, Registry("express", 4), {}, {Edge("long", "plain"), Edge("clerk", "peer"), Edge("types", "optional-peer")})
        BY DEF ReviewedLock
    <2>3. ReviewedLock[<<"jest">>] = Entry("jest", 1, Registry("jest", 1), {"dev"}, {Edge("long", "plain"), Edge("wide-cjs", "plain")})
        BY DEF ReviewedLock
    <2>4. ASSUME NEW name, NEW version, NEW resolved, NEW edges
          PROVE  /\ Key(Entry(name, version, resolved, {}, edges)) = <<"runtime", name, version>>
                 /\ Key(Entry(name, version, resolved, {"dev"}, edges)) = <<"dev", name, version>>
        BY DEF Key, SectionOfEntry, Entry
    <2> QED
        BY <2>1, <2>2, <2>3, <2>4
<1>5. ComputeSnapshot(ReviewedLock) = {[key |-> Key(ReviewedLock[p]), integrity |-> "sha"] : p \in D}
    <2> HIDE DEF D
    <2> QED
        BY <1>1, <1>2, <1>3, SnapshotIsOfEntries
<1> QED
    BY <1>3, <1>4, <1>5

LEMMA AcceptedAsReviewed == RepoInv => OnlyReviewedBytes
<1> SUFFICES ASSUME RepoInv, checked = "accepted", lines = ComputeSnapshot(ReviewedLock)
             PROVE  {Bytes(p) : p \in Installed({"dev"})} =
                        {<<"clerk", 1, "sha">>, <<"express", 4, "sha">>, <<"long", 1, "sha">>}
    BY DEF OnlyReviewedBytes
<1>1. /\ others = {} /\ \A p \in DOMAIN lock : ~EntryProblem(p)
      /\ ~SnapshotConflicts(lock) /\ lines = ComputeSnapshot(lock) /\ Lockfile(lock)
    BY DEF RepoInv, Refusable, PackageProblems, SnapshotProblems
<1>2. {[key |-> Key(lock[p]), integrity |-> lock[p].integrity] : p \in DOMAIN lock} = ComputeSnapshot(ReviewedLock)
    BY <1>1, SnapshotIsOfEntries
<1>3. \A p \in DOMAIN lock : p \in Installed({"dev"}) <=> "dev" \notin lock[p].flags
    BY DEF Installed
<1>4. \A p \in DOMAIN lock : Bytes(p) = <<lock[p].name, lock[p].version, lock[p].integrity>>
    BY <1>1 DEF Bytes, Verified, EntryProblem, ReleaseProblem
<1>5. ASSUME NEW p \in DOMAIN lock, "dev" \notin lock[p].flags
      PROVE  Bytes(p) \in {<<"clerk", 1, "sha">>, <<"express", 4, "sha">>, <<"long", 1, "sha">>}
    <2>1. Key(lock[p]) = <<"runtime", lock[p].name, lock[p].version>>
        BY <1>5 DEF Key, SectionOfEntry
    <2>2. [key |-> Key(lock[p]), integrity |-> lock[p].integrity] \in ComputeSnapshot(ReviewedLock)
        BY <1>2
    <2>3. /\ Key(lock[p]) \in {<<"runtime", "clerk", 1>>, <<"runtime", "express", 4>>, <<"runtime", "long", 1>>,
                                <<"dev", "jest", 1>>, <<"dev", "long", 2>>, <<"dev", "wide", 1>>, <<"dev", "lint", 1>>}
          /\ lock[p].integrity = "sha"
        BY <2>2, ReviewedSnapshot
    <2> QED
        BY <1>4, <2>1, <2>3
<1>6. ASSUME NEW name, NEW version, <<name, version>> \in {<<"clerk", 1>>, <<"express", 4>>, <<"long", 1>>}
      PROVE  \E p \in DOMAIN lock : "dev" \notin lock[p].flags /\ Bytes(p) = <<name, version, "sha">>
    <2>1. [key |-> <<"runtime", name, version>>, integrity |-> "sha"] \in ComputeSnapshot(ReviewedLock)
        BY <1>6, ReviewedSnapshot
    <2>2. PICK p \in DOMAIN lock : Key(lock[p]) = <<"runtime", name, version>> /\ lock[p].integrity = "sha"
        BY <1>2, <2>1
    <2>3. "dev" \notin lock[p].flags /\ lock[p].name = name /\ lock[p].version = version
        BY <2>2 DEF Key, SectionOfEntry
    <2> QED
        BY <1>4, <2>2, <2>3
<1>7. Installed({"dev"}) = {p \in DOMAIN lock : "dev" \notin lock[p].flags}
    BY <1>3 DEF Installed
<1> QED
    BY <1>5, <1>6, <1>7

(***************************************************************************)
(* Of a commit that leaves the snapshot alone and is accepted, `npm ci`    *)
(* installs what was reviewed, to the byte: after any number of edits of   *)
(* package.json, its allowlist and the lockfile.                           *)
(***************************************************************************)
THEOREM AcceptedBytesWereReviewed == RepoSpec => []OnlyReviewedBytes
<1>1. RepoInit => RepoInv
    BY RepoInitInv
<1>2. RepoInv /\ [RepoNext]_repoVars => RepoInv'
    BY RepoNextInv
<1>3. RepoInv => OnlyReviewedBytes
    BY AcceptedAsReviewed
<1> QED
    BY <1>1, <1>2, <1>3, PTL DEF RepoSpec

-----------------------------------------------------------------------------
(* g[0] .. g[n]: the value a, and W applied to it once, twice, ..., n times. *)
Iterated(g, X, W, a, n) == g \in [0..n -> X] /\ g[0] = a /\ \A i \in 1..n : g[i] = W[g[i - 1]]

(* A and, round by round, what F adds for each member. *)
Grows(g, A, F, n) == g[0] = A /\ \A i \in 1..n : g[i] = g[i - 1] \cup UNION {F[p] : p \in g[i - 1]}

(* R: the least part of D that holds A and what F gives for each of its members. *)
Least(R, D, A, F) ==
    /\ A \subseteq R /\ \A p \in R : F[p] \subseteq R
    /\ \A S \in SUBSET D : A \subseteq S /\ (\A p \in S : F[p] \subseteq S) => R \subseteq S

(* A function can be applied over and over to a value of its domain. *)
LEMMA Iterates ==
    ASSUME NEW X, NEW W \in [X -> X], NEW a \in X, NEW n \in Nat
    PROVE  \E g : Iterated(g, X, W, a, n)
<1> DEFINE T == {k \in Nat : \E g \in [0..k -> X] : g[0] = a /\ \A i \in 1..k : g[i] = W[g[i - 1]]}
<1>1. 0 \in T
    <2> DEFINE g == [i \in 0..0 |-> a]
    <2>1. g \in [0..0 -> X] /\ g[0] = a /\ \A i \in 1..0 : g[i] = W[g[i - 1]]
        OBVIOUS
    <2> HIDE DEF g
    <2> QED
        BY <2>1
<1>2. ASSUME NEW k \in T
      PROVE  k + 1 \in T
    <2>1. PICK g \in [0..k -> X] : g[0] = a /\ \A i \in 1..k : g[i] = W[g[i - 1]]
        OBVIOUS
    <2> DEFINE h == [i \in 0..(k + 1) |-> IF i <= k THEN g[i] ELSE W[g[k]]]
    <2>2. h \in [0..(k + 1) -> X] /\ h[0] = a
        BY <2>1
    <2>3. ASSUME NEW i \in 1..(k + 1)
          PROVE  h[i] = W[h[i - 1]]
        <3>1. CASE i <= k
            BY <2>1, <3>1
        <3>2. CASE i = k + 1
            BY <2>1, <3>2
        <3> QED
            BY <3>1, <3>2
    <2> HIDE DEF h
    <2> QED
        BY <2>2, <2>3
<1>3. T = Nat
    <2> HIDE DEF T
    <2>1. T \in SUBSET Nat
        BY DEF T
    <2> QED
        BY <1>1, <1>2, <2>1, Induction
<1>4. PICK g \in [0..n -> X] : g[0] = a /\ \A i \in 1..n : g[i] = W[g[i - 1]]
    BY <1>3
<1>5. Iterated(g, X, W, a, n)
    BY <1>4 DEF Iterated
<1> QED
    BY <1>5

(* What is added to a part of a finite set, round by round, is closed after as many rounds as the set has members. *)
LEMMA ClosesInTime ==
    ASSUME NEW D, IsFiniteSet(D), NEW A \in SUBSET D, NEW F \in [D -> SUBSET D],
           NEW N, N = Cardinality(D), NEW g \in [0..N -> SUBSET D], Grows(g, A, F, N)
    PROVE  Least(g[N], D, A, F)
<1>0. g[0] = A /\ \A i \in 1..N : g[i] = g[i - 1] \cup UNION {F[p] : p \in g[i - 1]}
    BY DEF Grows
<1> DEFINE Closed(S) == \A p \in S : F[p] \subseteq S
           Enough(k) == A \subseteq g[k] /\ (Closed(g[k]) \/ Cardinality(g[k]) >= k + 1)
           T == {k \in Nat : k <= N => Enough(k)}
<1>1. N \in Nat /\ \A S \in SUBSET D : IsFiniteSet(S) /\ Cardinality(S) \in Nat /\ Cardinality(S) <= N
    BY FS_CardinalityType, FS_Subset
<1>2. 0 \in T
    <2>1. CASE A = {}
        BY <1>0, <2>1
    <2>2. CASE A # {}
        <3>1. Cardinality(A) # 0 /\ Cardinality(A) \in Nat
            BY <1>1, <2>2, FS_EmptySet
        <3>2. Cardinality(g[0]) >= 0 + 1
            <4>1. g[0] = A
                BY <1>0
            <4> QED
                BY ONLY <3>1, <4>1
        <3> QED
            BY <1>0, <3>2
    <2> QED
        BY <1>0, <2>1, <2>2
<1>3. ASSUME NEW k \in T
      PROVE  k + 1 \in T
    <2> SUFFICES ASSUME k + 1 <= N PROVE Enough(k + 1)
        OBVIOUS
    <2>1. Enough(k) /\ k \in 0..N /\ k + 1 \in 1..N /\ (k + 1) - 1 = k
        BY <1>1
    <2>2. g[k + 1] = g[k] \cup UNION {F[p] : p \in g[k]} /\ g[k] \in SUBSET D /\ g[k + 1] \in SUBSET D
        BY <1>0, <2>1
    <2>3. CASE Closed(g[k])
        <3>1. g[k + 1] = g[k]
            BY <2>2, <2>3
        <3> QED
            BY <2>1, <2>3, <3>1
    <2>4. CASE ~Closed(g[k])
        <3>1. g[k + 1] # g[k] /\ g[k] \subseteq g[k + 1]
            BY <2>2, <2>4
        <3>2. Cardinality(g[k]) < Cardinality(g[k + 1])
            <4>1. /\ Cardinality(g[k]) <= Cardinality(g[k + 1])
                  /\ Cardinality(g[k]) = Cardinality(g[k + 1]) => g[k] = g[k + 1]
                BY <1>1, <2>2, <3>1, FS_Subset
            <4> QED
                BY <1>1, <2>2, <3>1, <4>1
        <3>3. Cardinality(g[k]) >= k + 1
            BY <2>1, <2>4
        <3>4. Cardinality(g[k + 1]) >= (k + 1) + 1
            BY <1>1, <2>1, <2>2, <3>2, <3>3
        <3> QED
            BY <2>1, <3>1, <3>4
    <2> QED
        BY <2>3, <2>4
<1>4. Enough(N)
    <2> HIDE DEF T
    <2>1. T \in SUBSET Nat
        BY DEF T
    <2>2. T = Nat
        BY <1>2, <1>3, <2>1, Induction
    <2>3. N \in T
        BY <1>1, <2>2
    <2> QED
        BY <1>1, <2>3 DEF T
<1>5. Closed(g[N])
    <2>1. g[N] \in SUBSET D
        BY <1>1
    <2> QED
        BY <1>1, <1>4, <2>1
<1>6. ASSUME NEW S \in SUBSET D, A \subseteq S, \A p \in S : F[p] \subseteq S
      PROVE  g[N] \subseteq S
    <2> DEFINE U == {k \in Nat : k <= N => g[k] \subseteq S}
    <2>1. 0 \in U
        BY <1>0, <1>6
    <2>2. ASSUME NEW k \in U
          PROVE  k + 1 \in U
        <3> SUFFICES ASSUME k + 1 <= N PROVE g[k + 1] \subseteq S
            OBVIOUS
        <3>1. g[k] \subseteq S /\ k + 1 \in 1..N /\ (k + 1) - 1 = k
            BY <1>1
        <3>2. g[k + 1] = g[k] \cup UNION {F[p] : p \in g[k]}
            BY <1>0, <3>1
        <3> QED
            BY <1>6, <3>1, <3>2
    <2> HIDE DEF U
    <2>3. U \in SUBSET Nat
        BY DEF U
    <2>4. U = Nat
        BY <2>1, <2>2, <2>3, Induction
    <2> QED
        BY <1>1, <2>4 DEF U
<1> QED
    BY <1>4, <1>5, <1>6 DEF Least

-----------------------------------------------------------------------------
(* Node's lookup finds an entry of the lockfile, or nothing. *)
LEMMA TargetsAreEntries ==
    ASSUME NEW l, Lockfile(l), NEW from \in Seq(Names), NEW names
    PROVE  Resolved(l, from, names) \subseteq DOMAIN l
<1> SUFFICES ASSUME NEW name, ResolveDep(l, from, name) # Unresolved
             PROVE  ResolveDep(l, from, name) \in DOMAIN l
    BY DEF Resolved
<1> DEFINE found == {SubSeq(from, 1, k) \o <<name>> : k \in 0..Len(from)} \cap DOMAIN l
           T == {Len(from) + 1 - Len(q) : q \in found}
<1>1. ResolveDep(l, from, name) = IF found = {} THEN Unresolved ELSE CHOOSE p \in found : \A q \in found : Len(q) <= Len(p)
    BY DEF ResolveDep
<1>2. found # {}
    BY <1>1
<1>3. ASSUME NEW q \in found
      PROVE  Len(q) \in Nat /\ Len(from) + 1 - Len(q) \in Nat
    <2>1. PICK k \in 0..Len(from) : q = SubSeq(from, 1, k) \o <<name>>
        OBVIOUS
    <2> DEFINE S == Names \cup {name}
               head == SubSeq(from, 1, k)
    <2>2. head \in Seq(S) /\ Len(head) = k /\ <<name>> \in Seq(S) /\ Len(<<name>>) = 1 /\ Len(from) \in Nat
        OBVIOUS
    <2> HIDE DEF S, head
    <2>3. Len(head \o <<name>>) = k + 1
        BY <2>2
    <2>4. Len(q) = k + 1
        BY <2>1, <2>3 DEF head
    <2> QED
        BY <2>2, <2>4
<1>4. PICK n \in T : \A m \in T : n <= m
    <2> HIDE DEF found
    <2>1. T \in SUBSET Nat /\ T # {}
        BY <1>2, <1>3
    <2> QED
        BY <2>1, LeastNatural
<1>5. \E p \in found : \A q \in found : Len(q) <= Len(p)
    <2> HIDE DEF found
    <2>1. PICK p \in found : n = Len(from) + 1 - Len(p)
        OBVIOUS
    <2>2. \A q \in found : Len(q) <= Len(p)
        <3> SUFFICES ASSUME NEW q \in found PROVE Len(q) <= Len(p)
            OBVIOUS
        <3>1. n <= Len(from) + 1 - Len(q)
            BY <1>4
        <3>2. Len(from) \in Nat
            OBVIOUS
        <3> QED
            BY <1>3, <2>1, <3>1, <3>2
    <2> QED
        BY <2>2
<1>6. ResolveDep(l, from, name) \in found
    <2> HIDE DEF found
    <2> QED
        BY <1>1, <1>2, <1>5
<1> QED
    BY <1>6

(* reachable: what the edges lead to from the root, all of it and nothing else. *)
LEMMA ReachableIsClosure ==
    ASSUME NEW l, Lockfile(l), NEW names, NEW kinds
    PROVE  LET R == Reachable(l, names, kinds) IN
           /\ R \in SUBSET DOMAIN l /\ Resolved(l, <<>>, names) \subseteq R
           /\ \A p \in R : Resolved(l, p, Followed(l[p], kinds)) \subseteq R
           /\ \A S \in SUBSET DOMAIN l :
                  Resolved(l, <<>>, names) \subseteq S /\ (\A p \in S : Resolved(l, p, Followed(l[p], kinds)) \subseteq S) => R \subseteq S
<1> DEFINE D == DOMAIN l
           N == Cardinality(D)
           A == Resolved(l, <<>>, names)
           F == [p \in D |-> Resolved(l, p, Followed(l[p], kinds))]
           W == [S \in SUBSET D |-> S \cup UNION {F[p] : p \in S}]
<1>1. IsFiniteSet(D) /\ N \in Nat
    BY FS_CardinalityType DEF Lockfile
<1>2. A \in SUBSET D
    <2>1. <<>> \in Seq(Names)
        OBVIOUS
    <2> QED
        BY <2>1, TargetsAreEntries
<1>3. F \in [D -> SUBSET D]
    <2>1. \A p \in D : p \in Seq(Names)
        BY DEF Lockfile
    <2> QED
        BY <2>1, TargetsAreEntries
<1>4. PICK g \in [0..N -> SUBSET D] : g[0] = A /\ \A i \in 1..N : g[i] = W[g[i - 1]]
    <2> DEFINE X == SUBSET D
    <2>1. W \in [X -> X]
        <3>1. \A S \in X : S \cup UNION {F[p] : p \in S} \in X
            <4> HIDE DEF F, D
            <4> QED
                BY <1>3
        <3> HIDE DEF F, D
        <3> QED
            BY <3>1
    <2>2. A \in X /\ N \in Nat
        BY <1>1, <1>2
    <2> HIDE DEF W, A, X, N
    <2>3. PICK g : Iterated(g, X, W, A, N)
        BY <2>1, <2>2, Iterates
    <2> QED
        BY <2>3 DEF X, Iterated
<1> DEFINE after[n \in 0..N] == IF n = 0 THEN A ELSE after[n - 1] \cup UNION {Resolved(l, p, Followed(l[p], kinds)) : p \in after[n - 1]}
<1>5. g = [n \in 0..N |-> IF n = 0 THEN A ELSE g[n - 1] \cup UNION {Resolved(l, p, Followed(l[p], kinds)) : p \in g[n - 1]}]
    <2>1. ASSUME NEW n \in 0..N
          PROVE  g[n] = IF n = 0 THEN A ELSE g[n - 1] \cup UNION {Resolved(l, p, Followed(l[p], kinds)) : p \in g[n - 1]}
        <3>1. CASE n # 0
            <4>1. n \in 1..N /\ n - 1 \in 0..N
                BY <1>1, <3>1
            <4>2. g[n] = g[n - 1] \cup UNION {F[p] : p \in g[n - 1]} /\ g[n - 1] \in SUBSET D
                BY <1>4, <4>1
            <4> QED
                BY <3>1, <4>2
        <3> QED
            BY <1>4, <3>1
    <2> HIDE DEF A, N, D
    <2> QED
        BY <1>4, <2>1
<1>6. after = CHOOSE f : f = [n \in 0..N |-> IF n = 0 THEN A ELSE f[n - 1] \cup UNION {Resolved(l, p, Followed(l[p], kinds)) : p \in f[n - 1]}]
    OBVIOUS
<1>7. Reachable(l, names, kinds) = after[N]
    BY DEF Reachable
<1> HIDE DEF after
<1>8. after = [n \in 0..N |-> IF n = 0 THEN A ELSE after[n - 1] \cup UNION {Resolved(l, p, Followed(l[p], kinds)) : p \in after[n - 1]}]
    BY <1>5, <1>6, Zenon
<1>9. after[0] = A /\ \A n \in 1..N : after[n] = after[n - 1] \cup UNION {Resolved(l, p, Followed(l[p], kinds)) : p \in after[n - 1]}
    <2> HIDE DEF A, N
    <2>1. \A n \in 0..N : after[n] = IF n = 0 THEN A ELSE after[n - 1] \cup UNION {Resolved(l, p, Followed(l[p], kinds)) : p \in after[n - 1]}
        BY <1>8
    <2>2. 0 \in 0..N /\ \A n \in 1..N : n \in 0..N /\ n # 0
        BY <1>1
    <2> QED
        BY ONLY <2>1, <2>2, Zenon
<1>10. after \in [0..N -> SUBSET D]
    <2> DEFINE T == {k \in Nat : k <= N => after[k] \in SUBSET D}
    <2>1. 0 \in T
        BY <1>2, <1>9
    <2>2. ASSUME NEW k \in T
          PROVE  k + 1 \in T
        <3> SUFFICES ASSUME k + 1 <= N PROVE after[k + 1] \in SUBSET D
            OBVIOUS
        <3>1. after[k] \in SUBSET D /\ k + 1 \in 1..N /\ (k + 1) - 1 = k
            BY <1>1
        <3>2. after[k + 1] = after[k] \cup UNION {Resolved(l, p, Followed(l[p], kinds)) : p \in after[k]}
            BY <1>9, <3>1
        <3>3. \A p \in after[k] : Resolved(l, p, Followed(l[p], kinds)) \in SUBSET D
            BY <1>3, <3>1
        <3> QED
            BY <3>1, <3>2, <3>3
    <2> HIDE DEF T
    <2>3. T \in SUBSET Nat
        BY DEF T
    <2>4. T = Nat
        BY <2>1, <2>2, <2>3, Induction
    <2>5. \A n \in 0..N : after[n] \in SUBSET D
        BY <1>1, <2>4 DEF T
    <2> HIDE DEF A, N, D
    <2> QED
        BY <1>8, <2>5
<1>11. \A i \in 1..N : after[i] = after[i - 1] \cup UNION {F[p] : p \in after[i - 1]}
    <2> SUFFICES ASSUME NEW i \in 1..N PROVE after[i] = after[i - 1] \cup UNION {F[p] : p \in after[i - 1]}
        OBVIOUS
    <2>1. after[i - 1] \in SUBSET D
        BY <1>1, <1>10
    <2>2. {F[p] : p \in after[i - 1]} = {Resolved(l, p, Followed(l[p], kinds)) : p \in after[i - 1]}
        BY <2>1
    <2> QED
        BY <1>9, <2>2
<1>12. Least(after[N], D, A, F)
    <2>1. IsFiniteSet(D) /\ A \in SUBSET D /\ F \in [D -> SUBSET D] /\ N = Cardinality(D)
        BY <1>1, <1>2, <1>3
    <2>2. after \in [0..N -> SUBSET D]
        BY <1>10
    <2>3. Grows(after, A, F, N)
        <3> HIDE DEF A, F, N
        <3> QED
            BY <1>9, <1>11 DEF Grows
    <2> HIDE DEF A, D, F, N
    <2> QED
        BY <2>1, <2>2, <2>3, ClosesInTime
<1>13. after[N] \in SUBSET D
    BY <1>1, <1>10
<1>14. \A p \in D : F[p] = Resolved(l, p, Followed(l[p], kinds))
    OBVIOUS
<1> HIDE DEF F, N
<1> QED
    BY <1>7, <1>12, <1>13, <1>14 DEF Least

(***************************************************************************)
(* What an accepted lockfile's image holds and leaves out.                 *)
(***************************************************************************)
LEMMA AcceptedFlagsFollowTheGraph == RepoInv => OmitDropsNothingNeeded
<1> SUFFICES ASSUME RepoInv, checked = "accepted" PROVE OmitDropsNothingNeeded
    BY DEF OmitDropsNothingNeeded
<1> DEFINE names     == DOMAIN package["dependencies"]
           Reached(kinds) == Reachable(lock, names, kinds)
           Needs(kinds) == [p \in DOMAIN lock |-> {e.to : e \in {x \in lock[p].edges : x.kind \in kinds}}]
           Holds(S, from, ns) == \A n \in ns : ResolveDep(lock, from, n) \in S \cup {Unresolved}
           Closed(S, kinds) == Holds(S, <<>>, names) /\ \A p \in S : Holds(S, p, Needs(kinds)[p])
           image  == Installed({"dev", "optional"})
<1>1. Lockfile(lock) /\ ~DevFlagProblems
    BY DEF RepoInv, Refusable
<1>2. /\ \A p \in Reached(Kinds) \cap DOMAIN lock : "dev" \notin lock[p].flags
      /\ \A p \in Reached(Mandatory) \cap DOMAIN lock : lock[p].flags \cap {"optional", "devOptional"} = {}
      /\ \A p \in DOMAIN lock \ Reached(Kinds) : "dev" \in lock[p].flags
    BY <1>1 DEF DevFlagProblems
<1>3. ASSUME NEW S, NEW from, NEW ns
      PROVE  Holds(S, from, ns) <=> Resolved(lock, from, ns) \subseteq S
    BY DEF Resolved
<1>4. ASSUME NEW kinds
      PROVE  /\ Reached(kinds) \in SUBSET DOMAIN lock /\ Closed(Reached(kinds), kinds)
             /\ \A S \in SUBSET DOMAIN lock : Closed(S, kinds) => Reached(kinds) \subseteq S
    <2>1. \A p \in DOMAIN lock : Needs(kinds)[p] = Followed(lock[p], kinds)
        BY DEF Followed
    <2>2. /\ Reached(kinds) \in SUBSET DOMAIN lock /\ Resolved(lock, <<>>, names) \subseteq Reached(kinds)
          /\ \A p \in Reached(kinds) : Resolved(lock, p, Followed(lock[p], kinds)) \subseteq Reached(kinds)
          /\ \A S \in SUBSET DOMAIN lock :
                 /\ Resolved(lock, <<>>, names) \subseteq S
                 /\ \A p \in S : Resolved(lock, p, Followed(lock[p], kinds)) \subseteq S
                 => Reached(kinds) \subseteq S
        BY <1>1, ReachableIsClosure
    <2>3. ASSUME NEW S \in SUBSET DOMAIN lock
          PROVE  Closed(S, kinds) <=> /\ Resolved(lock, <<>>, names) \subseteq S
                                      /\ \A p \in S : Resolved(lock, p, Followed(lock[p], kinds)) \subseteq S
        <3> HIDE DEF Needs, Holds
        <3> QED
            BY <1>3, <2>1
    <2> HIDE DEF Needs, Reached, Closed
    <2> QED
        BY <2>2, <2>3
<1>5. Reached(Mandatory) \subseteq Reached(Kinds)
    <2>1. \A p \in DOMAIN lock : Needs(Mandatory)[p] \subseteq Needs(Kinds)[p]
        BY DEF Mandatory, Kinds
    <2>2. ASSUME NEW S \in SUBSET DOMAIN lock, Closed(S, Kinds)
          PROVE  Closed(S, Mandatory)
        <3> HIDE DEF Needs
        <3> QED
            BY <2>1, <2>2
    <2> HIDE DEF Needs, Reached, Closed
    <2> QED
        BY <1>4, <2>2
<1>6. image \subseteq DOMAIN lock
    BY DEF Installed
<1>7. \A p \in DOMAIN lock :
          p \in image <=> /\ "dev" \notin lock[p].flags /\ "optional" \notin lock[p].flags /\ "devOptional" \notin lock[p].flags
    BY DEF Installed
<1> HIDE DEF Reached, Closed, image
<1>8. Reached(Mandatory) \in SUBSET image
    BY <1>2, <1>4, <1>5, <1>7
<1>9. image \subseteq Reached(Kinds)
    BY <1>2, <1>6, <1>7
<1>10. \E S \in SUBSET image : Closed(S, Mandatory)
    BY <1>4, <1>8
<1>11. \A S \in SUBSET DOMAIN lock : Closed(S, Kinds) => image \subseteq S
    BY <1>4, <1>9
<1> USE DEF Closed, image
<1> QED
    BY <1>10, <1>11 DEF OmitDropsNothingNeeded

(***************************************************************************)
(* The image that the Dockerfile installs from an accepted lockfile holds, *)
(* with package.json's dependencies, all that they need in turn and the    *)
(* lockfile has an entry for, and nothing that only development needs:     *)
(* after any number of edits.  The check's search of the graph, which ends *)
(* after as many rounds as there are entries, has by then followed every   *)
(* edge that leads to one.                                                 *)
(***************************************************************************)
THEOREM OmittedIsNotNeeded == RepoSpec => []OmitDropsNothingNeeded
<1>1. RepoInit => RepoInv
    BY RepoInitInv
<1>2. RepoInv /\ [RepoNext]_repoVars => RepoInv'
    BY RepoNextInv
<1>3. RepoInv => OmitDropsNothingNeeded
    BY AcceptedFlagsFollowTheGraph
<1> QED
    BY <1>1, <1>2, <1>3, PTL DEF RepoSpec

-----------------------------------------------------------------------------
(***************************************************************************)
(* The harness.  A service that is there and that docker has neither been  *)
(* asked to remove nor refused to remove is known to stopEverything, or    *)
(* its call has not come back from docker: that is what is left when the   *)
(* runner exits at once.  When it runs to its end, what is known has been  *)
(* stopped, and every call is over.                                        *)
(***************************************************************************)

(* What can be there unknown to stopEverything has not returned from docker, or failed there. *)
KnownOrAsked ==
    \A s \in Instances : Present(s) /\ s \notin removing /\ s \notin kept =>
        s \in running \/ call[s] \in {"launching", "to_exit", "not_run"}

(* Before its call there is no service, and what is known was started and not stopped. *)
RunningIsCalled ==
    /\ \A s \in Instances : call[s] = "idle" => life[s] = "none"
    /\ \A s \in running : call[s] \in {"waiting", "ready"} \/ (containers /\ call[s] = "to_exit")

(* The instance of the before hook is never stopped by a test. *)
MainStays ==
    /\ hook # "before" => call[Main] \in {"ready", "threw", "not_run"}
    /\ hook \in {"closing", "ended"} => Main \notin running

ServicesInv == ServicesTypeOK /\ KnownOrAsked /\ RunningIsCalled /\ MainStays

-----------------------------------------------------------------------------
LEMMA InitServicesInv == Init => ServicesInv
BY DEF Init, ServicesInit, ServicesInv, ServicesTypeOK, Calls, KnownOrAsked, Present, RunningIsCalled, MainStays

(* stop() of any of them: what was known is asked to be removed, or is gone. *)
LEMMA StopAllKeeps ==
    ASSUME ServicesInv, NEW S \in SUBSET Instances, StopAll(S), UNCHANGED <<containers, kept>>,
           NEW s \in Instances, Present(s)', s \notin removing', s \notin kept'
    PROVE  Present(s) /\ s \notin removing /\ s \notin kept /\ s \notin S
BY DEF ServicesInv, ServicesTypeOK, StopAll, Present

(* One service's call or stop goes on: of the others, nothing changes. *)
LEMMA StartKeeps ==
    ASSUME ServicesInv, hook' = hook, NEW s \in Instances, s = Main => hook = "before",
           StartService(s) \/ RunToExit(s)
    PROVE  ServicesInv'
<1> USE DEF StartService, RunToExit, At
<1>1. ServicesTypeOK'
    <2>1. CASE StartService(s)
        BY <2>1 DEF ServicesInv, ServicesTypeOK, Calls
    <2>2. CASE RunToExit(s)
        BY <2>2 DEF ServicesInv, ServicesTypeOK, Calls
    <2> QED
        BY <2>1, <2>2
<1>2. KnownOrAsked'
    BY DEF ServicesInv, ServicesTypeOK, KnownOrAsked, Present, RunningIsCalled
<1>3. RunningIsCalled'
    BY DEF ServicesInv, ServicesTypeOK, RunningIsCalled
<1>4. MainStays'
    BY HarnessAssumption DEF ServicesInv, ServicesTypeOK, MainStays
<1> QED
    BY <1>1, <1>2, <1>3, <1>4 DEF ServicesInv

LEMMA GoesOnKeeps ==
    ASSUME ServicesInv, hook' = hook, NEW s \in Instances,
           \/ DockerRunReturns(s) \/ DockerRunFails(s) \/ HealthAnswers(s)
           \/ Throw(s) \/ Stopped(s) \/ ProcessRan(s)
    PROVE  ServicesInv'
<1> USE DEF DockerRunReturns, DockerRunFails, HealthAnswers, Throw, Stopped, ProcessRan, At
<1>1. ServicesTypeOK'
    <2>1. call' \in [Instances -> Calls]
        BY DEF ServicesInv, ServicesTypeOK, Calls
    <2>2. life' \in [Instances -> {"none", "up", "exited", "gone"}]
        BY DEF ServicesInv, ServicesTypeOK
    <2>3. running' \subseteq Instances
        BY DEF ServicesInv, ServicesTypeOK
    <2>4. UNCHANGED <<containers, removing, kept, halt, snapshot>>
        OBVIOUS
    <2> HIDE DEF DockerRunReturns, DockerRunFails, HealthAnswers, Throw, Stopped, ProcessRan
    <2> QED
        BY <2>1, <2>2, <2>3, <2>4 DEF ServicesInv, ServicesTypeOK
<1>2. KnownOrAsked'
    BY DEF ServicesInv, ServicesTypeOK, KnownOrAsked, Present, RunningIsCalled
<1>3. RunningIsCalled'
    BY DEF ServicesInv, ServicesTypeOK, RunningIsCalled
<1>4. MainStays'
    BY HarnessAssumption DEF ServicesInv, ServicesTypeOK, MainStays
<1> QED
    BY <1>1, <1>2, <1>3, <1>4 DEF ServicesInv

LEMMA StopsKeeps ==
    ASSUME ServicesInv, hook' = hook, NEW s \in Instances,
           GiveUp(s) \/ ContainerRan(s) \/ (s # Main /\ Stop(s))
    PROVE  ServicesInv'
<1>1. /\ StopAll({s}) /\ UNCHANGED <<containers, kept, halt, snapshot>>
      /\ call[s] \in {"waiting", "to_exit", "ready"} /\ (call[s] = "ready" => s # Main)
      /\ call' = [call EXCEPT ![s] = "failing"] \/ call' = [call EXCEPT ![s] = "stopping"]
    BY DEF GiveUp, ContainerRan, Stop, At
<1>2. ServicesTypeOK'
    BY <1>1 DEF ServicesInv, ServicesTypeOK, Calls, StopAll
<1>3. KnownOrAsked'
    <2> SUFFICES ASSUME NEW t \in Instances, Present(t)', t \notin removing', t \notin kept'
                 PROVE  t \in running' \/ call'[t] \in {"launching", "to_exit", "not_run"}
        BY DEF KnownOrAsked, Present
    <2>1. Present(t) /\ t \notin removing /\ t \notin kept /\ t # s
        BY <1>1, StopAllKeeps
    <2> QED
        BY <1>1, <2>1 DEF ServicesInv, ServicesTypeOK, KnownOrAsked, StopAll
<1>4. RunningIsCalled'
    BY <1>1 DEF ServicesInv, ServicesTypeOK, RunningIsCalled, StopAll
<1>5. MainStays'
    BY <1>1, HarnessAssumption DEF ServicesInv, ServicesTypeOK, MainStays, StopAll
<1> QED
    BY <1>2, <1>3, <1>4, <1>5 DEF ServicesInv

(* stopEverything, by the after hook or on a signal. *)
LEMMA StopEverythingKeeps ==
    ASSUME ServicesInv, StopEverything, UNCHANGED <<containers, call, kept>>,
           halt' \in {"armed", "stopping", "exited"},
           hook' = hook \/ (hook = "after" /\ hook' = "closing")
    PROVE  ServicesInv'
<1> USE DEF StopEverything
<1>1. ServicesTypeOK'
    BY DEF ServicesInv, ServicesTypeOK, StopAll
<1>2. KnownOrAsked'
    <2> SUFFICES ASSUME NEW t \in Instances, Present(t)', t \notin removing', t \notin kept'
                 PROVE  t \in running' \/ call'[t] \in {"launching", "to_exit", "not_run"}
        BY DEF KnownOrAsked, Present
    <2>1. Present(t) /\ t \notin removing /\ t \notin kept /\ t \notin running
        BY StopAllKeeps DEF ServicesInv, ServicesTypeOK
    <2> QED
        BY <2>1 DEF ServicesInv, KnownOrAsked
<1>3. RunningIsCalled'
    BY DEF ServicesInv, ServicesTypeOK, RunningIsCalled, StopAll
<1>4. MainStays'
    BY DEF ServicesInv, MainStays, StopAll
<1> QED
    BY <1>1, <1>2, <1>3, <1>4 DEF ServicesInv

(* Docker and the services themselves. *)
LEMMA DockerKeeps ==
    ASSUME ServicesInv, hook' = hook, Removal \/ Chance
    PROVE  ServicesInv'
<1> PICK s \in Instances : Removed(s) \/ RemovalFails(s) \/ ContainerAppears(s) \/ ServiceExits(s)
    BY DEF Removal, Chance
<1> USE DEF Removed, RemovalFails, ContainerAppears, ServiceExits
<1>1. ServicesTypeOK'
    BY DEF ServicesInv, ServicesTypeOK
<1>2. KnownOrAsked'
    BY DEF ServicesInv, ServicesTypeOK, KnownOrAsked, Present
<1>3. RunningIsCalled'
    BY DEF ServicesInv, ServicesTypeOK, RunningIsCalled
<1>4. MainStays'
    BY DEF ServicesInv, MainStays
<1> QED
    BY <1>1, <1>2, <1>3, <1>4 DEF ServicesInv

LEMMA NextServicesInv == ServicesInv /\ [Next]_vars => ServicesInv'
<1> SUFFICES ASSUME ServicesInv, [Next]_vars PROVE ServicesInv'
    OBVIOUS
<1> USE DEF Move
<1>1. ASSUME UNCHANGED servicesVars,
             \/ hook' = hook
             \/ hook = "before" /\ hook' # "closing" /\ hook' # "ended" /\ call[Main] \in {"ready", "threw", "not_run"}
             \/ hook \in {"gap", "test"} /\ hook' \in {"gap", "test", "after"}
             \/ hook = "closing" /\ hook' = "ended"
      PROVE  ServicesInv'
    BY <1>1 DEF servicesVars, ServicesInv, ServicesTypeOK, KnownOrAsked, Present, RunningIsCalled, MainStays
<1>2. CASE HookSteps
    <2>1. CASE StartStub \/ BeforeDone \/ BeforeEach \/ AfterEach \/ AfterTests \/ AfterClosed
        BY <2>1, <1>1 DEF StartStub, BeforeDone, BeforeEach, AfterEach, AfterTests, AfterClosed, hookVars
    <2>2. CASE StartMain
        BY <2>2, StartKeeps, HarnessAssumption DEF StartMain, hookVars
    <2>3. CASE After
        BY <2>3, StopEverythingKeeps DEF After, ServicesInv, ServicesTypeOK
    <2> QED
        BY <1>2, <2>1, <2>2, <2>3 DEF HookSteps
<1>3. CASE Script \/ Refuse \/ Restore \/ CallGateway \/ HandleGateway
    BY <1>3, <1>1 DEF Script, Refuse, Restore, CallGateway, HandleGateway, hookVars
<1>4. CASE StartAnother
    BY <1>4, StartKeeps DEF StartAnother, hookVars
<1>5. CASE StopAnother
    BY <1>5, StopsKeeps DEF StopAnother, hookVars
<1>6. CASE ServiceSteps
    <2> PICK s \in Instances : \/ DockerRunReturns(s) \/ DockerRunFails(s) \/ GiveUp(s) \/ Throw(s) \/ Stopped(s)
                               \/ ContainerRan(s) \/ ProcessRan(s)
        BY <1>6 DEF ServiceSteps
    <2>1. hook' = hook
        BY <1>6 DEF ServiceSteps, hookVars
    <2>2. CASE DockerRunReturns(s) \/ DockerRunFails(s) \/ Throw(s) \/ Stopped(s) \/ ProcessRan(s)
        BY <2>1, <2>2, GoesOnKeeps
    <2>3. CASE GiveUp(s) \/ ContainerRan(s)
        BY <2>1, <2>3, StopsKeeps
    <2> QED
        BY <2>2, <2>3
<1>7. CASE BecomesHealthy
    BY <1>7, GoesOnKeeps DEF BecomesHealthy, hookVars
<1>8. CASE Halt
    <2>1. hook' = hook
        BY <1>8 DEF Halt, hookVars
    <2>2. CASE Interrupted
        BY <2>1, <2>2, StopEverythingKeeps DEF Interrupted
    <2>3. CASE ExitInterrupted
        BY <2>1, <2>3 DEF ExitInterrupted, ServicesInv, ServicesTypeOK, KnownOrAsked, Present, RunningIsCalled, MainStays
    <2> QED
        BY <1>8, <2>2, <2>3 DEF Halt
<1>9. CASE RemovalSteps \/ ChanceSteps
    BY <1>9, DockerKeeps DEF RemovalSteps, ChanceSteps, hookVars
<1>10. CASE UNCHANGED vars
    BY <1>10, <1>1 DEF vars, hookVars
<1> QED
    BY <1>2, <1>3, <1>4, <1>5, <1>6, <1>7, <1>8, <1>9, <1>10 DEF Next

(***************************************************************************)
(* What a run leaves behind was not known to stopEverything when it had to *)
(* be.  (ContainersAreRemoved, what the suite's README says, does not hold *)
(* of it: a run finds containers left.)                                    *)
(***************************************************************************)
THEOREM KnownServicesAreStopped == Spec => []KnownIsStopped
<1>1. ServicesInv => KnownIsStopped
    <2> SUFFICES ASSUME ServicesInv, Finished, NEW s \in LeftBehind \ kept
                 PROVE  \/ call[s] = "not_run"
                        \/ halt = "exited" /\ (call[s] \in {"launching", "to_exit"} \/ s \in running)
        BY DEF KnownIsStopped
    <2>1. s \in Instances /\ (s \in running \/ call[s] \in {"launching", "to_exit", "not_run"})
        BY DEF LeftBehind, ServicesInv, KnownOrAsked
    <2>2. CASE halt = "exited"
        BY <2>1, <2>2
    <2>3. CASE Settled
        <3>1. CASE s = Main
            BY <2>1, <2>3, <3>1 DEF Settled, ServicesInv, MainStays
        <3>2. CASE s # Main
            BY <2>1, <2>3, <3>2 DEF Settled, ServicesInv, RunningIsCalled
        <3> QED
            BY <3>1, <3>2
    <2> QED
        BY <2>2, <2>3 DEF Finished
<1> QED
    BY InitServicesInv, NextServicesInv, <1>1, PTL DEF Spec

-----------------------------------------------------------------------------
(***************************************************************************)
(* A stray of the test that runs is still among `unscripted`: nothing but  *)
(* the next test's reset empties it.  One of an earlier test failed it.    *)
(***************************************************************************)
StraysInv ==
    /\ test \in Nat /\ strayIn \in [GatewayCalls -> Nat]
    /\ \A c \in GatewayCalls : strayIn[c] # 0 =>
          /\ strayIn[c] <= test
          /\ strayIn[c] \in failed \/ (hook = "test" /\ strayIn[c] = test /\ c \in unscripted)

LEMMA InitStraysInv == Init => StraysInv
BY DEF Init, StraysInv

LEMMA NextStraysInv == StraysInv /\ [Next]_vars => StraysInv'
<1> SUFFICES ASSUME StraysInv, [Next]_vars PROVE StraysInv'
    OBVIOUS
<1> USE DEF Move
<1>1. ASSUME UNCHANGED <<test, failed, strayIn, unscripted>>, hook' = hook \/ hook # "test"
      PROVE  StraysInv'
    BY <1>1 DEF StraysInv
<1>2. CASE HookSteps
    <2>1. CASE StartStub \/ StartMain \/ BeforeDone \/ AfterTests \/ After \/ AfterClosed
        BY <1>1, <2>1 DEF StartStub, StartMain, BeforeDone, AfterTests, After, AfterClosed, Listen, Close, hookVars, stubsVars
    <2>2. CASE BeforeEach
        BY <2>2 DEF BeforeEach, StraysInv
    <2>3. CASE AfterEach
        BY <2>3 DEF AfterEach, StraysInv
    <2> QED
        BY <1>2, <2>1, <2>2, <2>3 DEF HookSteps
<1>3. CASE Script \/ Refuse \/ Restore \/ CallGateway
    BY <1>1, <1>3 DEF Script, On, ClearScripts, Refuse, Close, Restore, Listen, CallGateway, Arrive, hookVars
<1>4. CASE StartAnother \/ StopAnother \/ ServiceSteps \/ BecomesHealthy \/ Halt \/ RemovalSteps \/ ChanceSteps \/ UNCHANGED vars
    BY <1>1, <1>4 DEF StartAnother, StopAnother, ServiceSteps, BecomesHealthy, Halt, RemovalSteps, ChanceSteps, vars,
       hookVars, stubsVars
<1>5. CASE HandleGateway
    <2>1. unscripted \subseteq unscripted' /\ UNCHANGED <<hook, test, failed>>
        BY <1>5 DEF HandleGateway, StubSteps, Stray, TakeScript, AnswerCall
    <2>2. strayIn' = [c \in GatewayCalls |->
                         IF c \in unscripted' \ unscripted /\ hook = "test" THEN test ELSE strayIn[c]]
        BY <1>5 DEF HandleGateway
    <2> QED
        BY <2>1, <2>2 DEF StraysInv
<1> QED
    BY <1>2, <1>3, <1>4, <1>5 DEF Next

(* What is kept as a stray while a test runs fails that test. *)
THEOREM StraysFailTheirTests == Spec => []StrayFailsItsTest
<1>1. StraysInv => StrayFailsItsTest
    BY DEF StraysInv, StrayFailsItsTest
<1> QED
    BY InitStraysInv, NextStraysInv, <1>1, PTL DEF Spec

-----------------------------------------------------------------------------
(***************************************************************************)
(* What is left of a target's script depends only on how many of its calls *)
(* were received since it was scripted: the answers from there on, or the  *)
(* last one.                                                               *)
(***************************************************************************)
TakenInOrder(answers, script, k) ==
    /\ Len(answers) = IF k < Len(script) THEN Len(script) - k ELSE 1
    /\ \A j \in 1..Len(answers) : answers[j] = script[Len(script) - Len(answers) + j]

LeftInOrder ==
    \A t \in Targets :
        IF scripted[t] = <<>> THEN scripts[t] = <<>> ELSE TakenInOrder(scripts[t], scripted[t], Received(t, Len(requests)))

(* A call is received once, when its body has been read. *)
ReceivedOnce ==
    /\ \A i, j \in 1..Len(requests) : requests[i] = requests[j] => i = j
    /\ \A i \in 1..Len(requests) : progress[requests[i]] \notin {"none", "reading"}

AnswersInv ==
    /\ requests \in Seq(GatewayCalls)
    /\ scripts \in [Targets -> Seq(Replies)] /\ scripted \in [Targets -> Seq(Replies)]
    /\ since \in [Targets -> Nat] /\ \A t \in Targets : since[t] <= Len(requests)
    /\ of \in [GatewayCalls -> Targets]
    /\ progress \in [GatewayCalls -> {"none", "reading", "due", "over", "cut"}]
    /\ took \in [GatewayCalls -> Replies \cup {Unanswered, NothingScripted}]
    /\ LeftInOrder /\ ReceivedOnce /\ AnsweredInOrder

(* How many calls were received is a number. *)
LEMMA ReceivedIsNat ==
    ASSUME NEW t, since[t] \in Nat, NEW i \in Nat
    PROVE  Received(t, i) \in Nat
<1> DEFINE S == {k \in (since[t] + 1)..i : of[requests[k]] = t}
<1>1. IsFiniteSet((since[t] + 1)..i) /\ S \in SUBSET ((since[t] + 1)..i)
    BY FS_Interval
<1>2. IsFiniteSet(S)
    <2> HIDE DEF S
    <2> QED
        BY <1>1, FS_Subset
<1> QED
    BY <1>2, FS_CardinalityType DEF Received

(* A new call counts for its target, and for the others nothing changes. *)
LEMMA ReceivedMore ==
    ASSUME requests \in Seq(GatewayCalls), NEW c \in GatewayCalls, NEW t,
           requests' = Append(requests, c), of' = of, since' = since, since[t] \in Nat, since[t] <= Len(requests)
    PROVE  /\ \A i \in 0..Len(requests) : Received(t, i)' = Received(t, i)
           /\ of[c] # t => Received(t, Len(requests))' = Received(t, Len(requests))
           /\ of[c] = t => Received(t, Len(requests))' = Received(t, Len(requests)) + 1
<1> DEFINE n == Len(requests)
           s == since[t] + 1
           S == {k \in s..n : of[requests[k]] = t}
<1>1. /\ n \in Nat /\ Len(requests') = n + 1 /\ requests'[n + 1] = c
      /\ s \in Nat /\ 1 <= s /\ s <= n + 1
      /\ \A k \in 1..n : requests'[k] = requests[k]
    OBVIOUS
<1>2. \A i \in 0..n : Received(t, i)' = Received(t, i)
    <2> SUFFICES ASSUME NEW i \in 0..n PROVE Received(t, i)' = Received(t, i)
        OBVIOUS
    <2>1. {k \in s..i : of'[requests'[k]] = t} = {k \in s..i : of[requests[k]] = t}
        BY <1>1
    <2> QED
        BY <2>1 DEF Received
<1>3. IsFiniteSet(S) /\ n + 1 \notin S
    <2>1. S \in SUBSET (s..n) /\ n + 1 \notin s..n
        BY <1>1
    <2>2. IsFiniteSet(s..n)
        <3> HIDE DEF s, n
        <3> QED
            BY <1>1, FS_Interval
    <2> HIDE DEF S
    <2> QED
        BY <2>1, <2>2, FS_Subset
<1>4. Received(t, n) = Cardinality(S)
    BY DEF Received
<1>5. Received(t, Len(requests))' = Cardinality({k \in s..(n + 1) : of'[requests'[k]] = t})
    BY <1>1 DEF Received
<1>6. ASSUME of[c] = t
      PROVE  Received(t, Len(requests))' = Received(t, n) + 1
    <2>1. {k \in s..(n + 1) : of'[requests'[k]] = t} = S \cup {n + 1}
        BY <1>1, <1>6
    <2>2. Cardinality(S \cup {n + 1}) = Cardinality(S) + 1
        <3> HIDE DEF S
        <3> QED
            BY <1>3, FS_AddElement
    <2> QED
        BY <1>4, <1>5, <2>1, <2>2
<1>7. ASSUME of[c] # t
      PROVE  Received(t, Len(requests))' = Received(t, n)
    <2>1. {k \in s..(n + 1) : of'[requests'[k]] = t} = S
        BY <1>1, <1>7
    <2> QED
        BY <1>4, <1>5, <2>1
<1> QED
    BY <1>2, <1>6, <1>7

(* Nothing is scripted, received or given when the run begins. *)
LEMMA InitAnswersInv == Init => AnswersInv
BY DEF Init, StubsInit, AnswersInv, LeftInOrder, ReceivedOnce, AnsweredInOrder

(* With the scripts, the calls that were received are forgotten. *)
LEMMA ForgetKeeps ==
    ASSUME AnswersInv, Forget, UNCHANGED <<of, progress, took>>
    PROVE  AnswersInv'
<1>1. requests' = <<>> /\ \A t \in Targets : scripts'[t] = <<>> /\ scripted'[t] = <<>> /\ since'[t] = 0
    BY DEF Forget
<1>2. /\ scripts' \in [Targets -> Seq(Replies)] /\ scripted' \in [Targets -> Seq(Replies)]
      /\ since' \in [Targets -> Nat]
    BY DEF Forget
<1> QED
    BY <1>1, <1>2 DEF AnswersInv, LeftInOrder, ReceivedOnce, AnsweredInOrder

(* A target that is scripted, for the first time or again, has its whole script left, and no call received since. *)
LEMMA OnKeeps ==
    ASSUME AnswersInv, NEW u \in Targets, NEW list \in Lists, On(u, list)
    PROVE  AnswersInv'
<1> DEFINE n == Len(requests)
<1>1. /\ scripts' = [scripts EXCEPT ![u] = list] /\ scripted' = [scripted EXCEPT ![u] = list]
      /\ since' = [since EXCEPT ![u] = n] /\ UNCHANGED <<requests, of, progress, took>>
    BY DEF On
<1>2. list \in Seq(Replies) /\ list # <<>>
    BY HarnessAssumption DEF Lists
<1>3. n \in Nat
    BY DEF AnswersInv
<1>4. /\ scripts' \in [Targets -> Seq(Replies)] /\ scripted' \in [Targets -> Seq(Replies)]
      /\ since' \in [Targets -> Nat] /\ \A t \in Targets : since'[t] <= n
    BY <1>1, <1>2, <1>3 DEF AnswersInv
<1>5. /\ scripts'[u] = list /\ scripted'[u] = list /\ since'[u] = n
      /\ \A t \in Targets : t # u => scripts'[t] = scripts[t] /\ scripted'[t] = scripted[t] /\ since'[t] = since[t]
    BY <1>1 DEF AnswersInv
<1>6. \A t \in Targets : t # u => \A i : Received(t, i)' = Received(t, i)
    BY <1>1, <1>5 DEF Received
<1>7. Received(u, Len(requests))' = 0
    <2>1. {k \in (n + 1)..n : of'[requests'[k]] = u} = {}
        BY <1>3
    <2> QED
        BY <1>1, <1>5, <2>1, FS_EmptySet DEF Received
<1>8. LeftInOrder'
    <2> SUFFICES ASSUME NEW t \in Targets
                 PROVE  IF scripted'[t] = <<>> THEN scripts'[t] = <<>>
                        ELSE TakenInOrder(scripts'[t], scripted'[t], Received(t, Len(requests))')
        BY DEF LeftInOrder, TakenInOrder
    <2>1. CASE t = u
        <3>1. TakenInOrder(list, list, 0)
            BY <1>2 DEF TakenInOrder
        <3> QED
            BY <1>2, <1>5, <1>7, <2>1, <3>1
    <2>2. CASE t # u
        <3>1. Received(t, Len(requests))' = Received(t, n)
            BY <1>1, <1>5, <2>2 DEF Received
        <3> QED
            BY <1>5, <2>2, <3>1 DEF AnswersInv, LeftInOrder
    <2> QED
        BY <2>1, <2>2
<1>9. AnsweredInOrder'
    <2> SUFFICES ASSUME NEW t \in Targets, NEW i \in (since'[t] + 1)..n, of[requests[i]] = t
                 PROVE  took[requests[i]] = Given(scripted'[t], Received(t, i)')
        BY <1>1 DEF AnsweredInOrder, Given
    <2>1. t # u
        BY <1>3, <1>5
    <2>2. i \in (since[t] + 1)..Len(requests) /\ scripted'[t] = scripted[t]
        BY <1>5, <2>1
    <2>3. Received(t, i)' = Received(t, i)
        BY <1>6, <2>1
    <2>4. took[requests[i]] = Given(scripted[t], Received(t, i))
        BY <2>2 DEF AnswersInv, AnsweredInOrder
    <2> QED
        BY <2>2, <2>3, <2>4
<1>10. ReceivedOnce'
    BY <1>1 DEF AnswersInv, ReceivedOnce
<1> QED
    BY <1>1, <1>4, <1>8, <1>9, <1>10 DEF AnswersInv

(* A call that is not looked up leaves the scripts and the answers as they are. *)
LEMMA ArrivesOrEndsKeeps ==
    ASSUME AnswersInv, UNCHANGED <<scripts, scripted, since, requests, of, took>>,
           progress' \in [GatewayCalls -> {"none", "reading", "due", "over", "cut"}],
           \A c \in GatewayCalls : progress[c] \notin {"none", "reading"} => progress'[c] \notin {"none", "reading"}
    PROVE  AnswersInv'
<1>1. \A t, i : Received(t, i)' = Received(t, i)
    BY DEF Received
<1>2. LeftInOrder'
    <2>1. \A t : Received(t, Len(requests))' = Received(t, Len(requests))
        BY DEF Received
    <2> QED
        BY <2>1 DEF AnswersInv, LeftInOrder, TakenInOrder
<1>3. AnsweredInOrder'
    BY <1>1 DEF AnswersInv, AnsweredInOrder, Given
<1>4. ReceivedOnce'
    BY DEF AnswersInv, ReceivedOnce
<1> QED
    BY <1>2, <1>3, <1>4 DEF AnswersInv

(* When an answer is taken it is the next, or the last, and what is left is in order for one call more. *)
LEMMA RestInOrder ==
    ASSUME NEW script \in Seq(Replies), script # <<>>, NEW left \in Seq(Replies), left # <<>>,
           NEW k \in Nat, TakenInOrder(left, script, k)
    PROVE  /\ Head(left) = Given(script, k + 1)
           /\ Rest(left) \in Seq(Replies) /\ TakenInOrder(Rest(left), script, k + 1)
<1>1. PICK l \in Nat \ {0} : l = Len(left)
    OBVIOUS
<1>2. PICK m \in Nat \ {0} : m = Len(script)
    OBVIOUS
<1>3. /\ l = IF k < m THEN m - k ELSE 1
      /\ \A j \in 1..l : left[j] = script[m - l + j]
    BY <1>1, <1>2 DEF TakenInOrder
<1>4. Head(left) = Given(script, k + 1)
    <2>1. m - l + 1 = IF k + 1 <= m THEN k + 1 ELSE m
        BY <1>3
    <2>2. Head(left) = left[1] /\ 1 \in 1..l
        BY <1>1
    <2>3. left[1] = script[m - l + 1]
        BY <1>3, <2>2
    <2> QED
        BY <1>2, <2>1, <2>2, <2>3 DEF Given
<1>5. CASE l > 1
    <2>1. PICK r : r = Tail(left)
        OBVIOUS
    <2>2. r \in Seq(Replies) /\ Len(r) = l - 1 /\ \A j \in 1..(l - 1) : r[j] = left[j + 1]
        BY <1>1, <2>1
    <2>3. l - 1 = IF k + 1 < m THEN m - (k + 1) ELSE 1
        BY <1>3, <1>5
    <2>4. ASSUME NEW j \in 1..(l - 1)
          PROVE  r[j] = script[m - (l - 1) + j]
        <3>1. j + 1 \in 1..l /\ m - l + (j + 1) = m - (l - 1) + j
            OBVIOUS
        <3>2. left[j + 1] = script[m - l + (j + 1)]
            BY <1>3, <3>1
        <3> QED
            BY <2>2, <3>1, <3>2
    <2>5. TakenInOrder(r, script, k + 1)
        BY <1>2, <2>2, <2>3, <2>4 DEF TakenInOrder
    <2> QED
        BY <1>1, <1>4, <1>5, <2>1, <2>2, <2>5 DEF Rest
<1>6. CASE l = 1
    <2>1. ~(k + 1 < m)
        BY <1>3, <1>6
    <2>2. Rest(left) = left
        BY <1>1, <1>6 DEF Rest
    <2>3. Len(left) = IF k + 1 < m THEN m - (k + 1) ELSE 1
        BY <1>1, <1>6, <2>1
    <2>4. \A j \in 1..Len(left) : left[j] = script[m - Len(left) + j]
        BY <1>1, <1>3
    <2> QED
        BY <1>2, <1>4, <2>2, <2>3, <2>4 DEF TakenInOrder
<1> QED
    BY <1>5, <1>6

(* A request's body has been read, and there is an answer for it or not. *)
LEMMA LookedUpKeeps ==
    ASSUME AnswersInv, NEW c \in GatewayCalls, Stray(c) \/ TakeScript(c)
    PROVE  AnswersInv'
<1> DEFINE u == of[c]
           n == Len(requests)
           k == Received(u, n)
           left == scripts[u]
<1>1. /\ progress[c] = "reading" /\ requests' = Append(requests, c) /\ UNCHANGED <<scripted, since, of>>
      /\ progress' \in [GatewayCalls -> {"none", "reading", "due", "over", "cut"}]
      /\ progress'[c] \notin {"none", "reading"} /\ \A d \in GatewayCalls : d # c => progress'[d] = progress[d]
      /\ u \in Targets
    BY DEF Stray, TakeScript, AnswersInv, scriptVars
<1>2. /\ requests' \in Seq(GatewayCalls) /\ Len(requests') = n + 1 /\ n \in Nat /\ requests'[n + 1] = c
      /\ \A i \in 1..n : requests'[i] = requests[i] /\ requests[i] \in GatewayCalls
    BY <1>1 DEF AnswersInv
<1>3. \A i \in 1..n : requests[i] # c
    BY <1>1 DEF AnswersInv, ReceivedOnce
<1>4. ReceivedOnce'
    <2>1. \A i \in 1..(n + 1) : i \in 1..n \/ i = n + 1
        BY <1>2
    <2>2. ASSUME NEW i \in 1..(n + 1), NEW j \in 1..(n + 1), requests'[i] = requests'[j]
          PROVE  i = j
        <3>1. CASE i \in 1..n /\ j \in 1..n
            BY <1>2, <2>2, <3>1 DEF AnswersInv, ReceivedOnce
        <3>2. CASE i = n + 1 /\ j \in 1..n
            BY <1>2, <1>3, <2>2, <3>2
        <3>3. CASE i \in 1..n /\ j = n + 1
            BY <1>2, <1>3, <2>2, <3>3
        <3> QED
            BY <2>1, <3>1, <3>2, <3>3
    <2>3. \A i \in 1..(n + 1) : progress'[requests'[i]] \notin {"none", "reading"}
        BY <1>1, <1>2, <1>3, <2>1 DEF AnswersInv, ReceivedOnce
    <2> QED
        BY <1>2, <2>2, <2>3 DEF ReceivedOnce
<1>5. \A t \in Targets : since[t] \in Nat /\ since[t] <= n
    BY DEF AnswersInv
<1>6. ASSUME NEW t \in Targets
      PROVE  /\ \A i \in 1..n : Received(t, i)' = Received(t, i)
             /\ u # t => Received(t, Len(requests))' = Received(t, n)
             /\ u = t => Received(t, Len(requests))' = Received(t, n) + 1
    <2>1. requests \in Seq(GatewayCalls) /\ n \in Nat
        BY DEF AnswersInv
    <2>2. requests' = Append(requests, c) /\ of' = of /\ since' = since /\ since[t] \in Nat /\ since[t] <= Len(requests)
        BY <1>1, <1>5
    <2>3. /\ \A i \in 0..Len(requests) : Received(t, i)' = Received(t, i)
          /\ of[c] # t => Received(t, Len(requests))' = Received(t, Len(requests))
          /\ of[c] = t => Received(t, Len(requests))' = Received(t, Len(requests)) + 1
        BY ONLY <2>1, <2>2, c \in GatewayCalls, ReceivedMore
    <2> QED
        BY <2>1, <2>3
<1>7. k \in Nat
    BY <1>1, <1>2, <1>5, ReceivedIsNat
<1>8. /\ left \in Seq(Replies) /\ scripted[u] \in Seq(Replies)
      /\ IF scripted[u] = <<>> THEN left = <<>> ELSE TakenInOrder(left, scripted[u], k)
    BY <1>1 DEF AnswersInv, LeftInOrder
<1> HIDE DEF k, left
(* The call is given what the script has for one more, and what is left is in order for it. *)
<1>9. /\ took' = [took EXCEPT ![c] = Given(scripted[u], k + 1)]
      /\ Given(scripted[u], k + 1) \in Replies \cup {Unanswered, NothingScripted}
      /\ \E rest \in Seq(Replies) :
            /\ scripts' = [scripts EXCEPT ![u] = rest]
            /\ IF scripted[u] = <<>> THEN rest = <<>> ELSE TakenInOrder(rest, scripted[u], k + 1)
    <2>1. CASE Stray(c)
        <3>1. left = <<>> /\ scripts' = scripts /\ took' = [took EXCEPT ![c] = NothingScripted]
            BY <2>1 DEF Stray, Left, left, scriptVars
        <3>2. scripted[u] = <<>>
            <4> SUFFICES ASSUME scripted[u] # <<>> PROVE FALSE
                OBVIOUS
            <4> QED
                BY <1>7, <1>8, <3>1 DEF TakenInOrder
        <3>3. scripts' = [scripts EXCEPT ![u] = left]
            BY <3>1 DEF AnswersInv, left
        <3> QED
            BY <1>8, <3>1, <3>2, <3>3 DEF Given
    <2>2. CASE TakeScript(c)
        <3>1. /\ left # <<>> /\ took' = [took EXCEPT ![c] = Head(left)]
              /\ scripts' = [scripts EXCEPT ![u] = Rest(left)]
            BY <2>2 DEF TakeScript, Left, left
        <3>2. scripted[u] # <<>> /\ TakenInOrder(left, scripted[u], k)
            BY <1>8, <3>1
        <3>3. /\ Head(left) = Given(scripted[u], k + 1)
              /\ Rest(left) \in Seq(Replies) /\ TakenInOrder(Rest(left), scripted[u], k + 1)
            BY <1>7, <1>8, <3>1, <3>2, RestInOrder
        <3>4. Head(left) \in Replies
            BY <1>8, <3>1
        <3> QED
            BY <3>1, <3>2, <3>3, <3>4
    <2> QED
        BY <2>1, <2>2
<1>10. PICK rest \in Seq(Replies) :
            /\ scripts' = [scripts EXCEPT ![u] = rest]
            /\ IF scripted[u] = <<>> THEN rest = <<>> ELSE TakenInOrder(rest, scripted[u], k + 1)
    BY <1>9
<1>11. LeftInOrder'
    <2> SUFFICES ASSUME NEW t \in Targets
                 PROVE  IF scripted'[t] = <<>> THEN scripts'[t] = <<>>
                        ELSE TakenInOrder(scripts'[t], scripted'[t], Received(t, Len(requests))')
        BY DEF LeftInOrder, TakenInOrder
    <2>1. CASE t = u
        <3>1. scripts'[t] = rest /\ scripted'[t] = scripted[u]
            BY <1>1, <1>10, <2>1 DEF AnswersInv
        <3>2. Received(t, Len(requests))' = k + 1
            BY <1>6, <2>1 DEF k
        <3> QED
            BY <1>10, <3>1, <3>2
    <2>2. CASE t # u
        <3>1. scripts'[t] = scripts[t] /\ scripted'[t] = scripted[t]
            BY <1>1, <1>10, <2>2 DEF AnswersInv
        <3>2. Received(t, Len(requests))' = Received(t, n)
            BY <1>6, <2>2
        <3> QED
            BY <3>1, <3>2 DEF AnswersInv, LeftInOrder
    <2> QED
        BY <2>1, <2>2
<1>12. AnsweredInOrder'
    <2> SUFFICES ASSUME NEW t \in Targets, NEW i \in (since'[t] + 1)..Len(requests'), of'[requests'[i]] = t
                 PROVE  took'[requests'[i]] = Given(scripted'[t], Received(t, i)')
        BY DEF AnsweredInOrder, Given
    <2>1. since'[t] = since[t] /\ scripted'[t] = scripted[t] /\ since[t] \in Nat
        BY <1>1, <1>5
    <2>2. CASE i \in 1..n
        <3>1. requests'[i] = requests[i] /\ took'[requests[i]] = took[requests[i]] /\ Received(t, i)' = Received(t, i)
            BY <1>2, <1>3, <1>6, <1>9, <2>2 DEF AnswersInv
        <3>2. i \in (since[t] + 1)..n /\ of[requests[i]] = t
            BY <1>1, <1>2, <2>1, <2>2, <3>1
        <3> QED
            BY <2>1, <3>1, <3>2 DEF AnswersInv, AnsweredInOrder
    <2>3. CASE i = n + 1
        <3>1. requests'[i] = c /\ t = u
            BY <1>1, <1>2, <2>3
        <3>2. took'[c] = Given(scripted[u], k + 1)
            BY <1>9 DEF AnswersInv
        <3>3. Received(t, i)' = k + 1
            BY <1>2, <1>6, <2>3, <3>1 DEF k
        <3> QED
            BY <2>1, <3>1, <3>2, <3>3
    <2> QED
        BY <1>2, <2>1, <2>2, <2>3
<1>13. /\ scripts' \in [Targets -> Seq(Replies)] /\ took' \in [GatewayCalls -> Replies \cup {Unanswered, NothingScripted}]
       /\ \A t \in Targets : since'[t] <= Len(requests')
    BY <1>1, <1>2, <1>5, <1>9, <1>10 DEF AnswersInv
<1> QED
    BY <1>1, <1>2, <1>4, <1>11, <1>12, <1>13 DEF AnswersInv

(* Every step of the run keeps the answers in order. *)
LEMMA NextAnswersInv == AnswersInv /\ [Next]_vars => AnswersInv'
<1> SUFFICES ASSUME AnswersInv, [Next]_vars PROVE AnswersInv'
    OBVIOUS
<1>1. CASE UNCHANGED <<scriptVars, requests, of, progress, took>>
    BY <1>1, ArrivesOrEndsKeeps DEF AnswersInv, scriptVars
<1>2. ASSUME NEW to, Close(to)
      PROVE  AnswersInv'
    BY <1>2, ArrivesOrEndsKeeps DEF Close, AnswersInv, scriptVars
<1>3. CASE HookSteps
    <2>1. CASE StartStub \/ StartMain \/ BeforeDone \/ AfterEach \/ AfterTests \/ After
        BY <1>1, <2>1 DEF StartStub, Listen, StartMain, BeforeDone, AfterEach, AfterTests, After, stubsVars
    <2>2. CASE BeforeEach
        BY <2>2, ForgetKeeps DEF BeforeEach, Reset
    <2>3. CASE AfterClosed
        BY <1>1, <1>2, <2>3 DEF AfterClosed, stubsVars
    <2> QED
        BY <1>3, <2>1, <2>2, <2>3 DEF HookSteps
<1>4. CASE Script
    BY <1>4, OnKeeps, ForgetKeeps DEF Script, ClearScripts
<1>5. CASE Refuse
    BY <1>2, <1>5 DEF Refuse
<1>6. CASE \/ Restore \/ StartAnother \/ StopAnother \/ ServiceSteps \/ BecomesHealthy \/ Halt
           \/ RemovalSteps \/ ChanceSteps \/ UNCHANGED vars
    BY <1>1, <1>6 DEF Restore, Listen, StartAnother, StopAnother, ServiceSteps, BecomesHealthy, Halt, RemovalSteps,
       ChanceSteps, vars, stubsVars
<1>7. CASE CallGateway
    <2> PICK c \in GatewayCalls : Arrive(c)
        BY <1>7 DEF CallGateway
    <2> QED
        BY ArrivesOrEndsKeeps DEF Arrive, AnswersInv, scriptVars
<1>8. CASE HandleGateway
    <2> PICK c \in GatewayCalls : Stray(c) \/ TakeScript(c) \/ AnswerCall(c)
        BY <1>8 DEF HandleGateway, StubSteps
    <2>1. CASE AnswerCall(c)
        BY <2>1, ArrivesOrEndsKeeps DEF AnswerCall, AnswersInv, scriptVars
    <2> QED
        BY <2>1, LookedUpKeeps
<1> QED
    BY <1>3, <1>4, <1>5, <1>6, <1>7, <1>8 DEF Next

(***************************************************************************)
(* Once a target is scripted, and however often it is scripted anew, the   *)
(* calls looked up from then on get that script's answers in order, the    *)
(* last one again and again, however slowly their bodies are read; and     *)
(* nothing of a script is left over by a reset.                            *)
(***************************************************************************)
THEOREM AnswersAreInOrder == Spec => []AnsweredInOrder
<1>1. AnswersInv => AnsweredInOrder
    BY DEF AnswersInv
<1> QED
    BY InitAnswersInv, NextAnswersInv, <1>1, PTL DEF Spec
=============================================================================
