-------------------------------- MODULE Judge --------------------------------
(***************************************************************************)
(* The verdict on a run of the contract suite (scripts/run-contract.cjs,   *)
(* fed by scripts/contract-reporter.js): the cases on the skip list run    *)
(* and must fail, but for those named as passing; every other one must     *)
(* pass; and the numbers are the committed ones.                           *)
(*                                                                         *)
(* The lists were written from a run; a later one is judged by them.  A    *)
(* pattern is the set of paths, of suites and of cases, that it matches.   *)
(***************************************************************************)
EXTENDS Naturals, FiniteSets, Sequences, SequencesExt

CONSTANTS
    Suites,
    SuiteCases,  \* the paths of the cases, <<suite, case>>
    SkipLists    \* the lists of patterns that are tried

ASSUME SuiteAssumption == IsFiniteSet(SuiteCases)

VARIABLES
    listing,     \* contract-skip.txt, its patterns in order
    vacuous,     \* contract-skip-passing.txt
    expected,    \* contract-skip.expected
    first,       \* the run they were written from: what each case ended with
    outcome,     \* the run that is judged: "pass", "fail", "skip", or "absent"
    broken,      \* suites that failed for a reason of their own
    thrown,      \* whether code threw outside any test
    exited,      \* the exit status of the suite's process
    judged       \* "no", "due", "good" or "bad"

judgeVars == <<listing, vacuous, expected, first, outcome, broken, thrown, exited, judged>>

Outcomes == {"pass", "fail", "skip", "absent"}

-----------------------------------------------------------------------------
(* node:test skips a test whose own path matches, or that of a suite around it. *)
Hits(path) == {i \in 1..Len(listing) : listing[i] \cap Prefixes(path) # {}}

(* Mutant: a pattern that follows one which matches is not looked at. *)
UsedUpToTheFirst(paths) == {i \in UNION {Hits(p) : p \in paths} : \E p \in paths : i \in Hits(p) /\ \A j \in Hits(p) : i <= j}

(* Mutant: a pattern is used when it matches a case that any run had. *)
UsedByAnyCase(paths) == UNION {Hits(c) : c \in SuiteCases}

Used(paths) == UNION {Hits(p) : p \in paths}

IsListed(path) == Hits(path) # {}

(* The reporter: a test in the run, and a suite that failed otherwise than by its tests. *)
InRun(run) == {c \in SuiteCases : run[c] # "absent"}
OwnFailures == {<<s>> : s \in broken}

(* Mutant: what passes off the list is not counted. *)
CountsOfTheListed(run) ==
    LET ran == {c \in InRun(run) : run[c] # "skip"} IN
    [skipped |-> Cardinality({c \in ran : IsListed(c)}), dynamic |-> Cardinality(InRun(run) \ ran)]

Counts(run) ==
    LET ran == {c \in InRun(run) : run[c] # "skip"} IN
    [suite   |-> Cardinality(InRun(run)),
     skipped |-> Cardinality({c \in ran : IsListed(c)}),
     pass    |-> Cardinality({c \in ran : ~IsListed(c) /\ run[c] = "pass"}),
     dynamic |-> Cardinality(InRun(run) \ ran)]

(* Mutant: what passes on the list is no problem. *)
CaseProblemOffTheList(run, c) == ~IsListed(c) /\ run[c] = "fail"

CaseProblem(run, c) ==
    \/ ~IsListed(c) /\ run[c] = "fail"
    \/ IsListed(c) /\ run[c] = "pass" /\ c \notin vacuous

Failures(run) == {c \in SuiteCases : run[c] = "fail"} \cup OwnFailures

Problems(run) ==
    \/ thrown
    \/ \E s \in OwnFailures : ~IsListed(s)
    \/ \E c \in InRun(run) : CaseProblem(run, c)
    \/ Used(InRun(run) \cup OwnFailures) # 1..Len(listing)
    \/ \E c \in vacuous : ~(IsListed(c) /\ run[c] = "pass")
    \/ exited # 0 /\ Failures(run) = {}
    \/ Counts(run) # expected
    \/ InRun(run) = {} /\ OwnFailures = {}   \* no test results were recorded

(* The lists as the first run has them, every pattern matching one of its cases. *)
SuiteInit ==
    /\ listing \in SkipLists
    /\ first \in [SuiteCases -> Outcomes]
    /\ InRun(first) # {}
    /\ \A i \in 1..Len(listing) : \E c \in InRun(first) : listing[i] \cap Prefixes(c) # {}
    /\ vacuous = {c \in SuiteCases : IsListed(c) /\ first[c] = "pass"}
    /\ expected = Counts(first)
    /\ \A c \in SuiteCases : first[c] = "fail" => IsListed(c)
    /\ outcome = first /\ broken = {} /\ thrown = FALSE /\ exited = 0 /\ judged = "no"

(* A run: node exits with 1 when something failed, and may for another reason. *)
RunSuite ==
    /\ judged = "no"
    /\ outcome' \in [SuiteCases -> Outcomes]
    /\ broken' \in SUBSET Suites
    /\ thrown' \in BOOLEAN
    /\ exited' \in IF broken' # {} \/ \E c \in SuiteCases : outcome'[c] = "fail" THEN {1} ELSE {0, 1}
    /\ judged' = "due"
    /\ UNCHANGED <<listing, vacuous, expected, first>>

Judging ==
    /\ judged = "due"
    /\ judged' = IF Problems(outcome) THEN "bad" ELSE "good"
    /\ UNCHANGED <<listing, vacuous, expected, first, outcome, broken, thrown, exited>>

SuiteNext == RunSuite \/ Judging

SuiteSpec == SuiteInit /\ [][SuiteNext]_judgeVars

-----------------------------------------------------------------------------
(***************************************************************************)
(* Good means unchanged: of the cases both runs have, and neither skips,   *)
(* none ends differently; a case stops running only where another begins   *)
(* to; every pattern of the list matches something; nothing threw outside  *)
(* the tests, and a suite that broke is on the list.  And what ends as the *)
(* first run did is good, however the patterns of the list overlap.        *)
(***************************************************************************)
GoodMeansUnchanged ==
    /\ judged = "good" =>
          /\ \A c \in SuiteCases : {first[c], outcome[c]} \cap {"skip", "absent"} = {} => outcome[c] = first[c]
          /\ (\A c \in SuiteCases : first[c] \in {"skip", "absent"} => outcome[c] = first[c]) => outcome = first
          /\ \A i \in 1..Len(listing) : \E p \in InRun(outcome) \cup OwnFailures : listing[i] \cap Prefixes(p) # {}
          /\ ~thrown /\ \A s \in broken : IsListed(<<s>>)
          /\ exited = 0 \/ Failures(outcome) # {}
    /\ judged \in {"good", "bad"} /\ outcome = first /\ broken = {} /\ ~thrown /\ (exited = 1 <=> Failures(first) # {}) =>
          judged = "good"
=============================================================================
