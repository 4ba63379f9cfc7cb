------------------------------- MODULE MCTools -------------------------------
(***************************************************************************)
(* The tools of a deployment, one of them at a time: the probe, the        *)
(* dependency check, or the judge of a contract run.                       *)
(***************************************************************************)
EXTENDS Probe, Dependencies, Judge

VARIABLE tool

MCSuites == {"auth", "cors"}
MCCases  == {<<"auth", 1>>, <<"auth", 2>>, <<"cors", 1>>}

(* A suite, each case of one, and a pattern that matches in two suites: none of them, one, or two. *)
MCPatterns  == {{<<"auth">>}, {<<"auth", 1>>}, {<<"auth", 2>>}, {<<"cors", 1>>}, {<<"auth", 1>>, <<"cors">>}}
MCSkipLists == {<<>>} \cup {<<p>> : p \in MCPatterns} \cup {<<p, q>> : p, q \in MCPatterns}

ProbeRests ==
    /\ strict = FALSE /\ allowed = {} /\ inputs = {} /\ usage = "help" /\ fault = Nowhere
    /\ says = [status |-> 0, type |-> "none"] /\ autopilot = Healthy /\ log = <<>> /\ at = 0 /\ seen = "unread"
    /\ passes = 0 /\ fails = 0 /\ skipped = <<>> /\ result = "exit_0"

RepoRests ==
    /\ package = <<>> /\ others = {} /\ allowlist = <<>> /\ lock = <<>> /\ lockRoot = <<>> /\ lines = {}
    /\ edits = 0 /\ checked = "no"

JudgeRests ==
    /\ listing = <<>> /\ vacuous = {} /\ expected = <<>> /\ first = <<>> /\ outcome = <<>>
    /\ broken = {} /\ thrown = FALSE /\ exited = 0 /\ judged = "no"

(* What cannot matter to the probe is not varied: --allow-skip without --strict, and all else where nothing runs. *)
MCProbeInit ==
    /\ ProbeInit
    /\ ~strict => allowed = {}
    /\ usage # "fine" \/ "OPERATOR_TOKEN" \notin inputs => fault = Nowhere /\ autopilot = Healthy

MCInit ==
    \/ tool = "probe" /\ MCProbeInit /\ RepoRests /\ JudgeRests
    \/ tool = "check-dependencies" /\ ProbeRests /\ RepoInit /\ JudgeRests
    \/ tool = "run-contract" /\ ProbeRests /\ RepoRests /\ SuiteInit

MCNext ==
    \/ tool = "probe" /\ ProbeNext /\ UNCHANGED <<tool, repoVars, judgeVars>>
    \/ tool = "check-dependencies" /\ RepoNext /\ UNCHANGED <<tool, probeVars, judgeVars>>
    \/ tool = "run-contract" /\ SuiteNext /\ UNCHANGED <<tool, probeVars, repoVars>>

MCSpec == MCInit /\ [][MCNext]_<<tool, probeVars, repoVars, judgeVars>>
=============================================================================
