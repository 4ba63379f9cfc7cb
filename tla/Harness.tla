------------------------------- MODULE Harness -------------------------------
(***************************************************************************)
(* A run of the contract suite (contract/contract.test.ts): the root hooks *)
(* start the stub and the service under test, reset the stub before each   *)
(* test, look for strays after it, and stop everything at the end.  A test *)
(* that takes too long is cancelled and the next one begins; its code goes *)
(* on.  A signal may come at any time.                                     *)
(***************************************************************************)
EXTENDS Services, Stubs

CONSTANTS
    Main,     \* the instance the before hook starts; the others are the startup suite's
    Tests     \* bound: tests in the run

ASSUME HarnessAssumption == Main \in Instances /\ Tests \in Nat /\ MaxScripts \in Nat

VARIABLES
    hook,      \* "before", "gap" (between tests), "test", "after", "closing", "ended"
    test,      \* the test that runs, or ran last
    failed,    \* tests that failed on a stray
    strayIn    \* history: the test in whose body each call was kept as a stray; 0 for none

hookVars == <<hook, test, failed, strayIn>>
vars == <<servicesVars, stubsVars, hookVars>>

TypeOK ==
    /\ ServicesTypeOK /\ StubsTypeOK
    /\ hook \in {"before", "gap", "test", "after", "closing", "ended"}
    /\ test \in 0..Tests /\ failed \subseteq 1..Tests
    /\ strayIn \in [GatewayCalls -> 0..Tests]

Init ==
    /\ ServicesInit /\ StubsInit
    /\ hook = "before" /\ test = 0 /\ failed = {}
    /\ strayIn = [c \in GatewayCalls |-> 0]

Move(from, to) == Executing /\ hook = from /\ hook' = to

-----------------------------------------------------------------------------
StartStub ==
    /\ Executing /\ hook = "before" /\ socket = "stopped" /\ Listen
    /\ UNCHANGED <<servicesVars, hookVars>>

StartMain ==
    /\ hook = "before" /\ socket = "listening" /\ StartService(Main)
    /\ UNCHANGED <<stubsVars, hookVars>>

(* A before hook that threw fails every test; the after hook runs. *)
BeforeDone ==
    /\ \/ call[Main] = "ready" /\ Move("before", "gap")
       \/ call[Main] \in {"threw", "not_run"} /\ Move("before", "after")
    /\ UNCHANGED <<servicesVars, stubsVars, test, failed, strayIn>>

BeforeEach ==
    /\ test < Tests /\ Move("gap", "test") /\ Reset
    /\ test' = test + 1
    /\ UNCHANGED <<servicesVars, failed, strayIn>>

(* The code of a test, perhaps of one that was cancelled. *)
Script ==
    /\ Executing /\ hook = "test"
    /\ \/ \E t \in Targets, list \in Lists : On(t, list)
       \/ requests # <<>> /\ ClearScripts
    /\ UNCHANGED <<servicesVars, hookVars>>

Refuse ==
    /\ Executing /\ hook = "test" /\ Close("refusing")
    /\ UNCHANGED <<servicesVars, hookVars>>

Restore ==
    /\ Executing /\ hook \in {"test", "gap"} /\ socket = "refusing" /\ Listen
    /\ UNCHANGED <<servicesVars, hookVars>>

StartAnother ==
    /\ hook = "test"
    /\ \E s \in Instances \ {Main} : StartService(s) \/ RunToExit(s)
    /\ UNCHANGED <<stubsVars, hookVars>>

StopAnother ==
    /\ \E s \in Instances \ {Main} : Stop(s)
    /\ UNCHANGED <<stubsVars, hookVars>>

AfterEach ==
    /\ Move("test", "gap")
    /\ failed' = IF unscripted # {} THEN failed \cup {test} ELSE failed
    /\ UNCHANGED <<servicesVars, stubsVars, test, strayIn>>

AfterTests ==
    /\ test = Tests /\ Move("gap", "after")
    /\ UNCHANGED <<servicesVars, stubsVars, test, failed, strayIn>>

(* The after hook, whether the log could be saved or not. *)
After ==
    /\ Move("after", "closing") /\ StopEverything
    /\ UNCHANGED <<containers, call, kept, halt, stubsVars, test, failed, strayIn>>

AfterClosed ==
    /\ AllStopped /\ Move("closing", "ended")
    /\ IF socket = "listening" THEN Close("stopped") ELSE UNCHANGED stubsVars
    /\ UNCHANGED <<servicesVars, test, failed, strayIn>>

-----------------------------------------------------------------------------
(* What goes on beside the hooks: the calls to startService and stop, the signal, docker. *)
ServiceSteps ==
    /\ \E s \in Instances :
          \/ DockerRunReturns(s) \/ DockerRunFails(s) \/ GiveUp(s) \/ Throw(s) \/ Stopped(s)
          \/ ContainerRan(s) \/ ProcessRan(s)
    /\ UNCHANGED <<stubsVars, hookVars>>

BecomesHealthy == (\E s \in Instances : HealthAnswers(s)) /\ UNCHANGED <<stubsVars, hookVars>>

Halt == (Interrupted \/ ExitInterrupted) /\ UNCHANGED <<stubsVars, hookVars>>

RemovalSteps == Removal /\ UNCHANGED <<stubsVars, hookVars>>
ChanceSteps  == Chance /\ UNCHANGED <<stubsVars, hookVars>>

(* A service that is up calls the gateway. *)
CallGateway ==
    /\ Executing /\ \E s \in Instances : life[s] = "up"
    /\ \E c \in GatewayCalls : Arrive(c)
    /\ UNCHANGED <<servicesVars, hookVars>>

HandleGateway ==
    /\ Executing /\ StubSteps
    /\ strayIn' = [c \in GatewayCalls |->
                      IF c \in unscripted' \ unscripted /\ hook = "test" THEN test ELSE strayIn[c]]
    /\ UNCHANGED <<servicesVars, hook, test, failed>>

HookSteps ==
    StartStub \/ StartMain \/ BeforeDone \/ BeforeEach \/ AfterEach \/ AfterTests \/ After \/ AfterClosed

Next ==
    \/ HookSteps \/ Script \/ Refuse \/ Restore \/ StartAnother \/ StopAnother
    \/ ServiceSteps \/ BecomesHealthy \/ Halt \/ RemovalSteps \/ ChanceSteps \/ CallGateway \/ HandleGateway

(* Deadlines bound every wait of the harness, of a test and of docker; nobody need ever become healthy. *)
Fairness ==
    /\ WF_vars(HookSteps) /\ WF_vars(ServiceSteps) /\ WF_vars(StopAnother) /\ WF_vars(Restore)
    /\ WF_vars(RemovalSteps) /\ WF_vars(ExitInterrupted /\ UNCHANGED <<stubsVars, hookVars>>)

Spec == Init /\ [][Next]_vars /\ Fairness

-----------------------------------------------------------------------------
(***************************************************************************)
(* The suite's README: "The container is removed at the end of the run,    *)
(* also after a failure or an interrupt."                                  *)
(***************************************************************************)
Settled == hook = "ended" /\ \A s \in Instances \ {Main} : call[s] \in {"idle", "threw", "not_run", "over"}
Finished == halt = "exited" \/ (halt = "armed" /\ Settled)

LeftBehind == {s \in Instances : Present(s) /\ s \notin removing}

ContainersAreRemoved == Finished /\ containers => LeftBehind \subseteq kept

(***************************************************************************)
(* What is left behind was never known to stopEverything when it had to    *)
(* be: docker run had failed or had not returned, or the service was       *)
(* started after the signal; and without a signal only what docker run     *)
(* created before it failed.                                               *)
(***************************************************************************)
KnownIsStopped ==
    Finished =>
        \A s \in LeftBehind \ kept :
            \/ call[s] = "not_run"
            \/ halt = "exited" /\ (call[s] \in {"launching", "to_exit"} \/ s \in running)

(* How many calls of target t were looked up since it was scripted, by the i-th of all. *)
Received(t, i) == Cardinality({k \in (since[t] + 1)..i : of[requests[k]] = t})

(* What the n-th of them is given. *)
Given(script, n) ==
    IF script = <<>> THEN NothingScripted ELSE script[IF n <= Len(script) THEN n ELSE Len(script)]

(***************************************************************************)
(* The calls of a target that are looked up since it was scripted get the  *)
(* answers of that script in order, the last one again and again; and as   *)
(* long as nothing was scripted for it since the last reset, none gets an  *)
(* answer of what was scripted before.  Which test a call was made in does *)
(* not matter: a late one uses up an answer.                               *)
(***************************************************************************)
AnsweredInOrder ==
    \A t \in Targets : \A i \in (since[t] + 1)..Len(requests) : of[requests[i]] = t =>
        took[requests[i]] = Given(scripted[t], Received(t, i))

(***************************************************************************)
(* "A request nobody scripted means the test did not know what the service *)
(* would call ... however it ended": what is kept as a stray while a test  *)
(* runs fails that test.                                                   *)
(***************************************************************************)
StrayFailsItsTest ==
    \A c \in GatewayCalls :
        LET t == strayIn[c] IN t # 0 /\ ~(hook = "test" /\ test = t) /\ halt # "exited" => t \in failed

(* Whatever hangs, a run ends: every wait has a deadline. *)
RunEnds == <>(hook = "ended" \/ halt = "exited")
=============================================================================
