------------------------------ MODULE Services ------------------------------
(***************************************************************************)
(* The services under test that a contract run starts                      *)
(* (contract/harness/service.ts): a container of the image, or a process   *)
(* of a shell command.  startService waits for /health; runToExit starts   *)
(* one that should refuse its configuration.  The set `running` is what    *)
(* stopEverything knows, at the end of the run or on a signal.             *)
(*                                                                         *)
(* Docker and the services act on their own; when the runner has exited,   *)
(* what docker was asked goes on.  The shell is taken to exec a simple     *)
(* command, so that killing the child kills the service.                   *)
(***************************************************************************)
EXTENDS Integers, FiniteSets

CONSTANT Instances   \* the services a run starts

VARIABLES
    containers, \* docker runs CONTRACT_IMAGE; or the shell CONTRACT_COMMAND
    life,       \* of each service: "none", "up", "exited" (a container is still there), or "gone"
    call,       \* where startService or runToExit is, for each
    running,    \* the services stopEverything will stop
    removing,   \* docker has been asked to remove these
    kept,       \* docker would not
    halt,       \* on a signal: "armed", "stopping", "exited"
    snapshot    \* what stopEverything waits for

servicesVars == <<containers, life, call, running, removing, kept, halt, snapshot>>

Calls == {"idle", "launching", "waiting", "to_exit", "ready", "failing", "stopping", "threw", "not_run", "over"}

ServicesTypeOK ==
    /\ containers \in BOOLEAN
    /\ life \in [Instances -> {"none", "up", "exited", "gone"}]
    /\ call \in [Instances -> Calls]
    /\ running \subseteq Instances /\ removing \subseteq Instances /\ kept \subseteq Instances
    /\ halt \in {"armed", "stopping", "exited"} /\ snapshot \subseteq Instances

ServicesInit ==
    /\ containers \in BOOLEAN
    /\ life = [s \in Instances |-> "none"]
    /\ call = [s \in Instances |-> "idle"]
    /\ running = {} /\ removing = {} /\ kept = {} /\ snapshot = {}
    /\ halt = "armed"

Executing == halt # "exited"

At(s, from, to) == Executing /\ call[s] = from /\ call' = [call EXCEPT ![s] = to]

Present(s) == life[s] = "up" \/ (containers /\ life[s] = "exited")

-----------------------------------------------------------------------------
(* stop(), up to its first await, of each of S: forgotten first, removed after. *)
StopAll(S) ==
    /\ running' = running \ S
    /\ removing' = IF containers THEN removing \cup S ELSE removing
    /\ life' = [s \in Instances |-> IF ~containers /\ s \in S /\ life[s] = "up" THEN "gone" ELSE life[s]]

(* startService: docker run, or spawn, which returns at once. *)
StartService(s) ==
    /\ IF containers THEN At(s, "idle", "launching") /\ UNCHANGED <<life, running>>
       ELSE /\ At(s, "idle", "waiting")
            /\ life' = [life EXCEPT ![s] = "up"]
            /\ running' = running \cup {s}
    /\ UNCHANGED <<containers, removing, kept, halt, snapshot>>

(* Mutant: it is registered once /health has answered. *)
DockerRunReturnsUnregistered(s) ==
    /\ life[s] # "none"
    /\ At(s, "launching", "waiting")
    /\ UNCHANGED <<containers, life, running, removing, kept, halt, snapshot>>

DockerRunReturns(s) ==
    /\ life[s] # "none"
    /\ At(s, "launching", "waiting")
    /\ running' = running \cup {s}
    /\ UNCHANGED <<containers, life, removing, kept, halt, snapshot>>

(* It failed, before the container was created or after, or did not return in time. *)
DockerRunFails(s) ==
    /\ At(s, "launching", "not_run")
    /\ UNCHANGED <<containers, life, running, removing, kept, halt, snapshot>>

(* The port is published and /health answered 200. *)
HealthAnswers(s) ==
    /\ life[s] = "up"
    /\ At(s, "waiting", "ready")
    /\ UNCHANGED <<containers, life, running, removing, kept, halt, snapshot>>

(* Mutant: without a deadline. *)
GiveUpWhenGone(s) ==
    /\ life[s] # "up"
    /\ At(s, "waiting", "failing")
    /\ StopAll({s})
    /\ UNCHANGED <<containers, kept, halt, snapshot>>

(* No published port, the service exited, or the deadline passed: it is stopped before the throw. *)
GiveUp(s) ==
    /\ At(s, "waiting", "failing")
    /\ StopAll({s})
    /\ UNCHANGED <<containers, kept, halt, snapshot>>

Throw(s) ==
    /\ s \notin removing
    /\ At(s, "failing", "threw")
    /\ UNCHANGED <<containers, life, running, removing, kept, halt, snapshot>>

(* RunningService.stop. *)
Stop(s) ==
    /\ At(s, "ready", "stopping")
    /\ StopAll({s})
    /\ UNCHANGED <<containers, kept, halt, snapshot>>

Stopped(s) ==
    /\ s \notin removing
    /\ At(s, "stopping", "over")
    /\ UNCHANGED <<containers, life, running, removing, kept, halt, snapshot>>

(* runToExit: only a container is registered, before docker run. *)
RunToExit(s) ==
    /\ At(s, "idle", "to_exit")
    /\ running' = IF containers THEN running \cup {s} ELSE running
    /\ life' = IF containers THEN life ELSE [life EXCEPT ![s] = "up"]
    /\ UNCHANGED <<containers, removing, kept, halt, snapshot>>

(* docker run ended, or was killed after timeoutMs: the container is removed whatever it was. *)
ContainerRan(s) ==
    /\ containers
    /\ At(s, "to_exit", "stopping")
    /\ StopAll({s})
    /\ UNCHANGED <<containers, kept, halt, snapshot>>

(* The child exited, or is killed after timeoutMs. *)
ProcessRan(s) ==
    /\ ~containers
    /\ At(s, "to_exit", "over")
    /\ life' = [life EXCEPT ![s] = "gone"]
    /\ UNCHANGED <<containers, running, removing, kept, halt, snapshot>>

-----------------------------------------------------------------------------
(* stopEverything. *)
StopEverything ==
    /\ snapshot' = running
    /\ StopAll(running)

AllStopped == snapshot \cap removing = {}

(* SIGINT or SIGTERM.  Only docker is waited for, and the tests go on meanwhile. *)
Interrupted ==
    /\ halt = "armed"
    /\ halt' = IF containers /\ running # {} THEN "stopping" ELSE "exited"
    /\ StopEverything
    /\ UNCHANGED <<containers, call, kept>>

(* process.exit(130). *)
ExitInterrupted ==
    /\ halt = "stopping"
    /\ AllStopped
    /\ halt' = "exited"
    /\ UNCHANGED <<containers, life, call, running, removing, kept, snapshot>>

-----------------------------------------------------------------------------
(* Docker and the services. *)
ContainerAppears(s) ==
    /\ containers
    /\ call[s] \in {"launching", "to_exit"} /\ life[s] = "none"
    /\ life' = [life EXCEPT ![s] = "up"]
    /\ UNCHANGED <<containers, call, running, removing, kept, halt, snapshot>>

Removed(s) ==
    /\ s \in removing
    /\ removing' = removing \ {s}
    /\ life' = [life EXCEPT ![s] = IF @ = "none" THEN @ ELSE "gone"]   \* there may be nothing to remove yet
    /\ UNCHANGED <<containers, call, running, kept, halt, snapshot>>

(* exec resolves whatever docker rm ended with. *)
RemovalFails(s) ==
    /\ s \in removing
    /\ removing' = removing \ {s}
    /\ kept' = kept \cup {s}
    /\ UNCHANGED <<containers, life, call, running, halt, snapshot>>

ServiceExits(s) ==
    /\ life[s] = "up"
    /\ life' = [life EXCEPT ![s] = IF containers THEN "exited" ELSE "gone"]
    /\ UNCHANGED <<containers, call, running, removing, kept, halt, snapshot>>

Removal == \E s \in Instances : Removed(s) \/ RemovalFails(s)
Chance  == \E s \in Instances : ContainerAppears(s) \/ ServiceExits(s)
=============================================================================
