-------------------------------- MODULE Stubs --------------------------------
(***************************************************************************)
(* The stand-in for st-gateway (contract/harness/stubs.ts): the answers a  *)
(* test scripts for a target are given in order, the last one again and    *)
(* again; a call with no script is answered 599 and kept as a stray.  A    *)
(* test may script a target anew at any time.                              *)
(*                                                                         *)
(* A request is looked up when its body has been read, which may be long   *)
(* after it arrived, in a later test.  The introspection center's stub     *)
(* differs in what it looks up: the token, under which one behaviour stays *)
(* until the reset.                                                        *)
(***************************************************************************)
EXTENDS Integers, Sequences, FiniteSets, SequencesExt

CONSTANTS
    GatewayCalls,   \* requests the services make of the stub
    Targets,        \* "METHOD /target"
    Replies,        \* what a test scripts
    MaxScripts      \* bound: answers scripted for a target at once

VARIABLES
    socket,      \* "listening", "refusing", or "stopped"
    scripts,     \* the answers left, for each target; <<>> when there is no script
    scripted,    \* history: the answers as the last `on` was given them
    since,       \* history: how many calls had been received by then
    requests,    \* the calls received since the last reset or clearScripts, in order
    unscripted,  \* the strays since the last reset
    of,          \* the target of each call
    progress,    \* each call: "none", "reading", "due", "over", or "cut"
    took         \* the answer each was given; Unanswered before

scriptVars == <<scripts, scripted, since>>
stubsVars == <<socket, scriptVars, requests, unscripted, of, progress, took>>

Unanswered == "none"
NothingScripted == "599"

Lists == UNION {[1..n -> Replies] : n \in 1..MaxScripts}

StubsTypeOK ==
    /\ socket \in {"listening", "refusing", "stopped"}
    /\ DOMAIN scripts = Targets /\ DOMAIN scripted = Targets
    /\ \A t \in Targets : IsSuffix(scripts[t], scripted[t])
    /\ Range(requests) \subseteq GatewayCalls /\ unscripted \subseteq GatewayCalls
    /\ of \in [GatewayCalls -> Targets]
    /\ progress \in [GatewayCalls -> {"none", "reading", "due", "over", "cut"}]
    /\ \A t \in Targets : since[t] \in 0..Len(requests)
    /\ took \in [GatewayCalls -> Replies \cup {Unanswered, NothingScripted}]

StubsInit ==
    /\ socket = "stopped"
    /\ scripts = [t \in Targets |-> <<>>] /\ scripted = scripts
    /\ since = [t \in Targets |-> 0]
    /\ requests = <<>> /\ unscripted = {}
    /\ of \in [GatewayCalls -> Targets]
    /\ progress = [c \in GatewayCalls |-> "none"]
    /\ took = [c \in GatewayCalls |-> Unanswered]

-----------------------------------------------------------------------------
(* What a test and the hooks do. *)
Forget ==
    /\ scripts' = [t \in Targets |-> <<>>] /\ scripted' = scripts'
    /\ since' = [t \in Targets |-> 0]
    /\ requests' = <<>>

(* Mutant: the scripts of the test before are kept. *)
ForgetCalls ==
    /\ scripted' = [t \in Targets |-> <<>>] /\ since' = [t \in Targets |-> 0]
    /\ requests' = <<>> /\ unscripted' = {}
    /\ UNCHANGED <<scripts, socket, of, progress, took>>

Reset == Forget /\ unscripted' = {} /\ UNCHANGED <<socket, of, progress, took>>

(* Mutant: reset() would hide a stray call. *)
ClearScriptsAndStrays == Reset

ClearScripts == Forget /\ UNCHANGED <<socket, unscripted, of, progress, took>>

(* Mutant: what is scripted for a target again comes after what is left. *)
Queue(t, list) ==
    /\ scripts' = [scripts EXCEPT ![t] = @ \o list]
    /\ scripted' = [scripted EXCEPT ![t] = list]
    /\ since' = [since EXCEPT ![t] = Len(requests)]
    /\ UNCHANGED <<socket, requests, unscripted, of, progress, took>>

(* `on`, which replaces what there was for the target. *)
On(t, list) ==
    /\ scripts' = [scripts EXCEPT ![t] = list]
    /\ scripted' = [scripted EXCEPT ![t] = list]
    /\ since' = [since EXCEPT ![t] = Len(requests)]
    /\ UNCHANGED <<socket, requests, unscripted, of, progress, took>>

Listen ==
    /\ socket # "listening"
    /\ socket' = "listening"
    /\ UNCHANGED <<scriptVars, requests, unscripted, of, progress, took>>

(* refuse and stop: what is open is dropped; a handler that has read its request goes on, answering nobody. *)
Close(to) ==
    /\ socket = "listening"
    /\ socket' = to
    /\ progress' = [c \in GatewayCalls |-> IF progress[c] \in {"reading", "due"} THEN "cut" ELSE progress[c]]
    /\ UNCHANGED <<scriptVars, requests, unscripted, of, took>>

-----------------------------------------------------------------------------
(* What the service's calls do. *)
Arrive(c) ==
    /\ socket = "listening"
    /\ progress[c] = "none"
    /\ progress' = [progress EXCEPT ![c] = "reading"]
    /\ UNCHANGED <<socket, scriptVars, requests, unscripted, of, took>>

Left(t) == scripts[t]

(* handle, its body read: recorded, and looked up. *)
Stray(c) ==
    /\ progress[c] = "reading"
    /\ Left(of[c]) = <<>>
    /\ requests' = Append(requests, c)
    /\ unscripted' = unscripted \cup {c}
    /\ took' = [took EXCEPT ![c] = NothingScripted]
    /\ progress' = [progress EXCEPT ![c] = "over"]
    /\ UNCHANGED <<socket, scriptVars, of>>

(* Mutant: the last one is used up as well. *)
Shift(list) == Tail(list)

Rest(list) == IF Len(list) > 1 THEN Tail(list) ELSE list

TakeScript(c) ==
    LET t == of[c] IN
    /\ progress[c] = "reading"
    /\ Left(t) # <<>>
    /\ requests' = Append(requests, c)
    /\ took' = [took EXCEPT ![c] = Head(Left(t))]
    /\ progress' = [progress EXCEPT ![c] = "due"]
    /\ scripts' = [scripts EXCEPT ![t] = Rest(@)]
    /\ UNCHANGED <<socket, scripted, since, unscripted, of>>

(* The answer, after its delay, if ever: a reply, a dropped connection, or a truncated body. *)
AnswerCall(c) ==
    /\ progress[c] = "due"
    /\ progress' = [progress EXCEPT ![c] = "over"]
    /\ UNCHANGED <<socket, scriptVars, requests, unscripted, of, took>>

StubSteps == \E c \in GatewayCalls : Stray(c) \/ TakeScript(c) \/ AnswerCall(c)
=============================================================================
