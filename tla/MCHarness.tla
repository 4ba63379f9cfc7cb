----------------------------- MODULE MCHarness -----------------------------
(***************************************************************************)
(* Bounds of the instance: a run has calls to the gateway in it, or        *)
(* another service and a signal, not all of them; and the calls, which are *)
(* alike, arrive in the order of their numbers; and a target gets one of   *)
(* two scripts.  Nothing that is fair is held back by it.                  *)
(***************************************************************************)
EXTENDS Harness

NoCalls == \A c \in GatewayCalls : progress[c] = "none"
OnlyMain == halt = "armed" /\ \A s \in Instances \ {Main} : call[s] = "idle"

InTurn == \A c \in GatewayCalls, d \in GatewayCalls : c < d /\ progress[c] = "none" => progress[d] = "none"

TwoScripts == \A t \in Targets : scripted[t] \in {<<>>, <<"a", "b">>, <<"b">>}

MCNext == Next /\ (NoCalls \/ OnlyMain)' /\ InTurn' /\ TwoScripts'

MCSpec == Init /\ [][MCNext]_vars /\ Fairness
=============================================================================
