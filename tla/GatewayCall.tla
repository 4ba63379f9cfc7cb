----------------------------- MODULE GatewayCall -----------------------------
(***************************************************************************)
(* What the gateway client (src/gateway/client.ts) promises the handler    *)
(* that uses it: an operation of one or several calls, each of which asks  *)
(* a bounded number of times, never for a caller who has left, and ends    *)
(* with one outcome whose blame is right.  GatewayClient implements it.    *)
(***************************************************************************)
EXTENDS Integers

CONSTANT MAX_REQUESTS   \* how many requests one call may make

VARIABLES
    left,     \* the calls of the operation after this one
    gone,     \* the caller has hung up
    asked,    \* the requests this call has sent
    outcome   \* what the handler gets

callVars == <<left, gone, asked, outcome>>

Pending == "pending"

Init ==
    /\ left \in {0, 2}
    /\ gone \in BOOLEAN
    /\ asked = 0
    /\ outcome = Pending

(* One more request, for a caller who is there. *)
Ask ==
    /\ outcome = Pending
    /\ ~gone
    /\ asked < MAX_REQUESTS
    /\ asked' = asked + 1
    /\ UNCHANGED <<left, gone, outcome>>

(* The call is answered; the operation's next one begins. *)
NextCall ==
    /\ outcome = Pending
    /\ asked > 0
    /\ left > 0
    /\ left' = left - 1
    /\ asked' = 0
    /\ UNCHANGED <<gone, outcome>>

HangUp ==
    /\ outcome = Pending
    /\ ~gone
    /\ gone' = TRUE
    /\ UNCHANGED <<left, asked, outcome>>

(***************************************************************************)
(* The outcomes.  A body is the last call's answer; an unreadable body or  *)
(* an error status is an answer to any of them; a bad address asks nobody; *)
(* silence is the gateway's fault unless the caller is gone.               *)
(***************************************************************************)
May(o) ==
    /\ o = "body" => asked > 0 /\ left = 0
    /\ o \in {"unreadable", "upstream error"} => asked > 0
    /\ o = "bad address" => asked = 0
    /\ o = "no answer" => ~gone /\ asked > 0
    /\ o = "caller gone" => gone

End ==
    /\ outcome = Pending
    /\ \E o \in {"body", "unreadable", "upstream error", "bad address", "no answer", "caller gone"} :
          May(o) /\ outcome' = o
    /\ UNCHANGED <<left, gone, asked>>

Next == Ask \/ NextCall \/ HangUp \/ End

(* No other step. *)
Steps == Init /\ [][Next]_callVars

(* The promise: those steps, and an end, however silent the gateway is. *)
Spec == Steps /\ <>(outcome # Pending)
=============================================================================
