---------------------------- MODULE WriteRequests ----------------------------
(***************************************************************************)
(* The write routes of agent-service, several requests at a time: accept   *)
(* and fulfil a contract (contractStateChange), buy a ship, buy or sell    *)
(* cargo (purchaseShip, tradeCargo), and record a delivery                 *)
(* (recordDelivery).  A request is authorised, its body is read, the       *)
(* gateway is asked, the history is written, and the answer goes out;      *)
(* every await between two of these is a point at which the caller may     *)
(* hang up, another request may move, or the process may be stopped.       *)
(*                                                                         *)
(* External, modelled from how src/ uses it: the introspection of          *)
(* auth-service (clerk-client), the game behind st-gateway, which acts on  *)
(* a request that reached it even when nobody waits for the answer any     *)
(* more, and MySQL, which executes a statement atomically and whose error  *)
(* may come after the statement took effect.  An answer the client takes   *)
(* for a success (a 2xx, or a 3xx without a Location) means that the game  *)
(* acted, but its body may be empty: it is then decoded to the zero value, *)
(* a contract with the id "" or a transaction of zeros, and that is what   *)
(* the history is given and the caller is told.  The HTTP details of one   *)
(* gateway call are in GatewayClient.                                      *)
(***************************************************************************)
EXTENDS Integers, FiniteSets

CONSTANTS
    Requests,      \* the requests
    Kind,          \* what each one asks for
    GatewayErrors  \* the statuses (400 and above) st-gateway refuses with

Kinds == {"accept", "fulfill", "trade", "delivery"}

ASSUME KindAssumption == Kind \in [Requests -> Kinds]
ASSUME GatewayErrorsAssumption == GatewayErrors \subseteq Nat /\ \A s \in GatewayErrors : s >= 400

ReadsBody(r)   == Kind[r] \in {"trade", "delivery"}
AsksGateway(r) == Kind[r] # "delivery"
OfContract(r)  == Kind[r] \in {"accept", "fulfill"}

VARIABLES
    server,      \* the process: serving, then stopping
    stage,       \* where each request is
    caller,      \* whether its caller is still connected
    signal,      \* callerOf's signal: "armed" once it listens for the hang-up, "fired" when it saw it
    game,        \* what became of its gateway request
    askedFor,    \* whether the caller was there when the gateway was asked (history)
    contract,    \* the contract, as the game has it
    reply,       \* what the gateway's answer carries: a contract, a transaction, or nothing
    answered,    \* the status the caller received, 0 for none
    recorded,    \* the requests with a row of their own in transactions or contract_deliveries
    zeroed,      \* the requests whose zero value is in the history: a row of zeros, or the contract ""
    contractRow, \* the contract's row in the history
    known,       \* every contract state the history was given (history)
    logged       \* the requests whose failed best-effort write was logged

vars == <<server, stage, caller, signal, game, askedFor, contract, reply, answered,
          recorded, zeroed, contractRow, known, logged>>

request == <<caller, signal, game, askedFor, contract, reply>>
history == <<recorded, zeroed, contractRow, known, logged>>

Rank == [s \in {"none", "offered", "accepted", "fulfilled"} |->
            CASE s = "none" -> 0 [] s = "offered" -> 1 [] s = "accepted" -> 2 [] OTHER -> 3]
ContractStates == DOMAIN Rank

(* An answer carries the contract as it is, or the transaction that was made; or its body is empty. *)
Replies(r) ==
    IF OfContract(r) THEN ContractStates \cup {"empty"}
    ELSE IF AsksGateway(r) THEN {"none", "transaction", "empty"} ELSE {"none"}

Stages == {"none", "auth", "body", "abandoned", "call", "persist", "answer", "done"}

TypeOK ==
    /\ server \in {"serving", "closing", "draining", "exited_0", "exited_1"}
    /\ stage \in [Requests -> Stages]
    /\ caller \in [Requests -> {"here", "gone"}]
    /\ signal \in [Requests -> {"unset", "armed", "fired"}]
    /\ game \in [Requests -> {"unasked", "asked", "acted", "refused"}]
    /\ askedFor \in [Requests -> {"here", "gone"}]
    /\ contract \in ContractStates
    /\ reply \in [Requests -> ContractStates \cup {"transaction", "empty"}]
    /\ \A r \in Requests : reply[r] \in Replies(r)
    /\ answered \in [Requests -> {0, 200, 400, 401, 500, 502, 504} \cup (GatewayErrors \cap (400..599))]
    /\ recorded \subseteq Requests /\ zeroed \subseteq Requests
    /\ contractRow \in ContractStates
    /\ known \subseteq ContractStates
    /\ logged \subseteq Requests

Init ==
    /\ server = "serving"
    /\ stage = [r \in Requests |-> "none"]
    /\ caller = [r \in Requests |-> "here"]
    /\ signal = [r \in Requests |-> "unset"]
    /\ game = [r \in Requests |-> "unasked"]
    /\ askedFor = [r \in Requests |-> "here"]
    /\ contract = "offered"
    /\ reply = [r \in Requests |-> "none"]
    /\ answered = [r \in Requests |-> 0]
    /\ recorded = {} /\ zeroed = {}
    /\ contractRow = "none"
    /\ known = {}
    /\ logged = {}

Running == server \in {"serving", "closing", "draining"}

Goto(r, s) == stage' = [stage EXCEPT ![r] = s]

(* The answer goes out, if there is still somebody to take it. *)
Answer(r, status) ==
    /\ Goto(r, "done")
    /\ answered' = [answered EXCEPT ![r] = IF caller[r] = "here" THEN status ELSE 0]

-----------------------------------------------------------------------------
(* A request comes in and its declaration asks auth-service about the session. *)
Arrive(r) ==
    /\ server = "serving"
    /\ stage[r] = "none"
    /\ Goto(r, "auth")
    /\ UNCHANGED <<server, request, answered, history>>

(* The declaration refuses; 401 stands for 401, 403 and the 503 of an auth-service that could not be asked. *)
AuthRefuses(r) ==
    /\ Running
    /\ stage[r] = "auth"
    /\ Answer(r, 401)
    /\ UNCHANGED <<server, request, history>>

(* The gateway is asked: callerOf starts to watch the caller, and the request goes out at once. *)
AskGateway(r) ==
    /\ Goto(r, "call")
    /\ signal' = [signal EXCEPT ![r] = "armed"]
    /\ game' = [game EXCEPT ![r] = "asked"]
    /\ askedFor' = [askedFor EXCEPT ![r] = caller[r]]
    /\ UNCHANGED <<caller, contract, reply>>

(* Authorised: a route with a body starts to read it; readBody on a request that is closed already never settles. *)
AuthGrants(r) ==
    /\ Running
    /\ stage[r] = "auth"
    /\ \/ /\ ReadsBody(r)
          /\ Goto(r, IF caller[r] = "here" THEN "body" ELSE "abandoned")
          /\ UNCHANGED request
       \/ /\ ~ReadsBody(r)
          /\ AskGateway(r)
    /\ UNCHANGED <<server, answered, history>>

(* decodeBody or the handler's own check refuses the body. *)
BodyRefused(r) ==
    /\ Running
    /\ stage[r] = "body"
    /\ caller[r] = "here"
    /\ Answer(r, 400)
    /\ UNCHANGED <<server, request, history>>

(* Mutant: the row is written before the gateway is asked. *)
BodyAcceptedRowFirst(r) ==
    /\ Running
    /\ stage[r] = "body"
    /\ caller[r] = "here"
    /\ AskGateway(r)
    /\ recorded' = recorded \cup {r}
    /\ UNCHANGED <<server, answered, zeroed, contractRow, known, logged>>

(* The body is in and valid: a delivery is written, anything else is asked of the gateway. *)
BodyAccepted(r) ==
    /\ Running
    /\ stage[r] = "body"
    /\ caller[r] = "here"
    /\ \/ AsksGateway(r) /\ AskGateway(r)
       \/ ~AsksGateway(r) /\ Goto(r, "persist") /\ UNCHANGED request
    /\ UNCHANGED <<server, answered, history>>

(* The caller hung up before the body was in: CallerGone, and nobody to answer. *)
BodyLost(r) ==
    /\ Running
    /\ stage[r] = "body"
    /\ caller[r] = "gone"
    /\ Goto(r, "done")
    /\ UNCHANGED <<server, request, answered, history>>

-----------------------------------------------------------------------------
(* The game, behind st-gateway: it acts on what reached it, whoever still waits. *)
GameAllows(r) ==
    CASE Kind[r] = "accept"  -> contract = "offered"
      [] Kind[r] = "fulfill" -> contract = "accepted"
      [] OTHER -> TRUE

GameActs(r) ==
    /\ game[r] = "asked"
    /\ GameAllows(r)
    /\ game' = [game EXCEPT ![r] = "acted"]
    /\ contract' = CASE Kind[r] = "accept" -> "accepted"
                     [] Kind[r] = "fulfill" -> "fulfilled"
                     [] OTHER -> contract
    /\ \E carried \in {"empty", IF OfContract(r) THEN contract' ELSE "transaction"} :
           reply' = [reply EXCEPT ![r] = carried]
    /\ UNCHANGED <<server, stage, caller, signal, askedFor, answered, history>>

GameRefuses(r) ==
    /\ game[r] = "asked"
    /\ game' = [game EXCEPT ![r] = "refused"]
    /\ UNCHANGED <<server, stage, caller, signal, askedFor, contract, reply, answered, history>>

(* The gateway's success arrives and is decoded, an empty body to the zero value. *)
CallSucceeds(r) ==
    /\ Running
    /\ stage[r] = "call"
    /\ signal[r] # "fired"
    /\ game[r] = "acted"
    /\ Goto(r, "persist")
    /\ UNCHANGED <<server, request, answered, history>>

(* writeUpstreamError: the gateway's status, 502 outside 400-599. *)
Relay(status) == IF status < 400 \/ status > 599 THEN 502 ELSE status

(* Mutant: a call has no deadline. *)
CallFailsWithoutDeadline(r) ==
    /\ Running
    /\ stage[r] = "call"
    /\ signal[r] # "fired"
    /\ game[r] = "refused" /\ \E status \in GatewayErrors : Answer(r, Relay(status))
    /\ UNCHANGED <<server, request, history>>

(* The call fails: the gateway's own verdict, a 2xx that cannot be read (502), or no answer within the deadline (504). *)
CallFails(r) ==
    /\ Running
    /\ stage[r] = "call"
    /\ signal[r] # "fired"
    /\ \/ game[r] = "refused" /\ \E status \in GatewayErrors : Answer(r, Relay(status))
       \/ game[r] = "acted" /\ Answer(r, 502)
       \/ Answer(r, 504)
    /\ UNCHANGED <<server, request, history>>

(* The caller's signal aborts the call: CallerGone. *)
CallAborted(r) ==
    /\ Running
    /\ stage[r] = "call"
    /\ signal[r] = "fired"
    /\ Goto(r, "done")
    /\ UNCHANGED <<server, request, answered, history>>

-----------------------------------------------------------------------------
(* Mutant: an empty answer is not worth a row. *)
StoredUnlessEmpty(r) ==
    /\ contractRow' = IF OfContract(r) /\ reply[r] # "empty" THEN reply[r] ELSE contractRow
    /\ known' = IF OfContract(r) /\ reply[r] # "empty" THEN known \cup {reply[r]} ELSE known
    /\ recorded' = IF ~OfContract(r) /\ reply[r] # "empty" THEN recorded \cup {r} ELSE recorded
    /\ UNCHANGED zeroed

(***************************************************************************)
(* What the statement of a request leaves in MySQL: an upsert of the       *)
(* contract, or a new row.  The zero contract has a key of its own, "", so *)
(* that no other contract's row is touched by it.                          *)
(***************************************************************************)
Stored(r) ==
    \/ /\ reply[r] = "empty"
       /\ zeroed' = zeroed \cup {r}
       /\ UNCHANGED <<recorded, contractRow, known>>
    \/ /\ reply[r] # "empty" /\ OfContract(r)
       /\ contractRow' = reply[r]
       /\ known' = known \cup {reply[r]}
       /\ UNCHANGED <<recorded, zeroed>>
    \/ /\ reply[r] # "empty" /\ ~OfContract(r)
       /\ recorded' = recorded \cup {r}
       /\ UNCHANGED <<zeroed, contractRow, known>>

(* MySQL executes the statement. *)
PersistSucceeds(r) ==
    /\ Running
    /\ stage[r] = "persist"
    /\ Stored(r)
    /\ Goto(r, "answer")
    /\ UNCHANGED <<server, request, answered, logged>>

(* Mutant: a delivery is best effort too. *)
PersistFailsForAll(r) ==
    /\ Running
    /\ stage[r] = "persist"
    /\ logged' = logged \cup {r}
    /\ Goto(r, "answer")
    /\ UNCHANGED <<server, request, answered, recorded, zeroed, contractRow, known>>

(* Mutant: the failure is swallowed. *)
PersistFailsSilently(r) ==
    /\ Running
    /\ stage[r] = "persist"
    /\ Goto(r, "answer")
    /\ UNCHANGED <<server, request, answered, history>>

(* Mutant: every failed write is a 500. *)
PersistFailsWith500(r) ==
    /\ Running
    /\ stage[r] = "persist"
    /\ Answer(r, 500)
    /\ UNCHANGED <<server, request, history>>

(***************************************************************************)
(* The statement fails, with or without effect.  After a gateway call the  *)
(* failure is logged and the answer is still the gateway's; a delivery is  *)
(* answered 500.                                                           *)
(***************************************************************************)
PersistFails(r) ==
    /\ Running
    /\ stage[r] = "persist"
    /\ Stored(r) \/ UNCHANGED <<recorded, zeroed, contractRow, known>>
    /\ \/ /\ AsksGateway(r)
          /\ logged' = logged \cup {r}
          /\ Goto(r, "answer")
          /\ UNCHANGED answered
       \/ /\ ~AsksGateway(r)
          /\ Answer(r, 500)
          /\ UNCHANGED logged
    /\ UNCHANGED <<server, request>>

(* sendJson: the gateway's answer, or the delivery, with a 200. *)
SendAnswer(r) ==
    /\ Running
    /\ stage[r] = "answer"
    /\ Answer(r, 200)
    /\ UNCHANGED <<server, request, history>>

(* The caller's connection closes before the answer is out; callerOf's listener, if there is one by now, aborts the signal. *)
HangUp(r) ==
    /\ Running
    /\ stage[r] \notin {"none", "done"}
    /\ caller[r] = "here"
    /\ caller' = [caller EXCEPT ![r] = "gone"]
    /\ signal' = [signal EXCEPT ![r] = IF @ = "armed" THEN "fired" ELSE @]
    /\ UNCHANGED <<server, stage, game, askedFor, contract, reply, answered, history>>

-----------------------------------------------------------------------------
(* SIGTERM or SIGINT: server.close, closeIdleConnections, and a hard exit in ten seconds. *)
Shutdown ==
    /\ server = "serving"
    /\ server' = "closing"
    /\ UNCHANGED <<stage, request, answered, history>>

(* A connection is open while its request is unanswered and its caller is there. *)
ConnectionOpen(r) == stage[r] \notin {"none", "done"} /\ caller[r] = "here"

(* Mutant: the pool is ended without waiting for the connections. *)
ServerClosedAtOnce ==
    /\ server = "closing"
    /\ server' = "draining"
    /\ UNCHANGED <<stage, request, answered, history>>

(* server.close calls back when the last connection is closed: the pool is ended. *)
ServerClosed ==
    /\ server = "closing"
    /\ \A r \in Requests : ~ConnectionOpen(r)
    /\ server' = "draining"
    /\ UNCHANGED <<stage, request, answered, history>>

(* sql.close has settled: process.exit(0). *)
ExitZero ==
    /\ server = "draining"
    /\ server' = "exited_0"
    /\ UNCHANGED <<stage, request, answered, history>>

(* The ten seconds are over, or the process is killed at any time. *)
ExitOne ==
    /\ Running
    /\ server' = "exited_1"
    /\ UNCHANGED <<stage, request, answered, history>>

Handle(r) ==
    \/ AuthRefuses(r)
    \/ AuthGrants(r)
    \/ BodyRefused(r)
    \/ BodyAccepted(r)
    \/ BodyLost(r)
    \/ CallSucceeds(r)
    \/ CallFails(r)
    \/ CallAborted(r)
    \/ PersistSucceeds(r)
    \/ PersistFails(r)
    \/ SendAnswer(r)

Next ==
    \/ \E r \in Requests :
          \/ Arrive(r)
          \/ Handle(r)
          \/ GameActs(r)
          \/ GameRefuses(r)
          \/ HangUp(r)
    \/ Shutdown
    \/ ServerClosed
    \/ ExitZero
    \/ ExitOne

Spec == Init /\ [][Next]_vars

(***************************************************************************)
(* Every await of a handler ends: introspection after 1 s, a gateway call  *)
(* after 30 s, a statement when MySQL answers or breaks, a body when it is *)
(* in or its connection is closed (requestTimeout, 30 s).                  *)
(***************************************************************************)
LiveSpec == Spec /\ \A r \in Requests : WF_vars(Handle(r))

-----------------------------------------------------------------------------
(***************************************************************************)
(* A 200 is truthful: the game did what was asked, and a delivery is in    *)
(* the history.                                                            *)
(***************************************************************************)
SuccessIsTrue ==
    \A r \in Requests : answered[r] = 200 =>
        IF AsksGateway(r) THEN game[r] = "acted" ELSE r \in recorded

(* The history holds no transaction that the game did not make, not even a row of zeros. *)
NoRowWithoutAction ==
    /\ \A r \in recorded \cup zeroed : AsksGateway(r) => game[r] = "acted"
    /\ \A s \in known : Rank[s] <= Rank[contract]

(* What the history should have of a request: what the gateway told of it, or that it told nothing. *)
InHistory(r) ==
    IF reply[r] = "empty" THEN r \in zeroed
    ELSE IF OfContract(r) THEN reply[r] \in known ELSE r \in recorded

(***************************************************************************)
(* "Best effort" never reaches the caller, and a write never fails         *)
(* silently: when a handler whose gateway call succeeded is past its       *)
(* history write, the history has what the gateway's answer carried, or    *)
(* the failure is logged, whether or not the caller stayed.  The one thing *)
(* that is lost without a line is what the answer did not carry: of an     *)
(* empty one there is the zero value, and neither the contract's own row   *)
(* nor the transaction's.                                                  *)
(***************************************************************************)
RecordedOrLogged ==
    \A r \in Requests : stage[r] = "answer" /\ AsksGateway(r) => r \in logged \/ InHistory(r)

(***************************************************************************)
(* The game's action cannot be undone, so what the database does must not  *)
(* turn it into a failure: a 500 after a gateway call, and a 400 or 401    *)
(* once the game was asked, are the gateway's own refusal, handed on.      *)
(***************************************************************************)
FailureIsNotOurs ==
    \A r \in Requests :
        /\ AsksGateway(r) /\ answered[r] = 500 => game[r] = "refused"
        /\ answered[r] \in {400, 401} => game[r] \in {"unasked", "refused"}

(* The status a caller is told is true: a success of the game and of what was promised to be kept, a failure of nothing the game did. *)
AnswerIsTrue == SuccessIsTrue /\ FailureIsNotOurs

(***************************************************************************)
(* A clean shutdown (exit 0) loses nothing of a caller who stayed: their   *)
(* request was answered, and if its call succeeded the history has what    *)
(* the game told of it, or the log says why not.                           *)
(***************************************************************************)
CleanExitKeepsHistory ==
    server = "exited_0" =>
        \A r \in Requests : stage[r] # "none" /\ caller[r] = "here" =>
            /\ answered[r] # 0
            /\ answered[r] = 200 => r \in logged \/ InHistory(r)

(* Every caller who stays gets an answer, unless the process ends first. *)
CallerIsAnswered ==
    \A r \in Requests :
        (stage[r] = "auth") ~> (answered[r] # 0 \/ caller[r] = "gone" \/ ~Running)

(***************************************************************************)
(* history.ts: the contracts table holds "the latest known state of a      *)
(* contract".                                                              *)
(***************************************************************************)
StoredContractIsLatestKnown ==
    \A s \in known : Rank[s] <= Rank[contractRow]

(***************************************************************************)
(* support.ts: the signal fires when the caller hangs up "before the       *)
(* answer is out, so that the calls still to make are not made".           *)
(***************************************************************************)
CallsStillToMakeAreNotMade ==
    \A r \in Requests : game[r] # "unasked" => askedFor[r] = "here"
=============================================================================
