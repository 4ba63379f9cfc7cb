------------------------- MODULE WriteRequestsProofs -------------------------
(***************************************************************************)
(* Proofs about WriteRequests, for any number of requests of any kinds and *)
(* any statuses the gateway refuses with.                                  *)
(*                                                                         *)
(* What is known of a request follows its handler: the game is asked only  *)
(* when its session and its body were taken, its history is written only   *)
(* when the game has acted, and a 200 goes out only behind that write.     *)
(* What the game did and what the history holds is never undone, and what  *)
(* the game answered to one request is not changed by another, so that a   *)
(* step of one request disturbs none of this for the others.               *)
(***************************************************************************)
EXTENDS WriteRequests, TLAPS

Unasked == {"none", "auth", "body", "abandoned"}

(* The history has what is known of the request, or the log says why not. *)
Kept(r) == r \in logged \/ InHistory(r)

(* How far a handler has come, and what has been done by then. *)
Progress(r) ==
    /\ stage[r] = "none" => caller[r] = "here"
    /\ signal[r] = "fired" => caller[r] = "gone"
    /\ stage[r] = "body" => ReadsBody(r)
    /\ stage[r] \in Unasked \/ ~AsksGateway(r) => game[r] = "unasked"
    /\ stage[r] = "call" => AsksGateway(r)
    /\ stage[r] \in {"persist", "answer"} /\ AsksGateway(r) => game[r] = "acted"
    /\ stage[r] = "answer" => Kept(r) /\ (~AsksGateway(r) => r \in recorded)

(* What its caller was told. *)
Told(r) ==
    /\ stage[r] # "done" => answered[r] = 0
    /\ stage[r] = "done" /\ answered[r] = 0 => caller[r] = "gone"
    /\ answered[r] = 200 => Kept(r) /\ (IF AsksGateway(r) THEN game[r] = "acted" ELSE r \in recorded)
    /\ AsksGateway(r) /\ answered[r] = 500 => game[r] = "refused"
    /\ answered[r] \in {400, 401} => game[r] \in {"unasked", "refused"}

(* The game is never behind what it answered, nor behind what was written of it. *)
GameIsAhead ==
    /\ contract # "none"
    /\ \A r \in Requests : reply[r] \in ContractStates => Rank[reply[r]] <= Rank[contract]
    /\ NoRowWithoutAction

(* Once the server has closed, the requests that are left have lost their callers. *)
Closed ==
    server \in {"draining", "exited_0"} => \A r \in Requests : ~ConnectionOpen(r)

IInv ==
    /\ TypeOK
    /\ \A r \in Requests : Progress(r) /\ Told(r)
    /\ GameIsAhead
    /\ Closed

-----------------------------------------------------------------------------
(* The states of a contract follow each other. *)
LEMMA Ranks ==
    /\ ContractStates = {"none", "offered", "accepted", "fulfilled"}
    /\ Rank["none"] = 0 /\ Rank["offered"] = 1 /\ Rank["accepted"] = 2 /\ Rank["fulfilled"] = 3
BY DEF Rank, ContractStates

(* What a caller may be told of a gateway's refusal: an error of the gateway's, never a success. *)
LEMMA RelayType ==
    ASSUME NEW status \in GatewayErrors
    PROVE  Relay(status) \in (GatewayErrors \cap (400..599)) \cup {502}
BY GatewayErrorsAssumption DEF Relay

LEMMA InitIInv == Init => IInv
BY Ranks DEF Init, IInv, TypeOK, Replies, Stages, Progress, Told, GameIsAhead, NoRowWithoutAction, Closed, Unasked, ConnectionOpen

(* What is stored has its type, and a contract's state only where the answer carried one. *)
LEMMA StoredTypes ==
    ASSUME TypeOK, NEW r \in Requests, Stored(r)
    PROVE  /\ contractRow' \in ContractStates /\ known' \subseteq ContractStates
           /\ known' = known \/ (reply[r] \in ContractStates /\ known' = known \cup {reply[r]})
           /\ recorded' \in {recorded, recorded \cup {r}} /\ zeroed' \in {zeroed, zeroed \cup {r}}
<1>1. reply[r] # "empty" /\ OfContract(r) => reply[r] \in ContractStates
    BY DEF TypeOK, Replies
<1> QED
    BY <1>1 DEF TypeOK, Stored

(* An action keeps the types. *)
LEMMA NextTypeOK == IInv /\ [Next]_vars => TypeOK'
<1> SUFFICES ASSUME IInv, TypeOK, [Next]_vars PROVE TypeOK'
    BY DEF IInv
<1> USE DEF TypeOK, Stages
<1>1. ASSUME NEW r \in Requests, Handle(r) PROVE TypeOK'
    <2>1. CASE AuthRefuses(r) \/ BodyRefused(r)
        BY <2>1 DEF AuthRefuses, BodyRefused, Answer, Goto, request, history
    <2>2. CASE AuthGrants(r)
        BY <2>2 DEF AuthGrants, AskGateway, Goto, request, history
    <2>3. CASE BodyAccepted(r)
        BY <2>3 DEF BodyAccepted, AskGateway, Goto, request, history
    <2>4. CASE BodyLost(r) \/ CallSucceeds(r) \/ CallAborted(r)
        BY <2>4, SMTT(60) DEF BodyLost, CallSucceeds, CallAborted, Goto, request, history
    <2>5. CASE CallFails(r)
        BY <2>5, RelayType DEF CallFails, Answer, Goto, request, history
    <2>6. CASE PersistSucceeds(r)
        BY <2>6, StoredTypes DEF PersistSucceeds, Goto, request, Replies
    <2>7. CASE PersistFails(r)
        <3>1. \/ Stored(r)
              \/ UNCHANGED <<recorded, zeroed, contractRow, known>>
            BY <2>7 DEF PersistFails
        <3>2. /\ contractRow' \in ContractStates /\ known' \subseteq ContractStates
              /\ recorded' \subseteq Requests /\ zeroed' \subseteq Requests
            BY <3>1, StoredTypes
        <3> QED
            BY <2>7, <3>2 DEF PersistFails, Answer, Goto, request, Replies
    <2>8. CASE SendAnswer(r)
        BY <2>8 DEF SendAnswer, Answer, Goto, request, history
    <2> QED
        BY <1>1, <2>1, <2>2, <2>3, <2>4, <2>5, <2>6, <2>7, <2>8 DEF Handle
<1>2. ASSUME NEW r \in Requests, Arrive(r) PROVE TypeOK'
    BY <1>2 DEF Arrive, Goto, request, history
<1>3. ASSUME NEW r \in Requests, GameActs(r) PROVE TypeOK'
    <2>1. contract' \in ContractStates
        BY <1>3, Ranks DEF GameActs
    <2>2. AsksGateway(r)
        BY <1>3 DEF IInv, Progress, GameActs
    <2>3. PICK carried \in {"empty", IF OfContract(r) THEN contract' ELSE "transaction"} :
              reply' = [reply EXCEPT ![r] = carried]
        BY <1>3 DEF GameActs
    <2>4. carried \in Replies(r) /\ Replies(r) \subseteq ContractStates \cup {"transaction", "empty"}
        BY <2>1, <2>2, <2>3, Ranks DEF Replies
    <2>5. \A q \in Requests : Replies(q)' = Replies(q)
        BY DEF Replies
    <2> QED
        BY <1>3, <2>1, <2>3, <2>4, <2>5 DEF GameActs, history
<1>4. ASSUME NEW r \in Requests, GameRefuses(r) \/ HangUp(r) PROVE TypeOK'
    BY <1>4 DEF GameRefuses, HangUp, history
<1>5. CASE Shutdown \/ ServerClosed \/ ExitZero \/ ExitOne
    BY <1>5 DEF Shutdown, ServerClosed, ExitZero, ExitOne, request, history
<1>6. CASE UNCHANGED vars
    BY <1>6 DEF vars
<1> QED
    BY <1>1, <1>2, <1>3, <1>4, <1>5, <1>6 DEF Next

(***************************************************************************)
(* What is known of a request stays so while its own part of the state     *)
(* stays, whatever is added to the history and the log.                    *)
(***************************************************************************)
LEMMA Undisturbed ==
    ASSUME NEW q \in Requests, Progress(q), Told(q),
           stage'[q] = stage[q], caller'[q] = caller[q], signal'[q] = signal[q], game'[q] = game[q],
           reply'[q] = reply[q], answered'[q] = answered[q],
           recorded \subseteq recorded', zeroed \subseteq zeroed', known \subseteq known', logged \subseteq logged'
    PROVE  Progress(q)' /\ Told(q)'
BY DEF Progress, Told, Kept, InHistory, AsksGateway, ReadsBody, OfContract

(* A step of a handler moves one request on, and leaves what is known of it true. *)
LEMMA HandleKeepsTrack ==
    ASSUME IInv, NEW r \in Requests, Handle(r)
    PROVE  \A q \in Requests : Progress(q)' /\ Told(q)'
<1> USE DEF TypeOK, Unasked
<1>1. Progress(r) /\ Told(r)
    BY DEF IInv
<1>2. ASSUME NEW q \in Requests, q # r
      PROVE  Progress(q)' /\ Told(q)'
    <2>1. /\ stage'[q] = stage[q] /\ caller'[q] = caller[q] /\ signal'[q] = signal[q]
          /\ game'[q] = game[q] /\ reply'[q] = reply[q] /\ answered'[q] = answered[q]
          /\ recorded \subseteq recorded' /\ zeroed \subseteq zeroed' /\ known \subseteq known' /\ logged \subseteq logged'
        <3>1. CASE \/ AuthRefuses(r) \/ AuthGrants(r) \/ BodyRefused(r) \/ BodyAccepted(r) \/ BodyLost(r)
            BY <1>2, <3>1
               DEF IInv, AuthRefuses, AuthGrants, BodyRefused, BodyAccepted, BodyLost,
                   AskGateway, Answer, Goto, request, history
        <3>2. CASE \/ CallSucceeds(r) \/ CallFails(r) \/ CallAborted(r) \/ SendAnswer(r)
            BY <1>2, <3>2
               DEF IInv, CallSucceeds, CallFails, CallAborted, SendAnswer, Answer, Goto, request, history
        <3>3. CASE PersistSucceeds(r) \/ PersistFails(r)
            BY <1>2, <3>3 DEF IInv, PersistSucceeds, PersistFails, Stored, Answer, Goto, request
        <3> QED
            BY <3>1, <3>2, <3>3 DEF Handle
    <2>2. Progress(q) /\ Told(q)
        BY DEF IInv
    <2> QED
        BY <2>1, <2>2, Undisturbed
<1>3. Progress(r)' /\ Told(r)'
    <2> USE <1>1 DEF Progress, Told
    <2>1. CASE AuthRefuses(r) \/ BodyRefused(r)
        BY <2>1 DEF IInv, AuthRefuses, BodyRefused, Answer, Goto, request, history
    <2>2. CASE AuthGrants(r)
        BY <2>2, KindAssumption
           DEF IInv, AuthGrants, AskGateway, Goto, request, history, ReadsBody, AsksGateway, Kinds
    <2>3. CASE BodyAccepted(r)
        BY <2>3 DEF IInv, BodyAccepted, AskGateway, Goto, request, history, AsksGateway
    <2>4. CASE BodyLost(r) \/ CallSucceeds(r) \/ CallAborted(r)
        BY <2>4 DEF IInv, BodyLost, CallSucceeds, CallAborted, Goto, request, history
    <2>5. CASE CallFails(r)
        BY <2>5, RelayType, GatewayErrorsAssumption DEF IInv, CallFails, Answer, Goto, request, history
    <2>6. CASE PersistSucceeds(r)
        BY <2>6 DEF IInv, PersistSucceeds, Stored, Goto, request, Kept, InHistory, AsksGateway, OfContract, Replies
    <2>7. CASE PersistFails(r)
        BY <2>7 DEF IInv, PersistFails, Stored, Answer, Goto, request, Kept, AsksGateway, OfContract
    <2>8. CASE SendAnswer(r)
        BY <2>8 DEF IInv, SendAnswer, Answer, Goto, request, history, Kept, InHistory
    <2> QED
        BY <2>1, <2>2, <2>3, <2>4, <2>5, <2>6, <2>7, <2>8 DEF Handle
<1> QED
    BY <1>2, <1>3

(* The rest of the steps: what comes in, what the game does, and who leaves. *)
LEMMA OthersKeepTrack ==
    ASSUME IInv, NEW r \in Requests, Arrive(r) \/ GameActs(r) \/ GameRefuses(r) \/ HangUp(r)
    PROVE  \A q \in Requests : Progress(q)' /\ Told(q)'
<1> SUFFICES ASSUME NEW q \in Requests PROVE Progress(q)' /\ Told(q)'
    OBVIOUS
<1> USE DEF TypeOK, Unasked
<1>1. Progress(q) /\ Told(q)
    BY DEF IInv
<1>2. CASE q = r
    <2> USE <1>1, <1>2 DEF Progress, Told
    <2>1. CASE Arrive(r)
        BY <2>1 DEF IInv, Arrive, Goto, request, history
    <2>2. CASE GameActs(r)
        BY <2>2 DEF IInv, GameActs, history, Kept, InHistory, AsksGateway, OfContract
    <2>3. CASE GameRefuses(r)
        BY <2>3 DEF IInv, GameRefuses, history, Kept, InHistory, AsksGateway, OfContract
    <2>4. CASE HangUp(r)
        BY <2>4 DEF IInv, HangUp, history, Kept, InHistory
    <2> QED
        BY <2>1, <2>2, <2>3, <2>4
<1>3. CASE q # r
    <2>1. /\ stage'[q] = stage[q] /\ caller'[q] = caller[q] /\ signal'[q] = signal[q]
          /\ game'[q] = game[q] /\ reply'[q] = reply[q] /\ answered'[q] = answered[q]
          /\ recorded \subseteq recorded' /\ zeroed \subseteq zeroed' /\ known \subseteq known' /\ logged \subseteq logged'
        BY <1>3 DEF IInv, Arrive, GameActs, GameRefuses, HangUp, Goto, request, history
    <2> QED
        BY <1>1, <2>1, Undisturbed
<1> QED
    BY <1>2, <1>3

(* The contract only moves on, and what is written of it came from the game. *)
LEMMA GameStaysAhead ==
    ASSUME IInv, [Next]_vars
    PROVE  GameIsAhead'
<1> USE DEF TypeOK, GameIsAhead, NoRowWithoutAction
<1>1. ASSUME NEW r \in Requests, GameActs(r)
      PROVE  GameIsAhead'
    <2>1. contract' \in ContractStates \ {"none"} /\ Rank[contract] <= Rank[contract']
        BY <1>1, Ranks DEF IInv, GameActs, GameAllows
    <2>2. ASSUME NEW q \in Requests, reply'[q] \in ContractStates PROVE Rank[reply'[q]] <= Rank[contract']
        <3>1. reply'[q] \in {reply[q], contract', "transaction", "empty"}
            BY <1>1 DEF IInv, GameActs
        <3>2. CASE reply'[q] = reply[q]
            <4>1. Rank[reply[q]] <= Rank[contract] /\ contract \in ContractStates
                BY <2>2, <3>2 DEF IInv
            <4> QED
                BY <2>1, <2>2, <3>2, <4>1, Ranks
        <3>3. CASE reply'[q] = contract'
            BY <2>1, <3>3, Ranks
        <3> QED
            BY <2>2, <3>1, <3>2, <3>3, Ranks
    <2>3. ASSUME NEW s \in known PROVE Rank[s] <= Rank[contract']
        <3>1. s \in ContractStates /\ contract \in ContractStates /\ Rank[s] <= Rank[contract]
            BY DEF IInv
        <3> QED
            BY <2>1, <3>1, Ranks
    <2>4. recorded' = recorded /\ zeroed' = zeroed /\ known' = known /\ \A q \in Requests : game[q] = "acted" => game'[q] = "acted"
        BY <1>1 DEF IInv, GameActs, history
    <2> QED
        BY <2>1, <2>2, <2>3, <2>4 DEF IInv, AsksGateway
<1>2. ASSUME NEW r \in Requests, PersistSucceeds(r) \/ PersistFails(r)
      PROVE  GameIsAhead'
    <2>1. /\ contract' = contract /\ reply' = reply /\ game' = game
          /\ recorded' = recorded \/ recorded' = recorded \cup {r}
          /\ zeroed' = zeroed \/ zeroed' = zeroed \cup {r}
          /\ known' = known \/ (reply[r] \in ContractStates /\ known' = known \cup {reply[r]})
          /\ AsksGateway(r) => game[r] = "acted"
        BY <1>2, StoredTypes DEF IInv, PersistSucceeds, PersistFails, Progress, request
    <2> QED
        BY <2>1 DEF IInv, AsksGateway
<1>3. ASSUME NEW r \in Requests, Handle(r), ~PersistSucceeds(r), ~PersistFails(r)
      PROVE  GameIsAhead'
    <2>1. /\ contract' = contract /\ reply' = reply /\ recorded' = recorded /\ zeroed' = zeroed /\ known' = known
          /\ \A q \in Requests : game[q] = "acted" => game'[q] = "acted"
        BY <1>3 DEF IInv, Handle, AuthRefuses, AuthGrants, BodyRefused, BodyAccepted, BodyLost, CallSucceeds,
                    CallFails, CallAborted, SendAnswer, Answer, AskGateway, Goto, request, history, Progress, Unasked
    <2> QED
        BY <2>1 DEF IInv, AsksGateway
<1>4. ASSUME NEW r \in Requests, Arrive(r) \/ GameRefuses(r) \/ HangUp(r)
      PROVE  GameIsAhead'
    <2>1. /\ contract' = contract /\ reply' = reply /\ recorded' = recorded /\ zeroed' = zeroed /\ known' = known
          /\ \A q \in Requests : game[q] = "acted" => game'[q] = "acted"
        BY <1>4 DEF IInv, Arrive, GameRefuses, HangUp, request, history
    <2> QED
        BY <2>1 DEF IInv, AsksGateway
<1>5. CASE Shutdown \/ ServerClosed \/ ExitZero \/ ExitOne \/ UNCHANGED vars
    <2>1. UNCHANGED <<contract, reply, recorded, zeroed, known, game>>
        BY <1>5 DEF Shutdown, ServerClosed, ExitZero, ExitOne, vars, request, history
    <2> QED
        BY <2>1 DEF IInv, AsksGateway
<1> QED
    BY <1>1, <1>2, <1>3, <1>4, <1>5 DEF Next

(* The server that has closed takes nothing new, and a caller who left does not come back. *)
LEMMA StaysClosed ==
    ASSUME IInv, [Next]_vars
    PROVE  Closed'
<1> USE DEF TypeOK, Closed, ConnectionOpen
<1>1. ASSUME NEW r \in Requests, Handle(r)
      PROVE  Closed'
    <2>1. /\ server' = server /\ caller' = caller
          /\ stage[r] \notin {"none", "done"}
          /\ \A q \in Requests : q # r => stage'[q] = stage[q]
        BY <1>1 DEF IInv, Handle, AuthRefuses, AuthGrants, BodyRefused, BodyAccepted, BodyLost, CallSucceeds,
                    CallFails, CallAborted, PersistSucceeds, PersistFails, SendAnswer, Answer, AskGateway, Goto, request
    <2> QED
        BY <2>1 DEF IInv
<1>2. ASSUME NEW r \in Requests, Arrive(r) \/ GameActs(r) \/ GameRefuses(r) \/ HangUp(r)
      PROVE  Closed'
    BY <1>2 DEF IInv, Arrive, GameActs, GameRefuses, HangUp, Goto, request
<1>3. CASE Shutdown \/ ServerClosed \/ ExitZero \/ ExitOne \/ UNCHANGED vars
    BY <1>3 DEF IInv, Shutdown, ServerClosed, ExitZero, ExitOne, vars, request, Running
<1> QED
    BY <1>1, <1>2, <1>3 DEF Next

(* Every step keeps the invariant. *)
LEMMA NextIInv == IInv /\ [Next]_vars => IInv'
<1> SUFFICES ASSUME IInv, [Next]_vars PROVE IInv'
    OBVIOUS
<1>1. TypeOK' /\ GameIsAhead' /\ Closed'
    BY NextTypeOK, GameStaysAhead, StaysClosed DEF IInv
<1>2. \A q \in Requests : Progress(q)' /\ Told(q)'
    <2>1. CASE \E r \in Requests : Handle(r)
        BY <2>1, HandleKeepsTrack
    <2>2. CASE \E r \in Requests : Arrive(r) \/ GameActs(r) \/ GameRefuses(r) \/ HangUp(r)
        BY <2>2, OthersKeepTrack
    <2>3. CASE Shutdown \/ ServerClosed \/ ExitZero \/ ExitOne \/ UNCHANGED vars
        <3> SUFFICES ASSUME NEW q \in Requests PROVE Progress(q)' /\ Told(q)'
            OBVIOUS
        <3>1. UNCHANGED <<stage, caller, signal, game, reply, answered, recorded, zeroed, known, logged>>
            BY <2>3 DEF Shutdown, ServerClosed, ExitZero, ExitOne, vars, request, history
        <3> QED
            BY <3>1, Undisturbed DEF IInv
    <2> QED
        BY <2>1, <2>2, <2>3 DEF Next
<1> QED
    BY <1>1, <1>2 DEF IInv

LEMMA Invariance == Spec => []IInv
BY InitIInv, NextIInv, PTL DEF Spec

-----------------------------------------------------------------------------
(* The requests keep their types: no status is made up but the service's own and the gateway's errors. *)
THEOREM TypeCorrect == Spec => []TypeOK
<1>1. IInv => TypeOK
    BY DEF IInv
<1> QED
    BY <1>1, Invariance, PTL

(***************************************************************************)
(* Whatever the callers, the game, MySQL and the other requests do, a 200  *)
(* means that the game acted (a delivery: that the row is there), and no   *)
(* failure of the database turns what the game confirmed into an error.    *)
(***************************************************************************)
THEOREM AnswersAreTrue == Spec => []AnswerIsTrue
<1>1. IInv => AnswerIsTrue
    BY DEF IInv, Told, AnswerIsTrue, SuccessIsTrue, FailureIsNotOurs
<1> QED
    BY <1>1, Invariance, PTL

(* No row, and no contract state, is in the history before the game has made it so. *)
THEOREM HistoryIsTrue == Spec => []NoRowWithoutAction
<1>1. IInv => NoRowWithoutAction
    BY DEF IInv, GameIsAhead
<1> QED
    BY <1>1, Invariance, PTL

(* A handler that has passed its history write has left a row or a line in the log. *)
THEOREM NothingLostSilently == Spec => []RecordedOrLogged
<1>1. IInv => RecordedOrLogged
    BY DEF IInv, Progress, Kept, RecordedOrLogged
<1> QED
    BY <1>1, Invariance, PTL

(* Exit 0 comes only when every caller who stayed was answered, and what a 200 promised is kept or logged. *)
THEOREM ExitZeroIsClean == Spec => []CleanExitKeepsHistory
<1>1. IInv => CleanExitKeepsHistory
    <2> SUFFICES ASSUME IInv, server = "exited_0", NEW r \in Requests, stage[r] # "none", caller[r] = "here"
                 PROVE  answered[r] # 0 /\ (answered[r] = 200 => Kept(r))
        BY DEF CleanExitKeepsHistory, Kept
    <2>1. stage[r] = "done"
        BY DEF IInv, Closed, ConnectionOpen
    <2> QED
        BY <2>1 DEF IInv, Told
<1> QED
    BY <1>1, Invariance, PTL
=============================================================================
