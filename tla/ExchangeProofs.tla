--------------------------- MODULE ExchangeProofs ---------------------------
(***************************************************************************)
(* Proofs about Exchange, for any limits, any buffer and bodies and        *)
(* answers of any length.                                                  *)
(*                                                                         *)
(* Once readBody has settled nothing listens any more, so nothing can      *)
(* settle it again or take more of the body; until it has settled it has   *)
(* taken no more than the limit.  100 Continue is sent with the same call  *)
(* that begins to listen, so only a body that readBody has taken up is     *)
(* invited.                                                                *)
(***************************************************************************)
EXTENDS Exchange, TLAPS

(* readBody is listening, or has listened in vain on a closed request. *)
Awaiting == {"reading", "abandoned"}

(* Before readBody settles it has taken no more than the limit; once it has, its verdict stands. *)
Judged ==
    /\ settlements \in {0, 1}
    /\ result = "none" <=> settlements = 0
    /\ result = "none" => read <= MAX_BODY_BYTES
    /\ result = "whole" => read = total /\ total <= MAX_BODY_BYTES
    /\ result = "exceeded" => read > MAX_BODY_BYTES

(* Only an unsettled readBody listens, and it waits where it listens. *)
Listening ==
    /\ handler = "auth" => result = "none" /\ listeners = {}
    /\ listeners # {} => result = "none" /\ handler \in Awaiting

(* 100 Continue goes out when readBody begins, and no body that waits for it comes before. *)
Invited ==
    /\ result = "none" /\ handler \notin Awaiting => ~continued
    /\ expects /\ ~continued => received = 0

(* The body is watched only after the answer. *)
Watched == poll => finished

IInv == TypeOK /\ Judged /\ Listening /\ Invited /\ Watched

-----------------------------------------------------------------------------
(* The initial states satisfy the invariant. *)
LEMMA InitIInv == Init => IInv
<1> SUFFICES ASSUME Init PROVE IInv
    OBVIOUS
<1> USE ExchangeAssumption DEF Init, ContinueAtOnce
<1>1. TypeOK
    <2>1. total \in 0..MaxTotal /\ received \in 0..total /\ read \in 0..received /\ start \in 0..total
        OBVIOUS
    <2>2. pieces \in 0..MaxPieces /\ waited \in 0..(UNREAD_BODY_WAIT + CLOSE_WAIT) /\ settlements \in Nat
        OBVIOUS
    <2>3. listeners \subseteq {"data", "end", "close", "error"} /\ pending \subseteq {"close", "error"}
        OBVIOUS
    <2>4. waitsFor \subseteq {"drain", "close"}
        OBVIOUS
    <2> QED
        BY <2>1, <2>2, <2>3, <2>4 DEF TypeOK
<1>2. Judged /\ Listening
    BY DEF Judged, Listening, TypeOK
<1>3. Invited /\ Watched
    BY DEF Invited, Watched
<1> QED
    BY <1>1, <1>2, <1>3 DEF IInv

(* What the steps of the body and of readBody keep of the types. *)
LEMMA ReadingTypes ==
    ASSUME TypeOK,
           CallerSends \/ BreakOff \/ ReadBody \/ OnData \/ OnEnd \/ \E event \in {"close", "error"} : OnBreak(event)
    PROVE  TypeOK'
<1> USE ExchangeAssumption DEF TypeOK, input, reading, writing, closing, Connected, Complete, Over
<1>1. CASE CallerSends
    BY <1>1 DEF CallerSends
<1>2. CASE BreakOff
    BY <1>2 DEF BreakOff
<1>3. CASE ReadBody
    BY <1>3 DEF ReadBody
<1>4. CASE OnData
    <2>1. CASE OverLimit(received)
        BY <1>4, <2>1 DEF OnData, Settled
    <2>2. CASE ~OverLimit(received)
        <3>1. /\ read' = received
              /\ UNCHANGED <<total, expects, continued, received, flow, listeners, pending, result, settlements>>
              /\ UNCHANGED <<handler, pieces, waitsFor, finished, poll, start, waited, socket>>
            BY <1>4, <2>2 DEF OnData
        <3> QED
            BY <3>1
    <2> QED
        BY <2>1, <2>2
<1>5. CASE OnEnd
    BY <1>5 DEF OnEnd, Settled
<1>6. ASSUME NEW event \in {"close", "error"}, OnBreak(event)
      PROVE  TypeOK'
    <2>1. CASE event \in listeners
        BY <1>6, <2>1 DEF OnBreak, Settled
    <2>2. CASE event \notin listeners
        <3>1. /\ pending' \subseteq pending
              /\ UNCHANGED <<total, expects, continued, received, read, flow, listeners, result, settlements>>
              /\ UNCHANGED <<handler, pieces, waitsFor, finished, poll, start, waited, socket>>
            BY <1>6, <2>2 DEF OnBreak
        <3> QED
            BY <3>1
    <2> QED
        BY <2>1, <2>2
<1> QED
    BY <1>1, <1>2, <1>3, <1>4, <1>5, <1>6

(* What the steps of the answer keep of the types. *)
LEMMA WritingTypes ==
    ASSUME TypeOK,
           Refuse \/ ServeUnread \/ Serve \/ WritePiece \/ LastWrite \/ \E event \in {"close", "drain"} : Drained(event)
    PROVE  TypeOK'
<1> USE ExchangeAssumption DEF TypeOK, input, reading, writing, closing, Connected, Over
<1>1. CASE Refuse
    BY <1>1 DEF Refuse
<1>2. CASE ServeUnread
    BY <1>2 DEF ServeUnread
<1>3. CASE Serve
    BY <1>3 DEF Serve
<1>4. CASE WritePiece
    <2>1. /\ pieces' = pieces - 1 /\ pieces > 0
          /\ UNCHANGED <<total, expects, continued, received, read, flow, listeners, pending, result, settlements>>
          /\ UNCHANGED <<finished, poll, start, waited, socket>>
        BY <1>4 DEF WritePiece, MoreToWrite
    <2>2. handler' \in {"stopped", "writing", "draining"} /\ waitsFor' \subseteq {"drain", "close"}
        BY <1>4 DEF WritePiece, DrainedBy
    <2> QED
        BY <2>1, <2>2
<1>5. CASE LastWrite
    BY <1>5 DEF LastWrite
<1>6. ASSUME NEW event \in {"close", "drain"}, Drained(event)
      PROVE  TypeOK'
    BY <1>6 DEF Drained
<1> QED
    BY <1>1, <1>2, <1>3, <1>4, <1>5, <1>6

(* What the steps after the answer keep of the types. *)
LEMMA ClosingTypes ==
    ASSUME TypeOK, Finish \/ TimerStep
    PROVE  TypeOK'
<1> USE ExchangeAssumption DEF TypeOK, input, reading, writing, closing, Connected, Complete
<1>1. CASE Finish
    <2>1. /\ flow' \in {"idle", "flowing", "paused"} /\ finished' \in BOOLEAN /\ poll' \in BOOLEAN
          /\ start' \in {start, received} /\ waited' \in {waited, 0}
        BY <1>1 DEF Finish
    <2>2. /\ UNCHANGED <<total, expects, continued, received, read, listeners, pending, result, settlements>>
          /\ UNCHANGED <<handler, pieces, waitsFor, socket>>
        BY <1>1 DEF Finish
    <2> QED
        BY <2>1, <2>2
<1>2. CASE PollStops
    BY <1>2, ZenonT(30) DEF PollStops
<1>3. CASE PollCloses
    <2>1. poll' = FALSE /\ socket' = "half" /\ waited' = 0
        BY <1>3 DEF PollCloses
    <2>2. /\ UNCHANGED <<total, expects, continued, received, read, flow, listeners, pending, result, settlements>>
          /\ UNCHANGED <<handler, pieces, waitsFor, finished, start>>
        BY <1>3 DEF PollCloses
    <2>3. waited' \in 0..(UNREAD_BODY_WAIT + CLOSE_WAIT)
        BY <2>1
    <2>4. poll' \in BOOLEAN /\ socket' \in {"open", "half", "gone", "destroyed"}
        BY <2>1
    <2> QED
        BY <2>2, <2>3, <2>4
<1>4. CASE CloseTimer
    BY <1>4 DEF CloseTimer
<1>5. CASE Tick
    BY <1>5 DEF Tick
<1> QED
    BY <1>1, <1>2, <1>3, <1>4, <1>5 DEF TimerStep

(* Every step, as one of the three kinds. *)
LEMMA StepKinds ==
    ASSUME Next
    PROVE  \/ CallerSends \/ BreakOff \/ ReadBody \/ OnData \/ OnEnd
           \/ \E event \in {"close", "error"} : OnBreak(event)
           \/ Refuse \/ ServeUnread \/ Serve \/ WritePiece \/ LastWrite
           \/ \E event \in {"close", "drain"} : Drained(event)
           \/ Finish \/ TimerStep
BY DEF Next, HandlerStep, CallerCloses, SlowRequestCut

LEMMA TypeStep ==
    ASSUME TypeOK, [Next]_vars
    PROVE  TypeOK'
<1>1. CASE Next
    BY <1>1, StepKinds, ReadingTypes, WritingTypes, ClosingTypes
<1>2. CASE UNCHANGED vars
    BY <1>2 DEF TypeOK, vars
<1> QED
    BY <1>1, <1>2

-----------------------------------------------------------------------------
(* readBody settles at most once, listens only until then, and its verdict on the size is exact. *)
LEMMA JudgedStep ==
    ASSUME IInv, [Next]_vars
    PROVE  Judged' /\ Listening'
<1> USE DEF Judged, Listening, Awaiting, reading, closing, writing, input
<1> SUFFICES ASSUME TypeOK, Judged, Listening
             PROVE  Judged' /\ Listening'
    BY DEF IInv
<1>1. CASE UNCHANGED vars
    BY <1>1 DEF vars
<1>2. CASE CallerSends \/ BreakOff
    BY <1>2 DEF CallerSends, BreakOff
<1>3. CASE ReadBody
    BY <1>3 DEF ReadBody
<1>4. CASE OnData
    <2>1. listeners # {} /\ result = "none" /\ handler \in Awaiting /\ settlements = 0
        BY <1>4 DEF OnData
    <2>2. read' = received /\ received \in Int /\ total' = total
        BY <1>4 DEF OnData, TypeOK
    <2>3. CASE OverLimit(received)
        BY <1>4, <2>1, <2>2, <2>3, ExchangeAssumption DEF OnData, Settled, OverLimit
    <2>4. CASE ~OverLimit(received)
        BY <1>4, <2>1, <2>2, <2>4, ExchangeAssumption DEF OnData, OverLimit
    <2> QED
        BY <2>3, <2>4
<1>5. CASE OnEnd
    BY <1>5 DEF OnEnd, Settled
<1>6. ASSUME NEW event \in {"close", "error"}, OnBreak(event)
      PROVE  Judged' /\ Listening'
    <2>1. CASE event \in listeners
        BY <1>6, <2>1 DEF OnBreak, Settled
    <2>2. CASE event \notin listeners
        BY <1>6, <2>2 DEF OnBreak
    <2> QED
        BY <2>1, <2>2
<1>7. CASE Refuse \/ ServeUnread \/ Serve
    BY <1>7 DEF Refuse, ServeUnread, Serve
<1>8. CASE WritePiece \/ LastWrite \/ \E event \in {"close", "drain"} : Drained(event)
    BY <1>8 DEF WritePiece, LastWrite, Drained
<1>9. CASE Finish \/ TimerStep
    BY <1>9 DEF Finish, TimerStep, PollStops, PollCloses, CloseTimer, Tick
<1> QED
    BY <1>1, <1>2, <1>3, <1>4, <1>5, <1>6, <1>7, <1>8, <1>9, StepKinds

(* A body that waits for 100 Continue comes only when readBody has asked for it. *)
LEMMA InvitedStep ==
    ASSUME IInv, [Next]_vars
    PROVE  Invited'
<1> USE DEF Invited, Awaiting, reading, closing, writing, input
<1> SUFFICES ASSUME TypeOK, Listening, Invited
             PROVE  Invited'
    BY DEF IInv
<1>1. CASE UNCHANGED vars
    BY <1>1 DEF vars
<1>2. CASE CallerSends \/ BreakOff
    BY <1>2 DEF CallerSends, BreakOff
<1>3. CASE ReadBody
    <2>1. handler' \in Awaiting /\ continued' = expects /\ expects' = expects
        BY <1>3 DEF ReadBody
    <2> QED
        BY <2>1
<1>4. CASE OnData
    <2>1. CASE OverLimit(received)
        BY <1>4, <2>1 DEF OnData, Settled
    <2>2. CASE ~OverLimit(received)
        BY <1>4, <2>2 DEF OnData
    <2> QED
        BY <2>1, <2>2
<1>5. CASE OnEnd
    BY <1>5 DEF OnEnd, Settled
<1>6. ASSUME NEW event \in {"close", "error"}, OnBreak(event)
      PROVE  Invited'
    <2>1. CASE event \in listeners
        BY <1>6, <2>1 DEF OnBreak, Settled
    <2>2. CASE event \notin listeners
        BY <1>6, <2>2 DEF OnBreak
    <2> QED
        BY <2>1, <2>2
<1>7. CASE Refuse \/ ServeUnread \/ Serve
    BY <1>7 DEF Refuse, ServeUnread, Serve
<1>8. CASE WritePiece \/ LastWrite \/ \E event \in {"close", "drain"} : Drained(event)
    BY <1>8 DEF WritePiece, LastWrite, Drained
<1>9. CASE Finish \/ TimerStep
    BY <1>9 DEF Finish, TimerStep, PollStops, PollCloses, CloseTimer, Tick
<1> QED
    BY <1>1, <1>2, <1>3, <1>4, <1>5, <1>6, <1>7, <1>8, <1>9, StepKinds

(* The watch on an unread body begins with "finish", which is never taken back. *)
LEMMA WatchedStep ==
    ASSUME IInv, [Next]_vars
    PROVE  Watched'
<1> USE DEF IInv, Watched, closing
<1>1. CASE UNCHANGED vars
    BY <1>1 DEF vars
<1>2. CASE CallerSends \/ BreakOff \/ ReadBody \/ OnData \/ OnEnd
    BY <1>2 DEF CallerSends, BreakOff, ReadBody, OnData, OnEnd
<1>3. CASE \E event \in {"close", "error"} : OnBreak(event)
    BY <1>3 DEF OnBreak
<1>4. CASE Refuse \/ ServeUnread \/ Serve
    BY <1>4 DEF Refuse, ServeUnread, Serve
<1>5. CASE WritePiece \/ LastWrite \/ \E event \in {"close", "drain"} : Drained(event)
    BY <1>5 DEF WritePiece, LastWrite, Drained
<1>6. CASE Finish \/ TimerStep
    BY <1>6 DEF Finish, TimerStep, PollStops, PollCloses, CloseTimer, Tick
<1> QED
    BY <1>1, <1>2, <1>3, <1>4, <1>5, <1>6, StepKinds

(* The invariant is inductive. *)
LEMMA Invariance == Spec => []IInv
<1>1. ASSUME IInv, [Next]_vars
      PROVE  IInv'
    BY <1>1, TypeStep, JudgedStep, InvitedStep, WatchedStep DEF IInv
<1> QED
    BY InitIInv, <1>1, PTL DEF Spec

-----------------------------------------------------------------------------
(* Every variable keeps its type: in particular no more of a body is taken than came, nor more than there is. *)
THEOREM TypeCorrect == Spec => []TypeOK
<1>1. IInv => TypeOK
    BY DEF IInv
<1> QED
    BY Invariance, <1>1, PTL

(* readBody settles once, leaves no listener, and judges the size exactly, whatever the limit and the chunks. *)
THEOREM JudgedOnce == Spec => []SettlesOnce
<1>1. IInv => SettlesOnce
    BY DEF IInv, Judged, Listening, SettlesOnce
<1> QED
    BY Invariance, <1>1, PTL

(* A caller who asks first and is answered unread has sent nothing of the body. *)
THEOREM NoUploadUnasked == Spec => []RefusedDoNotUpload
<1>1. IInv => RefusedDoNotUpload
    BY DEF IInv, Invited, Awaiting, RefusedDoNotUpload
<1> QED
    BY Invariance, <1>1, PTL

(* Only PollCloses half-closes a connection, and it does so while the poll sees the body still coming. *)
THEOREM KeptIfBodyEnded == Spec => OnlyUnreadBodiesClose
<1>1. ASSUME IInv, [Next]_vars, socket' = "half", socket = "open"
      PROVE  finished /\ received < total
    <2>1. PollCloses
        <3>1. Next
            BY <1>1 DEF vars
        <3>2. CASE CallerSends \/ BreakOff \/ ReadBody \/ OnData \/ OnEnd
            BY <1>1, <3>2 DEF CallerSends, BreakOff, ReadBody, OnData, OnEnd
        <3>3. CASE \E event \in {"close", "error"} : OnBreak(event)
            BY <1>1, <3>3 DEF OnBreak
        <3>4. CASE Refuse \/ ServeUnread \/ Serve
            BY <1>1, <3>4 DEF Refuse, ServeUnread, Serve
        <3>5. CASE WritePiece \/ LastWrite \/ \E event \in {"close", "drain"} : Drained(event)
            BY <1>1, <3>5 DEF WritePiece, LastWrite, Drained
        <3>6. CASE Finish \/ TimerStep
            BY <1>1, <3>6 DEF Finish, TimerStep, PollStops, CloseTimer, Tick
        <3> QED
            BY <3>1, <3>2, <3>3, <3>4, <3>5, <3>6, StepKinds
    <2>2. poll /\ received # total
        BY <2>1 DEF PollCloses, PollOver, Complete
    <2> QED
        BY <1>1, <2>2 DEF IInv, TypeOK, Watched
<1>2. IInv /\ [Next]_vars => [socket' = "half" /\ socket = "open" => finished /\ received < total]_vars
    BY <1>1
<1> QED
    BY Invariance, <1>2, PTL DEF Spec, OnlyUnreadBodiesClose
=============================================================================
