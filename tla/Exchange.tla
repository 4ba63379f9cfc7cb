------------------------------ MODULE Exchange ------------------------------
(***************************************************************************)
(* One request with a body, and its answer, on one connection: readBody    *)
(* (src/http/body.ts), sendJson and drained (src/http/json.ts), and        *)
(* closeWhenBodyUnread and createHttpServer (src/server.ts).  The caller   *)
(* sends the body when they like, or stop half-way, read the answer when   *)
(* they like, and may hang up at any time.                                 *)
(*                                                                         *)
(* External, modelled from how src/ uses it: Node buffers a little of a    *)
(* body nobody reads and then stops reading the socket; a request that is  *)
(* resumed without a listener is discarded; the events of a request that   *)
(* breaks off are "error" and "close"; a request that is closed emits no   *)
(* "data" and no "end".                                                    *)
(*                                                                         *)
(* Bytes and milliseconds are counted in units.                            *)
(***************************************************************************)
EXTENDS Integers, FiniteSets

CONSTANTS
    MAX_BODY_BYTES,         \* readBody's limit
    UNREAD_BODY_ALLOWANCE,  \* how much of an unread body is read after the answer
    UNREAD_BODY_WAIT,       \* and for how long
    CLOSE_WAIT,             \* how long the connection stays half-closed
    HighWater,              \* how much Node buffers of a body nobody reads
    MaxTotal,               \* bound: the longest body
    MaxPieces               \* bound: the longest answer, in writes

ASSUME ExchangeAssumption ==
    /\ MAX_BODY_BYTES \in Nat /\ UNREAD_BODY_ALLOWANCE \in Nat
    /\ UNREAD_BODY_WAIT \in Nat \ {0} /\ CLOSE_WAIT \in Nat \ {0}
    /\ HighWater \in Nat \ {0} /\ MaxTotal \in Nat /\ MaxPieces \in Nat

VARIABLES
    total,       \* the length of the body
    expects,     \* the caller waits for 100 Continue before the body
    continued,   \* 100 Continue was sent
    received,    \* what the socket has read of the body
    read,        \* what readBody was given of it
    flow,        \* the request: "idle", "flowing" or "paused"
    listeners,   \* readBody's listeners
    pending,     \* events of a broken-off request that are still to be emitted
    result,      \* readBody's result
    settlements, \* how often it resolved or rejected (history)
    handler,     \* where the handler is
    pieces,      \* writes the answer still needs
    waitsFor,    \* drained's listeners
    finished,    \* the response's "finish" event
    poll,        \* the interval of closeWhenBodyUnread
    start,       \* received at the start of the poll
    waited,      \* time since the poll or the half-close began
    socket       \* open, half (our FIN is out), gone (the caller closed it), destroyed (we did)

vars == <<total, expects, continued, received, read, flow, listeners, pending, result, settlements,
          handler, pieces, waitsFor, finished, poll, start, waited, socket>>

input   == <<total, expects>>
reading == <<read, listeners, result, settlements>>
writing == <<pieces, waitsFor>>
closing == <<finished, poll, start, waited>>

(* The handler is over: it has answered, or had nobody to answer any more. *)
Over == {"ended", "stopped", "dropped"}

TypeOK ==
    /\ total \in 0..MaxTotal /\ expects \in BOOLEAN /\ continued \in BOOLEAN
    /\ received \in 0..total /\ read \in 0..received
    /\ flow \in {"idle", "flowing", "paused"}
    /\ listeners \subseteq {"data", "end", "close", "error"}
    /\ pending \subseteq {"close", "error"}
    /\ result \in {"none", "whole", "exceeded", "gone"}
    /\ settlements \in Nat
    /\ handler \in {"auth", "reading", "serving", "writing", "draining", "abandoned"} \cup Over
    /\ pieces \in 0..MaxPieces
    /\ waitsFor \subseteq {"drain", "close"}
    /\ finished \in BOOLEAN /\ poll \in BOOLEAN
    /\ start \in 0..total
    /\ waited \in 0..(UNREAD_BODY_WAIT + CLOSE_WAIT)
    /\ socket \in {"open", "half", "gone", "destroyed"}

(* Mutant: Node's own answer to Expect, before anything has looked at the request. *)
ContinueEarly == expects

(* The checkContinue listener only hands the request to the app: nothing is sent before a handler reads. *)
ContinueAtOnce == FALSE

Init ==
    /\ total \in 0..MaxTotal
    /\ expects \in BOOLEAN
    /\ continued = ContinueAtOnce
    /\ received = 0
    /\ read = 0
    /\ flow = "idle"
    /\ listeners = {}
    /\ pending = {}
    /\ result = "none"
    /\ settlements = 0
    /\ handler = "auth"
    /\ pieces = 0
    /\ waitsFor = {}
    /\ finished = FALSE
    /\ poll = FALSE
    /\ start = 0
    /\ waited = 0
    /\ socket = "open"

Connected == socket \in {"open", "half"}
Complete  == received = total     \* req.complete

-----------------------------------------------------------------------------
(* The caller. *)

(* A piece of the body arrives: the socket is read while the request flows, or there is room to buffer. *)
CallerSends ==
    /\ Connected
    /\ ~Complete
    /\ expects => continued
    /\ flow = "flowing" \/ received - read < HighWater
    /\ received' = received + 1
    /\ UNCHANGED <<input, continued, flow, reading, pending, handler, writing, closing, socket>>

(* The connection is closed: the request emits "close", and may emit "error" too. *)
BreakOff ==
    /\ Connected
    /\ socket' = "gone"
    /\ pending' \in {{"close"}, {"close", "error"}}
    /\ UNCHANGED <<input, continued, received, flow, reading, handler, writing, closing>>

(* The caller closes it. *)
CallerCloses == BreakOff

(* Mutant: no limit on how long a request takes to arrive. *)
NeverTooSlow == FALSE

(* requestTimeout: the request is not all in after 30 s. *)
TooSlow == ~Complete

(* The server closes it without a word on a request that is too slow (clientError). *)
SlowRequestCut ==
    /\ TooSlow
    /\ BreakOff

-----------------------------------------------------------------------------
(* The handler. *)

(* The declaration refuses (401), and sendText ends the response without a look at the body. *)
Refuse ==
    /\ handler = "auth"
    /\ handler' = "ended"
    /\ UNCHANGED <<input, continued, received, flow, reading, pending, writing, closing, socket>>

(* A route that reads no body goes on to its work. *)
ServeUnread ==
    /\ handler = "auth"
    /\ handler' = "serving"
    /\ UNCHANGED <<input, continued, received, flow, reading, pending, writing, closing, socket>>

(* readBody: 100 Continue if it was asked for, then the listeners; on a closed request they hear nothing any more. *)
ReadBody ==
    /\ handler = "auth"
    /\ continued' = expects
    /\ flow' = "flowing"
    /\ listeners' = {"data", "end", "close", "error"}
    /\ handler' = IF Connected \/ pending # {} THEN "reading" ELSE "abandoned"
    /\ UNCHANGED <<input, received, read, pending, result, settlements, writing, closing, socket>>

(* Mutant: the listeners stay. *)
SettleAndListen(r, next) ==
    /\ result' = r
    /\ settlements' = settlements + 1
    /\ handler' = next
    /\ UNCHANGED listeners

(* settle: the first event decides, and every listener is removed. *)
Settled(r, next) ==
    /\ result' = r
    /\ settlements' = settlements + 1
    /\ handler' = next
    /\ listeners' = {}

OverLimit(size) == size > MAX_BODY_BYTES

(* onData: what has come is taken; past the limit the request is paused and judged by what came. *)
OnData ==
    /\ "data" \in listeners
    /\ Connected
    /\ received > read
    /\ read' = received
    /\ IF OverLimit(received)
       THEN Settled("exceeded", "serving") /\ flow' = "paused"
       ELSE UNCHANGED <<listeners, result, settlements, handler, flow>>
    /\ UNCHANGED <<input, continued, received, pending, writing, closing, socket>>

OnEnd ==
    /\ "end" \in listeners
    /\ Connected
    /\ Complete /\ read = total
    /\ Settled("whole", "serving")
    /\ UNCHANGED <<input, continued, received, read, flow, pending, writing, closing, socket>>

(* onClose and onError: CallerGone, and nobody to answer. *)
OnBreak(event) ==
    /\ event \in pending
    /\ pending' = pending \ {event}
    /\ IF event \in listeners
       THEN Settled("gone", "dropped")
       ELSE UNCHANGED <<listeners, result, settlements, handler>>
    /\ UNCHANGED <<input, continued, received, read, flow, writing, closing, socket>>

(* The handler answers with an error text, or begins to write JSON. *)
Serve ==
    /\ handler = "serving"
    /\ \/ handler' = "ended" /\ UNCHANGED pieces
       \/ handler' = "writing" /\ pieces' \in 0..MaxPieces
    /\ UNCHANGED <<input, continued, received, flow, reading, pending, waitsFor, closing, socket>>

(* Mutant: only room on the socket ends the wait. *)
DrainOnly == {"drain"}

(* What drained listens for. *)
DrainedBy == {"drain", "close"}

MoreToWrite == pieces > 0

(* sendJson, one write: the response is gone, or there is room for more, or it waits. *)
WritePiece ==
    /\ handler = "writing"
    /\ MoreToWrite
    /\ pieces' = pieces - 1
    /\ \/ ~Connected /\ handler' = "stopped" /\ UNCHANGED waitsFor
       \/ Connected /\ UNCHANGED <<handler, waitsFor>>
       \/ Connected /\ handler' = "draining" /\ waitsFor' = DrainedBy
    /\ UNCHANGED <<input, continued, received, flow, reading, pending, closing, socket>>

(* drained: room again, or the response was closed. *)
Drained(event) ==
    /\ handler = "draining"
    /\ event \in waitsFor
    /\ IF event = "drain" THEN Connected ELSE ~Connected
    /\ handler' = "writing"
    /\ waitsFor' = {}
    /\ UNCHANGED <<input, continued, received, flow, reading, pending, pieces, closing, socket>>

LastWrite ==
    /\ handler = "writing"
    /\ ~MoreToWrite
    /\ handler' = "ended"
    /\ UNCHANGED <<input, continued, received, flow, reading, pending, writing, closing, socket>>

-----------------------------------------------------------------------------
(* After the answer. *)

(* "finish": a body that is not all in is resumed, which discards it, and watched. *)
Finish ==
    /\ handler = "ended"
    /\ Connected
    /\ ~finished
    /\ finished' = TRUE
    /\ IF Complete
       THEN UNCHANGED <<poll, start, waited, flow>>
       ELSE /\ poll' = TRUE
            /\ start' = received
            /\ waited' = 0
            /\ flow' = "flowing"
    /\ UNCHANGED <<input, continued, received, reading, pending, handler, writing, socket>>

(* Mutant: only the amount is bounded. *)
AllowanceLeftOnly == received - start <= UNREAD_BODY_ALLOWANCE

AllowanceLeft == received - start <= UNREAD_BODY_ALLOWANCE /\ waited < UNREAD_BODY_WAIT

(* Mutant: a body that has ended meanwhile is not noticed. *)
PollOverIfDestroyed == ~Connected

(* The poll has nothing left to watch. *)
PollOver == Complete \/ ~Connected

PollStops ==
    /\ poll
    /\ PollOver
    /\ poll' = FALSE
    /\ UNCHANGED <<input, continued, received, flow, reading, pending, handler, writing, finished, start, waited, socket>>

(* Past the allowance or the wait: a FIN, and a short wait before the connection is closed. *)
PollCloses ==
    /\ poll
    /\ ~PollOver
    /\ ~AllowanceLeft
    /\ poll' = FALSE
    /\ socket' = "half"
    /\ waited' = 0
    /\ UNCHANGED <<input, continued, received, flow, reading, pending, handler, writing, finished, start>>

CloseTimer ==
    /\ socket = "half"
    /\ waited = CLOSE_WAIT
    /\ socket' = "destroyed"
    /\ UNCHANGED <<input, continued, received, flow, reading, pending, handler, writing, closing>>

Tick ==
    /\ \/ poll /\ waited < UNREAD_BODY_WAIT
       \/ socket = "half" /\ waited < CLOSE_WAIT
    /\ waited' = waited + 1
    /\ UNCHANGED <<input, continued, received, flow, reading, pending, handler, writing, finished, poll, start, socket>>

-----------------------------------------------------------------------------
HandlerStep ==
    \/ Refuse
    \/ ServeUnread
    \/ ReadBody
    \/ OnData
    \/ OnEnd
    \/ \E event \in {"close", "error"} : OnBreak(event)
    \/ Serve
    \/ WritePiece
    \/ Drained("close")
    \/ LastWrite

TimerStep == PollStops \/ PollCloses \/ CloseTimer \/ Tick

Next == HandlerStep \/ TimerStep \/ SlowRequestCut \/ Finish \/ Drained("drain") \/ CallerSends \/ CallerCloses

Spec == Init /\ [][Next]_vars

(***************************************************************************)
(* The event loop runs the handler's steps, emits events and fires timers; *)
(* the 30 s of a request that is being read pass.  (What follows an answer *)
(* must end without their help.)  Nothing makes the caller send, read or   *)
(* close.                                                                  *)
(***************************************************************************)
LiveSpec ==
    /\ Spec
    /\ WF_vars(HandlerStep)
    /\ WF_vars(TimerStep)
    /\ WF_vars(handler = "reading" /\ SlowRequestCut)

-----------------------------------------------------------------------------
(***************************************************************************)
(* Four events race for one promise: readBody settles once, leaves no      *)
(* listener behind when it has, and its verdict on the size is exact       *)
(* however the body was cut into chunks: a body is whole only when all of  *)
(* it came within the limit, and too large only when more came.            *)
(***************************************************************************)
SettlesOnce ==
    /\ settlements <= 1
    /\ settlements = 1 => listeners = {}
    /\ result = "whole" => read = total /\ total <= MAX_BODY_BYTES
    /\ result = "exceeded" => read > MAX_BODY_BYTES

(* A caller who asks before sending and is answered unread does not upload: no 100 Continue went out. *)
RefusedDoNotUpload ==
    expects /\ result = "none" /\ handler \in {"auth", "serving", "writing", "draining", "ended", "stopped"} => received = 0

(* A connection is cut only for a body that is still coming: one that ended in time is kept for the next request. *)
OnlyUnreadBodiesClose == [][socket' = "half" /\ socket = "open" => finished /\ received < total]_vars

(***************************************************************************)
(* Two things can be held for ever, and nothing else is. In the end every  *)
(* handler is over, but for one that writes to a caller who is still there *)
(* and takes no answer (writing has no time limit, on purpose), and for    *)
(* one that began to read the body of a request which had closed by then:  *)
(* its readBody never settles, where http/body.ts:12 has CallerGone. A     *)
(* body that stalls, a caller who closes at any other moment, and a wait   *)
(* for room on a socket hold it for a while only. And once the answer is   *)
(* out, a body that never ends holds neither its poll nor its connection;  *)
(* until it is out, a caller who takes none of it keeps the connection     *)
(* too.                                                                    *)
(***************************************************************************)
NothingElseIsHeld ==
    <>[](/\ \/ handler \in Over
            \/ handler = "draining" /\ Connected
            \/ handler = "abandoned" /\ ~Connected
         /\ ~poll /\ socket # "half"
         /\ finished => Complete \/ ~Connected)
=============================================================================
