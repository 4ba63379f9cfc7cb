--------------------------- MODULE ConnectionPool ---------------------------
(***************************************************************************)
(* The one door to MySQL, class MysqlSql of src/db/sql.ts: execute and     *)
(* ping take a connection from mysql2's pool, close the ones that are too  *)
(* old on the way, run one command and release the connection whatever     *)
(* happened.  A new connection is put on UTC before anything else runs on  *)
(* it.                                                                     *)
(*                                                                         *)
(* External, modelled from how sql.ts uses it: mysql2's pool hands out a   *)
(* free connection, else opens one below connectionLimit, else queues the  *)
(* request without limit; a released connection goes to the first in the   *)
(* queue, and the place of a destroyed one is offered to it; a connection  *)
(* runs its commands in order.                                             *)
(***************************************************************************)
EXTENDS Integers, Sequences, FiniteSets

CONSTANTS
    Statements,           \* the calls of execute and ping
    Connections,          \* names for connections; a name is reused after its connection is gone
    MAX_OPEN_CONNS,       \* connectionLimit
    CONN_MAX_LIFETIME,    \* the age, in ticks, up to which a connection is used
    MaxAge                \* bound: ages are not counted beyond this

ASSUME PoolAssumption ==
    /\ MAX_OPEN_CONNS \in Nat \ {0}
    /\ CONN_MAX_LIFETIME \in Nat
    /\ MaxAge \in Nat /\ MaxAge > CONN_MAX_LIFETIME
    /\ IsFiniteSet(Connections) /\ Cardinality(Connections) >= MAX_OPEN_CONNS

None == "none"
ASSUME NoneAssumption == None \notin Connections

VARIABLES
    open,     \* the pool's connections, free or in use
    free,     \* the ones nobody uses
    age,      \* how long each has been open
    zone,     \* each session's time zone: the server's own (SET time_zone queued or not), or UTC
    queue,    \* statements waiting for a connection, first come first served
    place,    \* where each statement is
    holds,    \* the connection each statement was given
    ranIn,    \* the time zone each statement ran in (history)
    startAge  \* the age of the connection when the statement was started (history)

vars == <<open, free, age, zone, queue, place, holds, ranIn, startAge>>
pool == <<open, free, age, zone, queue>>

Places == {"new", "asking", "queued", "connecting", "given", "running", "succeeded", "failed"}

TypeOK ==
    /\ open \subseteq Connections /\ Cardinality(open) <= MAX_OPEN_CONNS
    /\ free \subseteq open
    /\ age \in [Connections -> 0..MaxAge]
    /\ zone \in [Connections -> {"server", "unset", "utc"}]
    /\ queue \in Seq(Statements)
    /\ place \in [Statements -> Places]
    /\ holds \in [Statements -> Connections \cup {None}]
    /\ ranIn \in [Statements -> {None, "server", "utc"}]
    /\ startAge \in [Statements -> 0..MaxAge]

Init ==
    /\ open = {}
    /\ free = {}
    /\ age = [c \in Connections |-> 0]
    /\ zone = [c \in Connections |-> "server"]
    /\ queue = <<>>
    /\ place = [s \in Statements |-> "new"]
    /\ holds = [s \in Statements |-> None]
    /\ ranIn = [s \in Statements |-> None]
    /\ startAge = [s \in Statements |-> 0]

-----------------------------------------------------------------------------
(* execute or ping is called. *)
Call(s) ==
    /\ place[s] = "new"
    /\ place' = [place EXCEPT ![s] = "asking"]
    /\ UNCHANGED <<pool, holds, ranIn, startAge>>

Give(s, c) ==
    /\ place' = [place EXCEPT ![s] = "given"]
    /\ holds' = [holds EXCEPT ![s] = c]

(* pool.getConnection: a free connection. *)
GetFree(s) ==
    /\ place[s] = "asking"
    /\ \E c \in free :
          /\ Give(s, c)
          /\ free' = free \ {c}
    /\ UNCHANGED <<open, age, zone, queue, ranIn, startAge>>

(* Mutant: the limit is off by one. *)
RoomPlusOne == Cardinality(open) <= MAX_OPEN_CONNS /\ open # Connections

(* connectionLimit: the pool may open another connection. *)
Room == Cardinality(open) < MAX_OPEN_CONNS

(* A connection that is not open; which one makes no difference. *)
NewConnection == CHOOSE c \in Connections : c \notin open

(* pool.getConnection: a new connection takes its place in the pool and connects. *)
Connect(s) ==
    /\ place[s] = "asking"
    /\ free = {}
    /\ Room
    /\ place' = [place EXCEPT ![s] = "connecting"]
    /\ holds' = [holds EXCEPT ![s] = NewConnection]
    /\ open' = open \cup {NewConnection}
    /\ UNCHANGED <<free, age, zone, queue, ranIn, startAge>>

(* Mutant: the connection event does not queue SET time_zone. *)
ConnectedWithoutZone(s) ==
    /\ place[s] = "connecting"
    /\ Give(s, holds[s])
    /\ age' = [age EXCEPT ![holds[s]] = 0]
    /\ zone' = [zone EXCEPT ![holds[s]] = "server"]
    /\ UNCHANGED <<open, free, queue, ranIn, startAge>>

(* The "connection" event notes the birth and queues SET time_zone, before any command of the caller. *)
Connected(s) ==
    /\ place[s] = "connecting"
    /\ Give(s, holds[s])
    /\ age' = [age EXCEPT ![holds[s]] = 0]
    /\ zone' = [zone EXCEPT ![holds[s]] = "unset"]
    /\ UNCHANGED <<open, free, queue, ranIn, startAge>>

(* pool.getConnection: everything is in use. *)
Enqueue(s) ==
    /\ place[s] = "asking"
    /\ free = {}
    /\ ~Room
    /\ place' = [place EXCEPT ![s] = "queued"]
    /\ queue' = Append(queue, s)
    /\ UNCHANGED <<open, free, age, zone, holds, ranIn, startAge>>

-----------------------------------------------------------------------------
(* Mutant: nobody in the queue hears of the free place. *)
DiscardQuietly(s, next) ==
    /\ open' = open \ {holds[s]}
    /\ holds' = [holds EXCEPT ![s] = None]
    /\ place' = [place EXCEPT ![s] = next]
    /\ UNCHANGED <<free, age, zone, queue>>

(* Statement s is done with its connection, which is gone: the first in the queue asks again. *)
Discard(s, next) ==
    /\ open' = open \ {holds[s]}
    /\ holds' = [holds EXCEPT ![s] = None]
    /\ IF queue = <<>>
       THEN place' = [place EXCEPT ![s] = next] /\ UNCHANGED queue
       ELSE /\ place' = [place EXCEPT ![s] = next, ![Head(queue)] = "asking"]
            /\ queue' = Tail(queue)
    /\ UNCHANGED <<free, age, zone>>

(* The server cannot be reached: take rejects, and the place in the pool is offered to the queue. *)
ConnectFails(s) ==
    /\ place[s] = "connecting"
    /\ Discard(s, "failed")
    /\ UNCHANGED <<ranIn, startAge>>

(* connection.release(): to the first in the queue, else back to the pool. *)
Return(s, next) ==
    /\ IF queue = <<>>
       THEN /\ free' = free \cup {holds[s]}
            /\ holds' = [holds EXCEPT ![s] = None]
            /\ place' = [place EXCEPT ![s] = next]
            /\ UNCHANGED queue
       ELSE /\ holds' = [holds EXCEPT ![s] = None, ![Head(queue)] = holds[s]]
            /\ place' = [place EXCEPT ![s] = next, ![Head(queue)] = "given"]
            /\ queue' = Tail(queue)
            /\ UNCHANGED free
    /\ UNCHANGED <<open, age, zone>>

Young(c) == age[c] <= CONN_MAX_LIFETIME

(* take: the connection is young enough, the command is handed to it. *)
Start(s) ==
    /\ place[s] = "given"
    /\ Young(holds[s])
    /\ place' = [place EXCEPT ![s] = "running"]
    /\ startAge' = [startAge EXCEPT ![s] = age[holds[s]]]
    /\ UNCHANGED <<pool, holds, ranIn>>

(* take: it is too old; it is closed and another one asked for. *)
CloseOld(s) ==
    /\ place[s] = "given"
    /\ ~Young(holds[s])
    /\ Discard(s, "asking")
    /\ UNCHANGED <<ranIn, startAge>>

(* The connection runs what is queued on it: SET time_zone first, on a new one. *)
SetTimeZone(s) ==
    /\ place[s] = "running"
    /\ zone[holds[s]] = "unset"
    /\ zone' = [zone EXCEPT ![holds[s]] = "utc"]
    /\ UNCHANGED <<open, free, age, queue, place, holds, ranIn, startAge>>

(* SET time_zone is refused: the connection is destroyed and the command with it. *)
SetTimeZoneFails(s) ==
    /\ place[s] = "running"
    /\ zone[holds[s]] = "unset"
    /\ Discard(s, "failed")
    /\ UNCHANGED <<ranIn, startAge>>

Ready(s) == place[s] = "running" /\ zone[holds[s]] # "unset"

(* Mutant: no `finally`, a refused command keeps its connection. *)
RunsReleasingOnSuccess(s) ==
    /\ Ready(s)
    /\ ranIn' = [ranIn EXCEPT ![s] = zone[holds[s]]]
    /\ \/ Return(s, "succeeded")
       \/ /\ place' = [place EXCEPT ![s] = "failed"]
          /\ holds' = [holds EXCEPT ![s] = None]
          /\ UNCHANGED pool
    /\ UNCHANGED startAge

(* MySQL executes the command, or refuses it; the connection is released in either case. *)
Runs(s) ==
    /\ Ready(s)
    /\ ranIn' = [ranIn EXCEPT ![s] = zone[holds[s]]]
    /\ \E result \in {"succeeded", "failed"} : Return(s, result)
    /\ UNCHANGED startAge

(* The connection breaks under the command. *)
Breaks(s) ==
    /\ place[s] = "running"
    /\ Discard(s, "failed")
    /\ UNCHANGED <<ranIn, startAge>>

(* Time passes for the open connections; take looks at the clock in the turn it is given a connection. *)
Tick ==
    /\ \A s \in Statements : place[s] # "given"
    /\ \E c \in open : age[c] < MaxAge
    /\ age' = [c \in Connections |-> IF c \in open /\ age[c] < MaxAge THEN age[c] + 1 ELSE age[c]]
    /\ UNCHANGED <<open, free, zone, queue, place, holds, ranIn, startAge>>

Serve(s) ==
    \/ GetFree(s)
    \/ Connect(s)
    \/ Connected(s)
    \/ ConnectFails(s)
    \/ Enqueue(s)
    \/ Start(s)
    \/ CloseOld(s)
    \/ SetTimeZone(s)
    \/ SetTimeZoneFails(s)
    \/ Runs(s)
    \/ Breaks(s)

Next == Tick \/ \E s \in Statements : Call(s) \/ Serve(s)

Spec == Init /\ [][Next]_vars

(* Every command sent to MySQL is answered or its connection breaks; the event loop runs the rest. *)
LiveSpec == Spec /\ \A s \in Statements : WF_vars(Serve(s))

-----------------------------------------------------------------------------
(***************************************************************************)
(* No connection leaks and none is shared: every open connection is free   *)
(* or held by exactly one statement, whatever failed before.               *)
(***************************************************************************)
NoLeak ==
    /\ \A c \in open \ free : \E s \in Statements : holds[s] = c
    /\ \A s, t \in Statements : holds[s] # None =>
          /\ holds[s] \in open \ free
          /\ s # t => holds[s] # holds[t]

(***************************************************************************)
(* No lost wake-up: a statement waits in the queue only while every        *)
(* connection the pool may have is in use, or others ahead of it in the    *)
(* queue have been told to ask again.                                      *)
(***************************************************************************)
NobodyWaitsForNothing ==
    queue # <<>> =>
        /\ free = {}
        /\ Cardinality(open) + Cardinality({s \in Statements : place[s] = "asking"}) >= MAX_OPEN_CONNS

(* Neither a connection nor a wake-up is lost. *)
NothingIsLost == NoLeak /\ NobodyWaitsForNothing

(* Every statement runs in a UTC session (times travel as UTC text), on a connection that was young when it was handed over. *)
RunsInUtc ==
    \A s \in Statements :
        /\ ranIn[s] # "server"
        /\ place[s] \in {"running", "succeeded"} => startAge[s] <= CONN_MAX_LIFETIME

(***************************************************************************)
(* The pool keeps the promise of sql.ts (Semaphore): a statement runs once *)
(* and ends, whether MySQL answers it, refuses it or drops the connection, *)
(* and never more than MAX_OPEN_CONNS run at a time, whatever aged, broke  *)
(* or failed before.                                                       *)
(***************************************************************************)
At(places) == {s \in Statements : place[s] \in places}

Promise == INSTANCE Semaphore WITH
    waiting <- At({"asking", "queued", "connecting", "given"}),
    running <- At({"running"}),
    ended <- At({"succeeded", "failed"})

KeepsItsPromise == Promise!Spec
=============================================================================
