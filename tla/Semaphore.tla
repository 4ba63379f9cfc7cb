------------------------------ MODULE Semaphore ------------------------------
(***************************************************************************)
(* What the one door to MySQL (src/db/sql.ts) promises the history store   *)
(* and the migration: a statement that is asked for is run at most once    *)
(* and ends, with rows or an error, and no more than MAX_OPEN_CONNS run at *)
(* a time.  There is no connection here; ConnectionPool implements it.     *)
(***************************************************************************)
EXTENDS Integers, FiniteSets

CONSTANTS
    Statements,       \* the calls of execute and ping
    MAX_OPEN_CONNS    \* how many may run at a time

VARIABLES
    waiting,    \* asked for, not begun
    running,    \* being run by MySQL
    ended       \* over, one way or the other

semaphoreVars == <<waiting, running, ended>>

Init ==
    /\ waiting = {}
    /\ running = {}
    /\ ended = {}

Ask(s) ==
    /\ s \notin waiting \cup running \cup ended
    /\ waiting' = waiting \cup {s}
    /\ UNCHANGED <<running, ended>>

Begin(s) ==
    /\ s \in waiting
    /\ Cardinality(running) < MAX_OPEN_CONNS
    /\ waiting' = waiting \ {s}
    /\ running' = running \cup {s}
    /\ UNCHANGED ended

Finish(s) ==
    /\ s \in running
    /\ running' = running \ {s}
    /\ ended' = ended \cup {s}
    /\ UNCHANGED waiting

(* There is no connection to be had: the statement ends without having run. *)
GiveUp(s) ==
    /\ s \in waiting
    /\ waiting' = waiting \ {s}
    /\ ended' = ended \cup {s}
    /\ UNCHANGED running

Next == \E s \in Statements : Ask(s) \/ Begin(s) \/ Finish(s) \/ GiveUp(s)

(* The promise: no other step, and nobody waits or runs for ever. *)
Spec ==
    /\ Init /\ [][Next]_semaphoreVars
    /\ \A s \in Statements : (s \in waiting \cup running) ~> (s \in ended)
=============================================================================
