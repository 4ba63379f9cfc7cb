------------------------------ MODULE Migration ------------------------------
(***************************************************************************)
(* The boot of agent-service on its MySQL database: setUpDatabase          *)
(* (src/db/setup.ts), which waits for MySQL and then runs the idempotent   *)
(* migration of src/db/migrate.ts, one awaited statement per step.         *)
(*                                                                         *)
(* Several instances may boot on one database (a redeploy that overlaps    *)
(* the old task, a rollback, two replicas): the catalogue look-up and the  *)
(* DDL statement it guards are two awaited statements, so another          *)
(* instance's DDL may come between them.  MySQL has no conditional ALTER   *)
(* or CREATE INDEX; a CREATE INDEX of an existing index is refused, and    *)
(* the refusal ends the boot.                                              *)
(*                                                                         *)
(* External, modelled from how src/ uses it: MySQL executes each statement *)
(* atomically; a statement may fail, with or without having taken effect.  *)
(***************************************************************************)
EXTENDS Integers, Sequences, FiniteSets

CONSTANTS
    Instances,       \* the processes that boot on this database
    SCHEMA,          \* the tables, in the order they are created
    WIDENED_COLUMNS, \* the columns to widen, in order: [table, column]
    INDEXES,         \* the indexes to create, in order: [table, name]
    PING_ATTEMPTS,   \* how often waitForDatabase pings before it gives up
    MaxBoots,        \* bound: how often one instance is started
    MaxFaults        \* bound: how many statements fail and processes die

Elements(s) == {s[i] : i \in 1..Len(s)}

Tables     == Elements(SCHEMA)
Columns    == Elements(WIDENED_COLUMNS)
IndexSet   == Elements(INDEXES)

ASSUME InstancesAssumption == Instances # {}
ASSUME ListsAssumption ==
    /\ SCHEMA \in Seq(Tables)
    /\ WIDENED_COLUMNS \in Seq(Columns)
    /\ INDEXES \in Seq(IndexSet)
    /\ \A c \in Columns : c.table \in Tables
    /\ \A ix \in IndexSet : ix.table \in Tables
ASSUME BoundsAssumption ==
    /\ PING_ATTEMPTS \in Nat \ {0}
    /\ MaxBoots \in Nat \ {0}
    /\ MaxFaults \in Nat

VARIABLES
    tables,      \* the tables that exist
    columnType,  \* the declared type of each widened column, "" when its table does not exist
    indexes,     \* the indexes that exist
    accepting,   \* MySQL accepts connections (its start-up window is over)
    phase,       \* where each instance is in its boot
    at,          \* the attempt, or the position in the list the phase walks through
    boots,       \* how often each instance has been started
    faults,      \* statements that failed and processes that died so far
    startedComplete \* the schema was already complete when this boot began (history)

database == <<tables, columnType, indexes>>
instance == <<phase, at, boots, faults, startedComplete>>
vars == <<tables, columnType, indexes, accepting, phase, at, boots, faults, startedComplete>>

(***************************************************************************)
(* "create" is between the look-up that found no index and its CREATE      *)
(* INDEX, "alter" between the look-up that found a narrow column and its   *)
(* ALTER TABLE.  "lost": the CREATE INDEX was refused because the index    *)
(* had appeared in between.  "failed": any other failure, or a kill.       *)
(***************************************************************************)
Running == {"ping", "tables", "columns", "alter", "indexes", "create"}
Phases  == {"off", "booted", "lost", "failed"} \cup Running

TypeOK ==
    /\ tables \subseteq Tables
    /\ columnType \in [Columns -> {"", "int", "bigint"}]
    /\ indexes \subseteq IndexSet
    /\ accepting \in BOOLEAN
    /\ phase \in [Instances -> Phases]
    /\ at \in [Instances -> Nat \ {0}]
    /\ boots \in [Instances -> 0..MaxBoots]
    /\ faults \in 0..MaxFaults
    /\ startedComplete \in [Instances -> BOOLEAN]

Complete ==
    /\ tables = Tables
    /\ \A c \in Columns : columnType[c] = "bigint"
    /\ indexes = IndexSet

(***************************************************************************)
(* The databases a boot may find: a fresh one, one created by a version    *)
(* with INT money columns and no secondary index, and an up-to-date one.   *)
(* What an interrupted migration leaves is reached through the faults.     *)
(***************************************************************************)
FreshDatabase ==
    /\ tables = {}
    /\ columnType = [c \in Columns |-> ""]
    /\ indexes = {}

LegacyDatabase ==
    /\ tables = Tables
    /\ columnType = [c \in Columns |-> "int"]
    /\ indexes = {}

CurrentDatabase ==
    /\ tables = Tables
    /\ columnType = [c \in Columns |-> "bigint"]
    /\ indexes = IndexSet

Init ==
    /\ FreshDatabase \/ LegacyDatabase \/ CurrentDatabase
    /\ accepting \in BOOLEAN
    /\ phase = [p \in Instances |-> "off"]
    /\ at = [p \in Instances |-> 1]
    /\ boots = [p \in Instances |-> 0]
    /\ faults = 0
    /\ startedComplete = [p \in Instances |-> FALSE]

Goto(p, ph, i) ==
    /\ phase' = [phase EXCEPT ![p] = ph]
    /\ at' = [at EXCEPT ![p] = i]

-----------------------------------------------------------------------------
(* MySQL itself finishes starting. *)
DatabaseAccepts ==
    /\ ~accepting
    /\ accepting' = TRUE
    /\ UNCHANGED <<database, instance>>

(* The process is (re)started; setUpDatabase opens the pool (it connects lazily) and the first ping is due. *)
Boot(p) ==
    /\ phase[p] \notin Running
    /\ boots[p] < MaxBoots
    /\ Goto(p, "ping", 1)
    /\ boots' = [boots EXCEPT ![p] = @ + 1]
    /\ startedComplete' = [startedComplete EXCEPT ![p] = Complete]
    /\ UNCHANGED <<database, accepting, faults>>

(* waitForDatabase: one ping; the loop ends with the first answer or after the last attempt. *)
Ping(p) ==
    /\ phase[p] = "ping"
    /\ \/ accepting /\ Goto(p, "tables", 1)
       \/ ~accepting /\ at[p] < PING_ATTEMPTS /\ Goto(p, "ping", at[p] + 1)
       \/ ~accepting /\ at[p] >= PING_ATTEMPTS /\ Goto(p, "failed", 1)
    /\ UNCHANGED <<database, accepting, boots, faults, startedComplete>>

(* What CREATE TABLE IF NOT EXISTS t does: a table made now has BIGINT money columns. *)
CreateTableEffect(t) ==
    /\ tables' = tables \cup {t}
    /\ columnType' = [c \in Columns |->
                        IF c.table = t /\ t \notin tables THEN "bigint" ELSE columnType[c]]
    /\ UNCHANGED indexes

(* migrate, the first loop: one CREATE TABLE IF NOT EXISTS per table. *)
CreateTable(p) ==
    /\ phase[p] = "tables"
    /\ \/ /\ at[p] <= Len(SCHEMA)
          /\ CreateTableEffect(SCHEMA[at[p]])
          /\ Goto(p, "tables", at[p] + 1)
       \/ /\ at[p] > Len(SCHEMA)
          /\ Goto(p, "columns", 1)
          /\ UNCHANGED database
    /\ UNCHANGED <<accepting, boots, faults, startedComplete>>

(* Mutant: a bare ALTER on every boot. *)
AlwaysWiden(c) == TRUE

(* Mutant: no column is ever found narrow. *)
NeverWiden(c) == FALSE

(* migrate, the second loop: columnType looks the column up; "" and "bigint" need no ALTER. *)
NeedsWidening(c) == columnType[c] \notin {"", "bigint"}

LookUpColumn(p) ==
    /\ phase[p] = "columns"
    /\ \/ /\ at[p] <= Len(WIDENED_COLUMNS)
          /\ IF NeedsWidening(WIDENED_COLUMNS[at[p]])
             THEN Goto(p, "alter", at[p])
             ELSE Goto(p, "columns", at[p] + 1)
       \/ /\ at[p] > Len(WIDENED_COLUMNS)
          /\ Goto(p, "indexes", 1)
    /\ UNCHANGED <<database, accepting, boots, faults, startedComplete>>

AlterEffect(c) ==
    /\ columnType' = [columnType EXCEPT ![c] = "bigint"]
    /\ UNCHANGED <<tables, indexes>>

WidenColumn(p) ==
    /\ phase[p] = "alter"
    /\ AlterEffect(WIDENED_COLUMNS[at[p]])
    /\ Goto(p, "columns", at[p] + 1)
    /\ UNCHANGED <<accepting, boots, faults, startedComplete>>

(* migrate, the third loop: indexExists, then CREATE INDEX when it does not. *)
LookUpIndex(p) ==
    /\ phase[p] = "indexes"
    /\ \/ /\ at[p] <= Len(INDEXES)
          /\ IF INDEXES[at[p]] \in indexes
             THEN Goto(p, "indexes", at[p] + 1)
             ELSE Goto(p, "create", at[p])
       \/ /\ at[p] > Len(INDEXES)
          /\ Goto(p, "booted", 1)
    /\ UNCHANGED <<database, accepting, boots, faults, startedComplete>>

CreateIndexEffect(ix) ==
    /\ indexes' = indexes \cup {ix}
    /\ UNCHANGED <<tables, columnType>>

(* Mutant: a CREATE INDEX whose reply is lost is issued again. *)
CreateIndexRetried(p) ==
    /\ phase[p] = "create"
    /\ INDEXES[at[p]] \notin indexes
    /\ CreateIndexEffect(INDEXES[at[p]])
    /\ Goto(p, "indexes", at[p] + 1) \/ Goto(p, "create", at[p])
    /\ UNCHANGED <<accepting, boots, faults, startedComplete>>

(* The CREATE INDEX of an index nobody has created meanwhile. *)
CreateIndex(p) ==
    /\ phase[p] = "create"
    /\ INDEXES[at[p]] \notin indexes
    /\ CreateIndexEffect(INDEXES[at[p]])
    /\ Goto(p, "indexes", at[p] + 1)
    /\ UNCHANGED <<accepting, boots, faults, startedComplete>>

(* Mutant: a duplicate index is taken for the end of the work. *)
RefusedAsDone(p) ==
    /\ phase[p] = "create"
    /\ INDEXES[at[p]] \in indexes
    /\ Goto(p, "booted", 1)
    /\ UNCHANGED <<database, accepting, boots, faults, startedComplete>>

(* MySQL refuses a duplicate key name: migrate rejects, setUpDatabase closes the pool and rethrows, main exits 1. *)
CreateIndexRefused(p) ==
    /\ phase[p] = "create"
    /\ INDEXES[at[p]] \in indexes
    /\ Goto(p, "lost", 1)
    /\ UNCHANGED <<database, accepting, boots, faults, startedComplete>>

(***************************************************************************)
(* One step of several failing: a statement is refused or its connection   *)
(* breaks (setUpDatabase closes the pool and rethrows), or the process is  *)
(* killed.  Either may come after the statement took effect.               *)
(***************************************************************************)
Fault(p) ==
    /\ phase[p] \in Running
    /\ faults < MaxFaults
    /\ faults' = faults + 1
    /\ Goto(p, "failed", 1)
    /\ \/ UNCHANGED database
       \/ phase[p] = "tables" /\ at[p] <= Len(SCHEMA) /\ CreateTableEffect(SCHEMA[at[p]])
       \/ phase[p] = "alter" /\ AlterEffect(WIDENED_COLUMNS[at[p]])
       \/ phase[p] = "create" /\ CreateIndexEffect(INDEXES[at[p]])
    /\ UNCHANGED <<accepting, boots, startedComplete>>

Step(p) ==
    \/ Ping(p)
    \/ CreateTable(p)
    \/ LookUpColumn(p)
    \/ WidenColumn(p)
    \/ LookUpIndex(p)
    \/ CreateIndex(p)
    \/ CreateIndexRefused(p)

Next ==
    \/ DatabaseAccepts
    \/ \E p \in Instances : Boot(p) \/ Step(p) \/ Fault(p)

Spec == Init /\ [][Next]_vars

(***************************************************************************)
(* Every awaited statement is answered (or fails), so a boot in progress   *)
(* takes its next step; each instance is started at least once.  Nothing   *)
(* restarts an instance that failed, and nothing makes MySQL come up.      *)
(***************************************************************************)
Fairness ==
    \A p \in Instances :
        /\ WF_vars(Step(p))
        /\ WF_vars(boots[p] = 0 /\ Boot(p))

LiveSpec == Spec /\ Fairness

-----------------------------------------------------------------------------
(***************************************************************************)
(* An instance that finished setUpDatabase (and so goes on to bind its     *)
(* port) serves on a complete schema: every table, BIGINT money columns,   *)
(* every index, whatever the other instances and the faults did meanwhile. *)
(***************************************************************************)
BootedOnCompleteSchema ==
    (\E p \in Instances : phase[p] = "booted") => Complete

(***************************************************************************)
(* However boots overlap, die and are repeated, the CREATE INDEX race      *)
(* (README, known limitations) never takes down all of them: some instance *)
(* has not been refused its CREATE INDEX.                                  *)
(***************************************************************************)
NotAllLost == \E p \in Instances : phase[p] # "lost"

(***************************************************************************)
(* "Idempotent": a boot that began on a complete schema issues no ALTER    *)
(* and no CREATE INDEX, so it neither rebuilds a table nor loses the race. *)
(***************************************************************************)
QuietReboot ==
    \A p \in Instances : startedComplete[p] => phase[p] \notin {"alter", "create", "lost"}

(***************************************************************************)
(* "Widening must precede indexing" (migrate.ts): no index appears while a *)
(* column of its table is still narrow, whichever instance widened it.     *)
(***************************************************************************)
IndexOnlyAfterWidening ==
    [][\A ix \in indexes' \ indexes :
          \A c \in Columns : c.table = ix.table => columnType[c] = "bigint"]_vars

(***************************************************************************)
(* A migration never undoes what another instance's migration did: tables  *)
(* and indexes stay and no column is narrowed again.                       *)
(***************************************************************************)
SchemaOnlyGrows ==
    [][/\ tables \subseteq tables'
       /\ indexes \subseteq indexes'
       /\ \A c \in Columns : columnType[c] = "bigint" => columnType'[c] = "bigint"]_vars

(***************************************************************************)
(* Some boot gets through, or one failed for another reason than the race: *)
(* with MySQL up and no failing statement a deployment always ends with an *)
(* instance that serves.                                                   *)
(***************************************************************************)
SomeoneBoots ==
    <>(\E p \in Instances : phase[p] \in {"booted", "failed"})
=============================================================================
