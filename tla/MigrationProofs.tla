--------------------------- MODULE MigrationProofs ---------------------------
(***************************************************************************)
(* Proofs about Migration, for any number of instances and any lists of    *)
(* tables, columns and indexes.                                            *)
(*                                                                         *)
(* The argument for the CREATE INDEX race is a witness: at any time some   *)
(* instance is not "lost" and holds no out-of-date look-up result.  Only a *)
(* CREATE INDEX can make a look-up out of date, and the instance that just *)
(* executed one holds none, so it is the new witness.                      *)
(***************************************************************************)
EXTENDS Migration, TLAPS

AfterTables  == {"columns", "alter", "indexes", "create", "booted"}
AfterColumns == {"indexes", "create", "booted"}

(* What an instance has established about the schema when it is where it is. *)
TablesDone(p) ==
    /\ phase[p] = "tables" =>
          \A i \in 1..Len(SCHEMA) : i < at[p] => SCHEMA[i] \in tables
    /\ phase[p] \in AfterTables => tables = Tables

ColumnsDone(p) ==
    /\ phase[p] \in {"columns", "alter"} =>
          \A i \in 1..Len(WIDENED_COLUMNS) :
              i < at[p] => columnType[WIDENED_COLUMNS[i]] = "bigint"
    /\ phase[p] \in AfterColumns => \A c \in Columns : columnType[c] = "bigint"

IndexesDone(p) ==
    /\ phase[p] \in {"indexes", "create"} =>
          \A i \in 1..Len(INDEXES) : i < at[p] => INDEXES[i] \in indexes
    /\ phase[p] = "booted" => indexes = IndexSet

InRange(p) ==
    /\ phase[p] = "alter" => at[p] \in 1..Len(WIDENED_COLUMNS)
    /\ phase[p] = "create" => at[p] \in 1..Len(INDEXES)

(* A column of an existing table has a type. *)
ColumnsTyped == \A c \in Columns : c.table \in tables => columnType[c] # ""

(* p holds no look-up result that another instance has made out of date. *)
NoStaleLookUp(p) == phase[p] = "create" => INDEXES[at[p]] \notin indexes

Witness == \E p \in Instances : phase[p] # "lost" /\ NoStaleLookUp(p)

StartedCompleteInv ==
    \A p \in Instances :
        startedComplete[p] => Complete /\ phase[p] \notin {"alter", "create", "lost"}

Progress == \A p \in Instances : TablesDone(p) /\ ColumnsDone(p) /\ IndexesDone(p) /\ InRange(p)

IInv == TypeOK /\ ColumnsTyped /\ Progress /\ Witness /\ StartedCompleteInv

-----------------------------------------------------------------------------
(* The i-th entry of each list is one of its elements. *)
LEMMA ListFacts ==
    /\ Len(SCHEMA) \in Nat /\ Len(WIDENED_COLUMNS) \in Nat /\ Len(INDEXES) \in Nat
    /\ \A i \in 1..Len(SCHEMA) : SCHEMA[i] \in Tables
    /\ \A i \in 1..Len(WIDENED_COLUMNS) : WIDENED_COLUMNS[i] \in Columns
    /\ \A i \in 1..Len(INDEXES) : INDEXES[i] \in IndexSet
BY ListsAssumption DEF Tables, Columns, IndexSet, Elements

(* The table the first loop is at. *)
LEMMA SchemaEntry ==
    ASSUME TypeOK, NEW p \in Instances, at[p] <= Len(SCHEMA)
    PROVE  SCHEMA[at[p]] \in Tables
<1>1. at[p] \in Nat \ {0}
    BY DEF TypeOK
<1> QED
    BY <1>1, ListFacts

(* The statements that change the database, with what they need to be well defined. *)
DatabaseStep ==
    \/ UNCHANGED database
    \/ \E t \in Tables : CreateTableEffect(t)
    \/ \E c \in Columns : AlterEffect(c) 
    \/ \E ix \in IndexSet : CreateIndexEffect(ix)

(* Every step of the system leaves the database alone or executes one statement on it. *)
LEMMA StepsOfDatabase ==
    ASSUME TypeOK, Progress, [Next]_vars
    PROVE  DatabaseStep
<1>1. CASE UNCHANGED vars
    BY <1>1 DEF vars, database, DatabaseStep
<1>2. CASE DatabaseAccepts
    BY <1>2 DEF DatabaseAccepts, database, DatabaseStep
<1>3. ASSUME NEW p \in Instances, Boot(p) \/ Ping(p) \/ LookUpColumn(p) \/ LookUpIndex(p) \/ CreateIndexRefused(p)
      PROVE  DatabaseStep
    BY <1>3 DEF Boot, Ping, LookUpColumn, LookUpIndex, CreateIndexRefused, DatabaseStep
<1>4. ASSUME NEW p \in Instances, CreateTable(p)
      PROVE  DatabaseStep
    <2>1. CASE UNCHANGED database
        BY <2>1 DEF DatabaseStep
    <2>2. CASE at[p] <= Len(SCHEMA) /\ CreateTableEffect(SCHEMA[at[p]])
        BY <2>2, SchemaEntry DEF DatabaseStep
    <2> QED
        BY <1>4, <2>1, <2>2 DEF CreateTable
<1>5. ASSUME NEW p \in Instances, WidenColumn(p)
      PROVE  DatabaseStep
    <2>1. WIDENED_COLUMNS[at[p]] \in Columns
        BY <1>5, ListFacts DEF Progress, InRange, WidenColumn
    <2> QED
        BY <1>5, <2>1 DEF WidenColumn, DatabaseStep
<1>6. ASSUME NEW p \in Instances, CreateIndex(p)
      PROVE  DatabaseStep
    <2>1. INDEXES[at[p]] \in IndexSet
        BY <1>6, ListFacts DEF Progress, InRange, CreateIndex
    <2> QED
        BY <1>6, <2>1 DEF CreateIndex, DatabaseStep
<1>7. ASSUME NEW p \in Instances, Fault(p)
      PROVE  DatabaseStep
    <2>1. CASE UNCHANGED database
        BY <2>1 DEF DatabaseStep
    <2>2. CASE phase[p] = "tables" /\ at[p] <= Len(SCHEMA) /\ CreateTableEffect(SCHEMA[at[p]])
        BY <2>2, SchemaEntry DEF DatabaseStep
    <2>3. CASE phase[p] = "alter" /\ AlterEffect(WIDENED_COLUMNS[at[p]])
        <3>1. WIDENED_COLUMNS[at[p]] \in Columns
            BY <2>3, ListFacts DEF Progress, InRange
        <3> QED
            BY <2>3, <3>1 DEF DatabaseStep
    <2>4. CASE phase[p] = "create" /\ CreateIndexEffect(INDEXES[at[p]])
        <3>1. INDEXES[at[p]] \in IndexSet
            BY <2>4, ListFacts DEF Progress, InRange
        <3> QED
            BY <2>4, <3>1 DEF DatabaseStep
    <2> QED
        BY <1>7, <2>1, <2>2, <2>3, <2>4 DEF Fault
<1> QED
    BY <1>1, <1>2, <1>3, <1>4, <1>5, <1>6, <1>7 DEF Next, Step

(* One statement adds to the schema and takes nothing away. *)
SchemaGrows ==
    /\ tables \subseteq tables'
    /\ indexes \subseteq indexes'
    /\ \A c \in Columns : columnType[c] = "bigint" => columnType'[c] = "bigint"

(* The schema after a statement is well typed, has typed columns and contains the one before. *)
LEMMA DatabaseStepFacts ==
    ASSUME TypeOK, ColumnsTyped, DatabaseStep
    PROVE  /\ SchemaGrows
           /\ tables' \subseteq Tables
           /\ columnType' \in [Columns -> {"", "int", "bigint"}]
           /\ indexes' \subseteq IndexSet
           /\ ColumnsTyped'
<1>1. CASE UNCHANGED database
    BY <1>1 DEF database, TypeOK, ColumnsTyped, SchemaGrows
<1>2. ASSUME NEW t \in Tables, CreateTableEffect(t)
      PROVE  /\ SchemaGrows
             /\ tables' \subseteq Tables
             /\ columnType' \in [Columns -> {"", "int", "bigint"}]
             /\ indexes' \subseteq IndexSet
             /\ ColumnsTyped'
    BY <1>2 DEF CreateTableEffect, TypeOK, ColumnsTyped, SchemaGrows
<1>3. ASSUME NEW c \in Columns, AlterEffect(c)
      PROVE  /\ SchemaGrows
             /\ tables' \subseteq Tables
             /\ columnType' \in [Columns -> {"", "int", "bigint"}]
             /\ indexes' \subseteq IndexSet
             /\ ColumnsTyped'
    BY <1>3 DEF AlterEffect, TypeOK, ColumnsTyped, SchemaGrows
<1>4. ASSUME NEW ix \in IndexSet, CreateIndexEffect(ix)
      PROVE  /\ SchemaGrows
             /\ tables' \subseteq Tables
             /\ columnType' \in [Columns -> {"", "int", "bigint"}]
             /\ indexes' \subseteq IndexSet
             /\ ColumnsTyped'
    BY <1>4 DEF CreateIndexEffect, TypeOK, ColumnsTyped, SchemaGrows
<1> QED
    BY <1>1, <1>2, <1>3, <1>4 DEF DatabaseStep

-----------------------------------------------------------------------------
(* Goto moves one instance and nobody else. *)
LEMMA GotoFacts ==
    ASSUME TypeOK, NEW p \in Instances, NEW ph, NEW i, Goto(p, ph, i)
    PROVE  /\ phase'[p] = ph
           /\ at'[p] = i
           /\ \A q \in Instances : q # p => phase'[q] = phase[q] /\ at'[q] = at[q]
BY DEF TypeOK, Goto

LEMMA GotoTypes ==
    ASSUME TypeOK, NEW p \in Instances, NEW ph \in Phases, NEW i \in Nat \ {0}, Goto(p, ph, i)
    PROVE  phase' \in [Instances -> Phases] /\ at' \in [Instances -> Nat \ {0}]
BY DEF TypeOK, Goto

(* Positions are counted from 1. *)
LEMMA Positions ==
    ASSUME TypeOK, NEW p \in Instances
    PROVE  at[p] \in Nat \ {0} /\ at[p] + 1 \in Nat \ {0} /\ 1 \in Nat \ {0}
<1>1. at[p] \in Nat \ {0}
    BY DEF TypeOK
<1> QED
    BY <1>1

(* One more start, or one more fault, stays within its bound. *)
LEMMA Counters ==
    ASSUME TypeOK, NEW p \in Instances
    PROVE  /\ boots[p] < MaxBoots => boots[p] + 1 \in 0..MaxBoots
           /\ faults < MaxFaults => faults + 1 \in 0..MaxFaults
<1>1. boots[p] \in 0..MaxBoots /\ faults \in 0..MaxFaults
    BY DEF TypeOK
<1> QED
    BY <1>1, BoundsAssumption

(* A step of an instance moves it to a phase and a position. *)
LEMMA StepGoes ==
    ASSUME TypeOK, NEW p \in Instances, Boot(p) \/ Step(p) \/ Fault(p)
    PROVE  \E ph \in Phases, i \in Nat \ {0} : Goto(p, ph, i)
<1>0. at[p] \in Nat \ {0} /\ at[p] + 1 \in Nat \ {0} /\ 1 \in Nat \ {0}
    BY Positions
<1>1. Running \subseteq Phases /\ "booted" \in Phases /\ "lost" \in Phases /\ "failed" \in Phases
    BY DEF Phases
<1>2. "ping" \in Phases /\ "tables" \in Phases /\ "columns" \in Phases /\ "alter" \in Phases /\ "indexes" \in Phases /\ "create" \in Phases
    BY DEF Phases, Running
<1>3. CASE Boot(p)
    BY <1>3, <1>0, <1>2 DEF Boot
<1>4. CASE Ping(p)
    BY <1>4, <1>0, <1>1, <1>2 DEF Ping
<1>5. CASE CreateTable(p)
    BY <1>5, <1>0, <1>2 DEF CreateTable
<1>6. CASE LookUpColumn(p)
    BY <1>6, <1>0, <1>2 DEF LookUpColumn
<1>7. CASE WidenColumn(p)
    BY <1>7, <1>0, <1>2 DEF WidenColumn
<1>8. CASE LookUpIndex(p)
    BY <1>8, <1>0, <1>1, <1>2 DEF LookUpIndex
<1>9. CASE CreateIndex(p)
    BY <1>9, <1>0, <1>2 DEF CreateIndex
<1>10. CASE CreateIndexRefused(p)
    BY <1>10, <1>0, <1>1 DEF CreateIndexRefused
<1>11. CASE Fault(p)
    BY <1>11, <1>0, <1>1 DEF Fault
<1> QED
    BY <1>3, <1>4, <1>5, <1>6, <1>7, <1>8, <1>9, <1>10, <1>11 DEF Step

(* The type invariant survives every step. *)
LEMMA TypeStep ==
    ASSUME TypeOK, ColumnsTyped, Progress, [Next]_vars
    PROVE  TypeOK'
<1>1. DatabaseStep
    BY StepsOfDatabase
<1>2. tables' \subseteq Tables /\ columnType' \in [Columns -> {"", "int", "bigint"}] /\ indexes' \subseteq IndexSet
    BY <1>1, DatabaseStepFacts
<1>3. CASE UNCHANGED vars
    BY <1>2, <1>3 DEF vars, TypeOK
<1>4. CASE DatabaseAccepts
    BY <1>2, <1>4 DEF DatabaseAccepts, instance, TypeOK
<1>5. ASSUME NEW p \in Instances, Boot(p) \/ Step(p) \/ Fault(p)
      PROVE  TypeOK'
    <2>1. phase' \in [Instances -> Phases] /\ at' \in [Instances -> Nat \ {0}]
        BY <1>5, StepGoes, GotoTypes
    <2>2. CASE Boot(p)
        <3>1. boots' \in [Instances -> 0..MaxBoots]
            BY <2>2, Counters DEF Boot, TypeOK
        <3>2. startedComplete' \in [Instances -> BOOLEAN]
            BY <2>2 DEF Boot, TypeOK, Complete
        <3> QED
            BY <1>2, <2>1, <2>2, <3>1, <3>2 DEF Boot, TypeOK
    <2>3. CASE Step(p)
        <3>1. UNCHANGED <<accepting, boots, faults, startedComplete>>
            BY <2>3 DEF Step, Ping, CreateTable, LookUpColumn, WidenColumn, LookUpIndex, CreateIndex, CreateIndexRefused
        <3> QED
            BY <1>2, <2>1, <3>1 DEF TypeOK
    <2>4. CASE Fault(p)
        <3>1. UNCHANGED <<accepting, boots, startedComplete>> /\ faults' \in 0..MaxFaults
            BY <2>4, Counters DEF Fault
        <3> QED
            BY <1>2, <2>1, <3>1 DEF TypeOK
    <2> QED
        BY <1>5, <2>2, <2>3, <2>4
<1> QED
    BY <1>3, <1>4, <1>5 DEF Next

(* What one instance has established survives a step in which it does not move, because the schema only grows. *)
LEMMA ProgressOfOthers ==
    ASSUME TypeOK, TypeOK', SchemaGrows, NEW q \in Instances,
           phase'[q] = phase[q], at'[q] = at[q],
           TablesDone(q), ColumnsDone(q), IndexesDone(q), InRange(q)
    PROVE  TablesDone(q)' /\ ColumnsDone(q)' /\ IndexesDone(q)' /\ InRange(q)'
<1>1. TablesDone(q)'
    BY DEF TypeOK, SchemaGrows, TablesDone
<1>2. ColumnsDone(q)'
    BY ListFacts DEF TypeOK, SchemaGrows, ColumnsDone
<1>3. IndexesDone(q)'
    BY DEF TypeOK, SchemaGrows, IndexesDone
<1>4. InRange(q)'
    BY DEF InRange
<1> QED
    BY <1>1, <1>2, <1>3, <1>4

(* The instance that moves establishes what its new place in the boot asks for. *)
LEMMA ProgressOfMover ==
    ASSUME TypeOK, ColumnsTyped, SchemaGrows, DatabaseStep, NEW p \in Instances,
           Boot(p) \/ Step(p) \/ Fault(p),
           TablesDone(p), ColumnsDone(p), IndexesDone(p), InRange(p)
    PROVE  TablesDone(p)' /\ ColumnsDone(p)' /\ IndexesDone(p)' /\ InRange(p)'
<1>0. /\ at[p] \in Nat \ {0}
      /\ tables \subseteq Tables /\ tables' \subseteq Tables
      /\ indexes \subseteq IndexSet /\ indexes' \subseteq IndexSet
    BY DatabaseStepFacts DEF TypeOK
<1>1. ASSUME phase'[p] \in {"ping", "lost", "failed"}
      PROVE  TablesDone(p)' /\ ColumnsDone(p)' /\ IndexesDone(p)' /\ InRange(p)'
    BY <1>1 DEF TablesDone, ColumnsDone, IndexesDone, InRange, AfterTables, AfterColumns
<1>2. CASE Boot(p) \/ CreateIndexRefused(p) \/ Fault(p)
    <2>1. phase'[p] \in {"ping", "lost", "failed"}
        BY <1>2, GotoFacts DEF Boot, CreateIndexRefused, Fault
    <2> QED
        BY <1>1, <2>1
<1>3. CASE Ping(p)
    <2>1. phase'[p] \in {"ping", "lost", "failed"} \/ (phase'[p] = "tables" /\ at'[p] = 1)
        <3>1. Goto(p, "tables", 1) \/ Goto(p, "ping", at[p] + 1) \/ Goto(p, "failed", 1)
            BY <1>3 DEF Ping
        <3>2. CASE Goto(p, "tables", 1)
            BY <3>2, GotoFacts
        <3>3. CASE Goto(p, "ping", at[p] + 1)
            BY <3>3, GotoFacts
        <3>4. CASE Goto(p, "failed", 1)
            BY <3>4, GotoFacts
        <3> QED
            BY <3>1, <3>2, <3>3, <3>4
    <2>2. CASE phase'[p] = "tables" /\ at'[p] = 1
        BY <2>2, ListFacts DEF TablesDone, ColumnsDone, IndexesDone, InRange, AfterTables, AfterColumns
    <2> QED
        BY <1>1, <2>1, <2>2
<1>4. CASE CreateTable(p)
    <2>0. phase[p] = "tables"
        BY <1>4 DEF CreateTable
    <2>1. CASE at[p] <= Len(SCHEMA) /\ CreateTableEffect(SCHEMA[at[p]]) /\ Goto(p, "tables", at[p] + 1)
        <3>1. phase'[p] = "tables" /\ at'[p] = at[p] + 1
            BY <2>1, GotoFacts
        <3>2. SCHEMA[at[p]] \in tables' /\ tables \subseteq tables'
            BY <2>1 DEF CreateTableEffect
        <3>3. \A i \in 1..Len(SCHEMA) : i < at'[p] => SCHEMA[i] \in tables'
            <4> SUFFICES ASSUME NEW i \in 1..Len(SCHEMA), i < at[p] + 1
                         PROVE  SCHEMA[i] \in tables'
                BY <3>1
            <4>1. i = at[p] \/ i < at[p]
                BY <1>0
            <4> QED
                BY <4>1, <3>2, <2>0 DEF TablesDone
        <3> QED
            BY <3>1, <3>3 DEF TablesDone, ColumnsDone, IndexesDone, InRange, AfterTables, AfterColumns
    <2>2. CASE at[p] > Len(SCHEMA) /\ Goto(p, "columns", 1) /\ UNCHANGED database
        <3>1. phase'[p] = "columns" /\ at'[p] = 1
            BY <2>2, GotoFacts
        <3>2. \A i \in 1..Len(SCHEMA) : SCHEMA[i] \in tables
            BY <2>0, <2>2, <1>0, ListFacts DEF TablesDone
        <3>3. tables' = Tables
            BY <3>2, <2>2, <1>0 DEF Tables, Elements, database
        <3> QED
            BY <3>1, <3>3, ListFacts DEF TablesDone, ColumnsDone, IndexesDone, InRange, AfterColumns
    <2> QED
        BY <1>4, <2>1, <2>2 DEF CreateTable
<1>5. CASE LookUpColumn(p)
    <2>0. phase[p] = "columns" /\ UNCHANGED <<tables, columnType, indexes>>
        BY <1>5 DEF LookUpColumn, database
    <2>1. tables = Tables /\ tables' = Tables
        BY <2>0 DEF TablesDone, AfterTables
    <2>2. \A i \in 1..Len(WIDENED_COLUMNS) : i < at[p] => columnType[WIDENED_COLUMNS[i]] = "bigint"
        BY <2>0 DEF ColumnsDone
    <2>3. CASE at[p] > Len(WIDENED_COLUMNS) /\ Goto(p, "indexes", 1)
        <3>1. phase'[p] = "indexes" /\ at'[p] = 1
            BY <2>3, GotoFacts
        <3>2. \A i \in 1..Len(WIDENED_COLUMNS) : columnType[WIDENED_COLUMNS[i]] = "bigint"
            BY <2>2, <2>3, <1>0, ListFacts
        <3>3. \A c \in Columns : columnType'[c] = "bigint"
            BY <3>2, <2>0 DEF Columns, Elements
        <3> QED
            BY <3>1, <3>3, <2>1, ListFacts DEF TablesDone, ColumnsDone, IndexesDone, InRange
    <2>4. CASE at[p] <= Len(WIDENED_COLUMNS) /\ NeedsWidening(WIDENED_COLUMNS[at[p]]) /\ Goto(p, "alter", at[p])
        <3>1. phase'[p] = "alter" /\ at'[p] = at[p]
            BY <2>4, GotoFacts
        <3>2. at[p] \in 1..Len(WIDENED_COLUMNS)
            BY <2>4, <1>0, ListFacts
        <3> QED
            BY <3>1, <3>2, <2>0, <2>1, <2>2 DEF TablesDone, ColumnsDone, IndexesDone, InRange, AfterColumns
    <2>5. CASE at[p] <= Len(WIDENED_COLUMNS) /\ ~NeedsWidening(WIDENED_COLUMNS[at[p]]) /\ Goto(p, "columns", at[p] + 1)
        <3>1. phase'[p] = "columns" /\ at'[p] = at[p] + 1
            BY <2>5, GotoFacts
        <3>2. WIDENED_COLUMNS[at[p]] \in Columns
            BY <2>5, <1>0, ListFacts
        <3>3. columnType[WIDENED_COLUMNS[at[p]]] = "bigint"
            BY <2>1, <2>5, <3>2, ListsAssumption DEF NeedsWidening, ColumnsTyped
        <3>4. \A i \in 1..Len(WIDENED_COLUMNS) : i < at'[p] => columnType'[WIDENED_COLUMNS[i]] = "bigint"
            <4> SUFFICES ASSUME NEW i \in 1..Len(WIDENED_COLUMNS), i < at[p] + 1
                         PROVE  columnType[WIDENED_COLUMNS[i]] = "bigint"
                BY <3>1, <2>0
            <4>1. i = at[p] \/ i < at[p]
                BY <1>0
            <4> QED
                BY <4>1, <3>3, <2>2
        <3> QED
            BY <3>1, <3>4, <2>1 DEF TablesDone, ColumnsDone, IndexesDone, InRange, AfterColumns
    <2> QED
        BY <1>5, <2>3, <2>4, <2>5 DEF LookUpColumn
<1>6. CASE WidenColumn(p)
    <2>0. phase[p] = "alter" /\ phase'[p] = "columns" /\ at'[p] = at[p] + 1
        BY <1>6, GotoFacts DEF WidenColumn
    <2>1. WIDENED_COLUMNS[at[p]] \in Columns
        BY <2>0, ListFacts DEF InRange
    <2>2. columnType'[WIDENED_COLUMNS[at[p]]] = "bigint"
        BY <1>6, <2>1 DEF WidenColumn, AlterEffect, TypeOK
    <2>3. \A i \in 1..Len(WIDENED_COLUMNS) : i < at'[p] => columnType'[WIDENED_COLUMNS[i]] = "bigint"
        <3> SUFFICES ASSUME NEW i \in 1..Len(WIDENED_COLUMNS), i < at[p] + 1
                     PROVE  columnType'[WIDENED_COLUMNS[i]] = "bigint"
            BY <2>0
        <3>1. i = at[p] \/ i < at[p]
            BY <1>0
        <3>2. CASE i < at[p]
            BY <3>2, <2>0, ListFacts DEF ColumnsDone, SchemaGrows
        <3> QED
            BY <3>1, <3>2, <2>2
    <2>4. tables' = Tables
        BY <1>6, <2>0 DEF WidenColumn, AlterEffect, TablesDone, AfterTables
    <2> QED
        BY <2>0, <2>3, <2>4 DEF TablesDone, ColumnsDone, IndexesDone, InRange, AfterColumns
<1>7. CASE LookUpIndex(p)
    <2>0. phase[p] = "indexes" /\ UNCHANGED <<tables, columnType, indexes>>
        BY <1>7 DEF LookUpIndex, database
    <2>1. tables' = Tables /\ (\A c \in Columns : columnType'[c] = "bigint")
        BY <2>0 DEF TablesDone, ColumnsDone, AfterTables, AfterColumns
    <2>2. \A i \in 1..Len(INDEXES) : i < at[p] => INDEXES[i] \in indexes'
        BY <2>0 DEF IndexesDone
    <2>3. CASE at[p] > Len(INDEXES) /\ Goto(p, "booted", 1)
        <3>1. phase'[p] = "booted"
            BY <2>3, GotoFacts
        <3>2. \A i \in 1..Len(INDEXES) : INDEXES[i] \in indexes'
            BY <2>2, <2>3, <1>0, ListFacts
        <3>3. indexes' = IndexSet
            BY <3>2, <1>0 DEF IndexSet, Elements
        <3> QED
            BY <3>1, <3>3, <2>1 DEF TablesDone, ColumnsDone, IndexesDone, InRange
    <2>4. CASE at[p] <= Len(INDEXES) /\ INDEXES[at[p]] \in indexes /\ Goto(p, "indexes", at[p] + 1)
        <3>1. phase'[p] = "indexes" /\ at'[p] = at[p] + 1
            BY <2>4, GotoFacts
        <3>2. \A i \in 1..Len(INDEXES) : i < at'[p] => INDEXES[i] \in indexes'
            <4> SUFFICES ASSUME NEW i \in 1..Len(INDEXES), i < at[p] + 1
                         PROVE  INDEXES[i] \in indexes'
                BY <3>1
            <4>1. i = at[p] \/ i < at[p]
                BY <1>0
            <4> QED
                BY <4>1, <2>0, <2>2, <2>4
        <3> QED
            BY <3>1, <3>2, <2>1 DEF TablesDone, ColumnsDone, IndexesDone, InRange
    <2>5. CASE at[p] <= Len(INDEXES) /\ INDEXES[at[p]] \notin indexes /\ Goto(p, "create", at[p])
        <3>1. phase'[p] = "create" /\ at'[p] = at[p]
            BY <2>5, GotoFacts
        <3>2. at[p] \in 1..Len(INDEXES)
            BY <2>5, <1>0, ListFacts
        <3> QED
            BY <3>1, <3>2, <2>1, <2>2 DEF TablesDone, ColumnsDone, IndexesDone, InRange
    <2> QED
        BY <1>7, <2>3, <2>4, <2>5 DEF LookUpIndex
<1>8. CASE CreateIndex(p)
    <2>0. phase[p] = "create" /\ phase'[p] = "indexes" /\ at'[p] = at[p] + 1
        BY <1>8, GotoFacts DEF CreateIndex
    <2>1. tables' = Tables /\ (\A c \in Columns : columnType'[c] = "bigint")
        BY <1>8, <2>0 DEF CreateIndex, CreateIndexEffect, TablesDone, ColumnsDone, AfterTables, AfterColumns
    <2>2. \A i \in 1..Len(INDEXES) : i < at'[p] => INDEXES[i] \in indexes'
        <3> SUFFICES ASSUME NEW i \in 1..Len(INDEXES), i < at[p] + 1
                     PROVE  INDEXES[i] \in indexes'
            BY <2>0
        <3>1. i = at[p] \/ i < at[p]
            BY <1>0
        <3>2. INDEXES[at[p]] \in indexes' /\ indexes \subseteq indexes'
            BY <1>8 DEF CreateIndex, CreateIndexEffect
        <3> QED
            BY <3>1, <3>2, <2>0 DEF IndexesDone
    <2> QED
        BY <2>0, <2>1, <2>2 DEF TablesDone, ColumnsDone, IndexesDone, InRange
<1> QED
    BY <1>2, <1>3, <1>4, <1>5, <1>6, <1>7, <1>8 DEF Step

(* What every instance has established survives every step. *)
LEMMA ProgressStep ==
    ASSUME TypeOK, TypeOK', ColumnsTyped, Progress, SchemaGrows, DatabaseStep, [Next]_vars
    PROVE  Progress'
<1> SUFFICES ASSUME NEW q \in Instances
             PROVE  TablesDone(q)' /\ ColumnsDone(q)' /\ IndexesDone(q)' /\ InRange(q)'
    BY DEF Progress
<1>0. TablesDone(q) /\ ColumnsDone(q) /\ IndexesDone(q) /\ InRange(q)
    BY DEF Progress
<1>1. CASE UNCHANGED vars \/ DatabaseAccepts
    <2>1. phase'[q] = phase[q] /\ at'[q] = at[q]
        BY <1>1 DEF vars, DatabaseAccepts, instance
    <2> QED
        BY <1>0, <2>1, ProgressOfOthers
<1>2. ASSUME NEW p \in Instances, Boot(p) \/ Step(p) \/ Fault(p)
      PROVE  TablesDone(q)' /\ ColumnsDone(q)' /\ IndexesDone(q)' /\ InRange(q)'
    <2>1. CASE q = p
        BY <1>0, <1>2, <2>1, ProgressOfMover
    <2>2. CASE q # p
        <3>1. phase'[q] = phase[q] /\ at'[q] = at[q]
            BY <1>2, <2>2, StepGoes, GotoFacts
        <3> QED
            BY <1>0, <3>1, ProgressOfOthers
    <2> QED
        BY <2>1, <2>2
<1> QED
    BY <1>1, <1>2 DEF Next

(***************************************************************************)
(* The witness survives every step.  An instance that executes CREATE      *)
(* INDEX, even one that dies of it, is a new witness; in any other step    *)
(* the indexes stay the same and the old witness remains one.              *)
(***************************************************************************)
LEMMA WitnessStep ==
    ASSUME TypeOK, Witness, [Next]_vars
    PROVE  Witness'
<1>1. PICK w \in Instances : phase[w] # "lost" /\ NoStaleLookUp(w)
    BY DEF Witness
<1>2. ASSUME UNCHANGED indexes, phase'[w] = phase[w], at'[w] = at[w]
      PROVE  Witness'
    BY <1>1, <1>2 DEF Witness, NoStaleLookUp
<1>3. CASE UNCHANGED vars \/ DatabaseAccepts
    BY <1>2, <1>3 DEF vars, DatabaseAccepts, database, instance
<1>4. ASSUME NEW p \in Instances, phase'[p] \notin {"lost", "create"}
      PROVE  Witness'
    BY <1>4 DEF Witness, NoStaleLookUp
<1>5. ASSUME NEW p \in Instances, Boot(p) \/ CreateIndex(p) \/ Fault(p)
      PROVE  Witness'
    <2>1. phase'[p] \notin {"lost", "create"}
        BY <1>5, GotoFacts DEF Boot, CreateIndex, Fault
    <2> QED
        BY <1>4, <2>1
<1>6. ASSUME NEW p \in Instances, Ping(p) \/ CreateTable(p) \/ LookUpColumn(p) \/ WidenColumn(p) \/ LookUpIndex(p) \/ CreateIndexRefused(p)
      PROVE  Witness'
    <2>1. UNCHANGED indexes
        BY <1>6 DEF Ping, CreateTable, LookUpColumn, WidenColumn, LookUpIndex, CreateIndexRefused, database, CreateTableEffect, AlterEffect
    <2>2. CASE p # w
        <3>1. phase'[w] = phase[w] /\ at'[w] = at[w]
            BY <1>6, <2>2, StepGoes, GotoFacts DEF Step
        <3> QED
            BY <1>2, <2>1, <3>1
    <2>3. CASE p = w /\ Ping(p)
        <3>1. Goto(p, "tables", 1) \/ Goto(p, "ping", at[p] + 1) \/ Goto(p, "failed", 1)
            BY <2>3 DEF Ping
        <3>2. phase'[p] = "tables" \/ phase'[p] = "ping" \/ phase'[p] = "failed"
            BY <3>1, GotoFacts
        <3> QED
            BY <1>4, <3>2
    <2>4. CASE p = w /\ CreateTable(p)
        <3>1. Goto(p, "tables", at[p] + 1) \/ Goto(p, "columns", 1)
            BY <2>4 DEF CreateTable
        <3>2. phase'[p] = "tables" \/ phase'[p] = "columns"
            BY <3>1, GotoFacts
        <3> QED
            BY <1>4, <3>2
    <2>5. CASE p = w /\ (LookUpColumn(p) \/ WidenColumn(p))
        <3>1. Goto(p, "alter", at[p]) \/ Goto(p, "columns", at[p] + 1) \/ Goto(p, "indexes", 1)
            BY <2>5 DEF LookUpColumn, WidenColumn
        <3>2. phase'[p] = "alter" \/ phase'[p] = "columns" \/ phase'[p] = "indexes"
            BY <3>1, GotoFacts
        <3> QED
            BY <1>4, <3>2
    <2>6. CASE p = w /\ LookUpIndex(p)
        <3>1. CASE Goto(p, "indexes", at[p] + 1) \/ Goto(p, "booted", 1)
            <4>1. phase'[p] = "indexes" \/ phase'[p] = "booted"
                BY <3>1, GotoFacts
            <4> QED
                BY <1>4, <4>1
        <3>2. CASE INDEXES[at[p]] \notin indexes /\ Goto(p, "create", at[p])
            <4>1. phase'[p] = "create" /\ at'[p] = at[p]
                BY <3>2, GotoFacts
            <4>2. NoStaleLookUp(p)'
                BY <3>2, <4>1, <2>1 DEF NoStaleLookUp
            <4> QED
                BY <4>1, <4>2 DEF Witness
        <3> QED
            BY <2>6, <3>1, <3>2 DEF LookUpIndex
    <2>7. CASE p = w /\ CreateIndexRefused(p)
        BY <1>1, <2>7 DEF CreateIndexRefused, NoStaleLookUp
    <2> QED
        BY <1>6, <2>2, <2>3, <2>4, <2>5, <2>6, <2>7
<1> QED
    BY <1>3, <1>5, <1>6 DEF Next, Step

(* A complete schema stays complete, and a boot that found it so has no DDL to issue. *)
LEMMA StartedCompleteStep ==
    ASSUME TypeOK, Progress, StartedCompleteInv, SchemaGrows, DatabaseStep, ColumnsTyped, [Next]_vars
    PROVE  StartedCompleteInv'
<1>0. Complete => Complete'
    BY DatabaseStepFacts DEF Complete, SchemaGrows
<1> SUFFICES ASSUME NEW q \in Instances, startedComplete'[q]
             PROVE  Complete' /\ phase'[q] \notin {"alter", "create", "lost"}
    BY DEF StartedCompleteInv
<1>1. ASSUME startedComplete[q], phase'[q] = phase[q]
      PROVE  Complete' /\ phase'[q] \notin {"alter", "create", "lost"}
    BY <1>0, <1>1 DEF StartedCompleteInv
<1>2. CASE UNCHANGED vars \/ DatabaseAccepts
    BY <1>1, <1>2 DEF vars, DatabaseAccepts, instance
<1>3. ASSUME NEW p \in Instances, Boot(p)
      PROVE  Complete' /\ phase'[q] \notin {"alter", "create", "lost"}
    <2>1. CASE q = p
        <3>1. Complete /\ phase'[q] = "ping"
            BY <1>3, <2>1, GotoFacts DEF Boot, TypeOK
        <3> QED
            BY <1>0, <3>1
    <2>2. CASE q # p
        <3>1. startedComplete[q] /\ phase'[q] = phase[q]
            BY <1>3, <2>2, GotoFacts DEF Boot, TypeOK
        <3> QED
            BY <1>1, <3>1
    <2> QED
        BY <2>1, <2>2
<1>4. ASSUME NEW p \in Instances, Step(p) \/ Fault(p)
      PROVE  Complete' /\ phase'[q] \notin {"alter", "create", "lost"}
    <2>0. startedComplete[q]
        BY <1>4 DEF Step, Fault, Ping, CreateTable, LookUpColumn, WidenColumn, LookUpIndex, CreateIndex, CreateIndexRefused
    <2>1. CASE q # p
        <3>1. phase'[q] = phase[q]
            BY <1>4, <2>1, StepGoes, GotoFacts
        <3> QED
            BY <1>1, <2>0, <3>1
    <2>2. CASE q = p
        <3>1. Complete /\ Complete' /\ phase[p] \notin {"alter", "create", "lost"}
            BY <1>0, <2>0, <2>2 DEF StartedCompleteInv
        <3>2. CASE Fault(p) \/ WidenColumn(p) \/ CreateIndex(p) \/ CreateIndexRefused(p)
            BY <3>1, <3>2, <2>2, GotoFacts DEF Fault, WidenColumn, CreateIndex, CreateIndexRefused
        <3>3. CASE Ping(p)
            <4>1. Goto(p, "tables", 1) \/ Goto(p, "ping", at[p] + 1) \/ Goto(p, "failed", 1)
                BY <3>3 DEF Ping
            <4>2. phase'[p] = "tables" \/ phase'[p] = "ping" \/ phase'[p] = "failed"
                BY <4>1, GotoFacts
            <4> QED
                BY <3>1, <4>2, <2>2
        <3>4. CASE CreateTable(p)
            <4>1. Goto(p, "tables", at[p] + 1) \/ Goto(p, "columns", 1)
                BY <3>4 DEF CreateTable
            <4>2. phase'[p] = "tables" \/ phase'[p] = "columns"
                BY <4>1, GotoFacts
            <4> QED
                BY <3>1, <4>2, <2>2
        <3>5. CASE LookUpColumn(p)
            <4>1. Goto(p, "columns", at[p] + 1) \/ Goto(p, "indexes", 1)
                <5>1. CASE at[p] <= Len(WIDENED_COLUMNS)
                    <6>1. WIDENED_COLUMNS[at[p]] \in Columns
                        BY <5>1, Positions, ListFacts
                    <6>2. ~NeedsWidening(WIDENED_COLUMNS[at[p]])
                        BY <6>1, <3>1 DEF NeedsWidening, Complete
                    <6> QED
                        BY <3>5, <6>2 DEF LookUpColumn
                <5> QED
                    BY <3>5, <5>1 DEF LookUpColumn
            <4>2. phase'[p] = "columns" \/ phase'[p] = "indexes"
                BY <4>1, GotoFacts
            <4> QED
                BY <3>1, <4>2, <2>2
        <3>6. CASE LookUpIndex(p)
            <4>1. Goto(p, "indexes", at[p] + 1) \/ Goto(p, "booted", 1)
                <5>1. CASE at[p] <= Len(INDEXES)
                    <6>1. INDEXES[at[p]] \in indexes
                        BY <5>1, <3>1, Positions, ListFacts DEF Complete
                    <6> QED
                        BY <3>6, <6>1 DEF LookUpIndex
                <5> QED
                    BY <3>6, <5>1 DEF LookUpIndex
            <4>2. phase'[p] = "indexes" \/ phase'[p] = "booted"
                BY <4>1, GotoFacts
            <4> QED
                BY <3>1, <4>2, <2>2
        <3> QED
            BY <1>4, <3>2, <3>3, <3>4, <3>5, <3>6 DEF Step
    <2> QED
        BY <2>1, <2>2
<1> QED
    BY <1>2, <1>3, <1>4 DEF Next

-----------------------------------------------------------------------------
(* IInv is an inductive invariant of Migration. *)
THEOREM Inductive == Spec => []IInv
<1>1. Init => IInv
    <2> SUFFICES ASSUME Init
                 PROVE  IInv
        OBVIOUS
    <2>1. TypeOK
        <3>1. /\ tables \subseteq Tables
              /\ columnType \in [Columns -> {"", "int", "bigint"}]
              /\ indexes \subseteq IndexSet
            BY DEF Init, FreshDatabase, LegacyDatabase, CurrentDatabase
        <3>2. phase \in [Instances -> Phases] /\ startedComplete \in [Instances -> BOOLEAN]
            BY DEF Init, Phases
        <3>3. at \in [Instances -> Nat \ {0}] /\ boots \in [Instances -> 0..MaxBoots] /\ faults \in 0..MaxFaults
            BY BoundsAssumption DEF Init
        <3> QED
            BY <3>1, <3>2, <3>3 DEF Init, TypeOK
    <2>2. ColumnsTyped
        BY DEF Init, ColumnsTyped, FreshDatabase, LegacyDatabase, CurrentDatabase
    <2>3. \A p \in Instances : phase[p] = "off" /\ ~startedComplete[p]
        BY DEF Init
    <2>4. Progress
        BY <2>3 DEF Progress, TablesDone, ColumnsDone, IndexesDone, InRange, AfterTables, AfterColumns
    <2>5. Witness
        BY <2>3, InstancesAssumption DEF Witness, NoStaleLookUp
    <2>6. StartedCompleteInv
        BY <2>3 DEF StartedCompleteInv
    <2> QED
        BY <2>1, <2>2, <2>4, <2>5, <2>6 DEF IInv
<1>2. IInv /\ [Next]_vars => IInv'
    <2> SUFFICES ASSUME TypeOK, ColumnsTyped, Progress, Witness, StartedCompleteInv, [Next]_vars
                 PROVE  IInv'
        BY DEF IInv
    <2>1. DatabaseStep
        BY StepsOfDatabase
    <2>2. SchemaGrows /\ ColumnsTyped'
        BY <2>1, DatabaseStepFacts
    <2>3. TypeOK'
        BY TypeStep
    <2>4. Progress'
        BY <2>1, <2>2, <2>3, ProgressStep
    <2>5. Witness'
        BY WitnessStep
    <2>6. StartedCompleteInv'
        BY <2>1, <2>2, StartedCompleteStep
    <2> QED
        BY <2>2, <2>3, <2>4, <2>5, <2>6 DEF IInv
<1> QED
    BY <1>1, <1>2, PTL DEF Spec

(* The boot's variables keep their types. *)
THEOREM TypeCorrect == Spec => []TypeOK
<1>1. IInv => TypeOK
    BY DEF IInv
<1> QED
    BY <1>1, Inductive, PTL

(* An instance that gets past setUpDatabase serves on a complete schema (migrate, setUpDatabase). *)
THEOREM BootedIsComplete == Spec => []BootedOnCompleteSchema
<1>1. IInv => BootedOnCompleteSchema
    BY DEF IInv, Progress, TablesDone, ColumnsDone, IndexesDone, AfterTables, AfterColumns, BootedOnCompleteSchema, Complete
<1> QED
    BY <1>1, Inductive, PTL

(* The CREATE INDEX race never refuses every instance, however many boot, die and are restarted. *)
THEOREM RaceHasASurvivor == Spec => []NotAllLost
<1>1. IInv => NotAllLost
    BY DEF IInv, Witness, NotAllLost
<1> QED
    BY <1>1, Inductive, PTL

(* A boot on a complete schema issues no ALTER and no CREATE INDEX (migrate is idempotent). *)
THEOREM RebootIsQuiet == Spec => []QuietReboot
<1>1. IInv => QuietReboot
    BY DEF IInv, StartedCompleteInv, QuietReboot
<1> QED
    BY <1>1, Inductive, PTL

(* No boot undoes what another one's migration did. *)
THEOREM MigrationOnlyGrows == Spec => SchemaOnlyGrows
<1>1. IInv /\ [Next]_vars =>
          [/\ tables \subseteq tables'
           /\ indexes \subseteq indexes'
           /\ \A c \in Columns : columnType[c] = "bigint" => columnType'[c] = "bigint"]_vars
    <2> SUFFICES ASSUME TypeOK, ColumnsTyped, Progress, [Next]_vars
                 PROVE  SchemaGrows
        BY DEF IInv, SchemaGrows
    <2> QED
        BY StepsOfDatabase, DatabaseStepFacts
<1> QED
    BY <1>1, Inductive, PTL DEF Spec, SchemaOnlyGrows

(* An index appears only when the columns of its table are wide, whichever instance widened them. *)
THEOREM WideningPrecedesIndexing == Spec => IndexOnlyAfterWidening
<1>1. IInv /\ [Next]_vars =>
          [\A ix \in indexes' \ indexes :
              \A c \in Columns : c.table = ix.table => columnType[c] = "bigint"]_vars
    <2> SUFFICES ASSUME TypeOK, Progress, [Next]_vars, indexes' # indexes
                 PROVE  \A c \in Columns : columnType[c] = "bigint"
        BY DEF IInv
    <2>1. \E p \in Instances : phase[p] = "create"
        BY DEF Next, vars, DatabaseAccepts, Boot, Step, Fault, Ping, CreateTable, LookUpColumn, WidenColumn,
               LookUpIndex, CreateIndex, CreateIndexRefused, database, CreateTableEffect, AlterEffect
    <2> QED
        BY <2>1 DEF Progress, ColumnsDone, AfterColumns
<1> QED
    BY <1>1, Inductive, PTL DEF Spec, IndexOnlyAfterWidening
=============================================================================
