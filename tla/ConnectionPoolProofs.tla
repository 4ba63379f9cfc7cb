------------------------ MODULE ConnectionPoolProofs ------------------------
(***************************************************************************)
(* Proofs about ConnectionPool, for any number of statements, any finite   *)
(* number of connections, any limit on them and any lifetime.              *)
(*                                                                         *)
(* Every open connection has one owner: the pool, or the statement it was  *)
(* given to.  A connection or a place that comes free goes to the first in *)
(* the queue, if there is one, so that while anybody is queued nothing is  *)
(* free, and the places of the pool that are not open are spoken for by    *)
(* statements that are about to ask.                                       *)
(***************************************************************************)
EXTENDS ConnectionPool, FiniteSetTheorems, TLAPS

Asking == {s \in Statements : place[s] = "asking"}

(* A statement has a connection while it is connecting, given one, or running. *)
Holding == \A s \in Statements : holds[s] # None <=> place[s] \in {"connecting", "given", "running"}

(* The queue holds statements that are queued, each once. *)
Queued ==
    /\ \A i \in 1..Len(queue) : place[queue[i]] = "queued"
    /\ \A i, j \in 1..Len(queue) : queue[i] = queue[j] => i = j

(* A connection that can be handed over has SET time_zone behind it, or queued. *)
Zoned ==
    /\ \A c \in free : zone[c] # "server"
    /\ \A s \in Statements : place[s] \in {"given", "running"} => zone[holds[s]] # "server"

IInv ==
    /\ TypeOK /\ IsFiniteSet(Asking)
    /\ Holding /\ Queued /\ NoLeak /\ NobodyWaitsForNothing
    /\ Zoned /\ RunsInUtc

-----------------------------------------------------------------------------
(* The open connections can be counted. *)
LEMMA OpenIsFinite ==
    ASSUME NEW S \in SUBSET Connections
    PROVE  IsFiniteSet(S) /\ Cardinality(S) \in Nat
BY PoolAssumption, FS_Subset, FS_CardinalityType

(* Below the limit there is a connection that is not open. *)
LEMMA NewConnectionIsNew ==
    ASSUME open \subseteq Connections, Room
    PROVE  NewConnection \in Connections /\ NewConnection \notin open
<1>1. Cardinality(open) < Cardinality(Connections)
    BY PoolAssumption, OpenIsFinite, FS_CardinalityType DEF Room
<1>2. open # Connections
    BY <1>1, OpenIsFinite
<1> QED
    BY <1>2 DEF NewConnection

(* The first in the queue is queued; behind it the others are, each once. *)
LEMMA FirstInQueue ==
    ASSUME TypeOK, Queued, queue # <<>>
    PROVE  /\ Head(queue) \in Statements /\ place[Head(queue)] = "queued"
           /\ Tail(queue) \in Seq(Statements)
           /\ \A i \in 1..Len(Tail(queue)) : Tail(queue)[i] = queue[i + 1] /\ i + 1 \in 1..Len(queue)
           /\ \A i \in 1..Len(Tail(queue)) : Tail(queue)[i] # Head(queue)
BY DEF TypeOK, Queued

LEMMA InitIInv == Init => IInv
<1> SUFFICES ASSUME Init PROVE IInv
    OBVIOUS
<1> USE DEF Init
<1>1. TypeOK
    BY PoolAssumption, NoneAssumption, FS_EmptySet DEF TypeOK, Places
<1>2. Asking = {}
    BY DEF Asking
<1>3. Holding /\ Queued /\ NoLeak /\ NobodyWaitsForNothing /\ Zoned /\ RunsInUtc
    BY NoneAssumption DEF Holding, Queued, NoLeak, NobodyWaitsForNothing, Zoned, RunsInUtc, None
<1> QED
    BY <1>1, <1>2, <1>3, FS_EmptySet DEF IInv

-----------------------------------------------------------------------------
(***************************************************************************)
(* Discard: the connection is gone, and the first in the queue asks.       *)
(***************************************************************************)
LEMMA DiscardEffect ==
    ASSUME IInv, NEW s \in Statements, place[s] \in {"connecting", "given", "running"},
           NEW next \in {"asking", "failed"}, Discard(s, next)
    PROVE  /\ holds[s] \in open /\ open' = open \ {holds[s]} /\ open' \subseteq Connections
           /\ Cardinality(open') = Cardinality(open) - 1
           /\ free' = free /\ free \subseteq open'
           /\ holds' = [holds EXCEPT ![s] = None]
           /\ place' \in [Statements -> Places] /\ place'[s] = next
           /\ queue' \in Seq(Statements)
           /\ UNCHANGED <<age, zone>>
           /\ queue = <<>> => queue' = <<>> /\ \A t \in Statements : t # s => place'[t] = place[t]
           /\ queue # <<>> =>
                 /\ queue' = Tail(queue) /\ s # Head(queue) /\ place'[Head(queue)] = "asking"
                 /\ \A t \in Statements : t # s /\ t # Head(queue) => place'[t] = place[t]
<1>1. holds[s] \in open \ free
    BY DEF IInv, Holding, NoLeak
<1>2. Cardinality(open \ {holds[s]}) = Cardinality(open) - 1
    BY <1>1, OpenIsFinite, FS_RemoveElement DEF IInv, TypeOK
<1>3. CASE queue = <<>>
    BY <1>1, <1>2, <1>3 DEF IInv, TypeOK, Places, Discard
<1>4. CASE queue # <<>>
    <2>1. s # Head(queue) /\ Head(queue) \in Statements /\ Tail(queue) \in Seq(Statements)
        BY <1>4, FirstInQueue DEF IInv
    <2> QED
        BY <1>1, <1>2, <1>4, <2>1 DEF IInv, TypeOK, Places, Discard
<1> QED
    BY <1>3, <1>4

LEMMA DiscardKeeps ==
    ASSUME IInv, NEW s \in Statements, place[s] \in {"connecting", "given", "running"},
           NEW next \in {"asking", "failed"}, Discard(s, next), UNCHANGED <<ranIn, startAge>>
    PROVE  IInv'
<1> DEFINE q == Head(queue)
<1>1. /\ holds[s] \in open \ free /\ open' = open \ {holds[s]} /\ open' \subseteq Connections
      /\ Cardinality(open') = Cardinality(open) - 1
      /\ free' = free /\ free \subseteq open'
      /\ holds' = [holds EXCEPT ![s] = None]
      /\ place' \in [Statements -> Places] /\ place'[s] = next
      /\ queue' \in Seq(Statements)
      /\ UNCHANGED <<age, zone, ranIn, startAge>>
    BY DiscardEffect DEF IInv, Holding, NoLeak
<1>2. queue = <<>> => queue' = <<>> /\ \A t \in Statements : t # s => place'[t] = place[t]
    BY DiscardEffect
<1>3. queue # <<>> =>
         /\ queue' = Tail(queue) /\ q \in Statements /\ place[q] = "queued" /\ s # q /\ place'[q] = "asking"
         /\ \A t \in Statements : t # s /\ t # q => place'[t] = place[t]
    BY DiscardEffect, FirstInQueue DEF IInv
<1>4. TypeOK'
    <2>1. Cardinality(open) \in Nat
        BY OpenIsFinite DEF IInv, TypeOK
    <2>2. Cardinality(open') <= MAX_OPEN_CONNS
        BY <1>1, <2>1, PoolAssumption DEF IInv, TypeOK
    <2> QED
        BY <1>1, <2>2 DEF IInv, TypeOK
<1>5. Holding'
    BY <1>1, <1>2, <1>3 DEF IInv, TypeOK, Holding
<1>6. NoLeak'
    BY <1>1, NoneAssumption DEF IInv, TypeOK, NoLeak
<1>7. Queued'
    <2>1. CASE queue = <<>>
        BY <2>1, <1>2 DEF Queued
    <2>2. CASE queue # <<>>
        <3>1. \A i \in 1..Len(queue') :
                 queue'[i] = queue[i + 1] /\ i + 1 \in 1..Len(queue) /\ queue'[i] # q /\ i \in Nat
            BY <2>2, <1>3, FirstInQueue DEF IInv
        <3>2. \A i \in 1..Len(queue') : place'[queue'[i]] = "queued"
            <4> SUFFICES ASSUME NEW i \in 1..Len(queue') PROVE place'[queue'[i]] = "queued"
                OBVIOUS
            <4>1. place[queue'[i]] = "queued" /\ queue'[i] \in Statements
                <5>1. queue'[i] = queue[i + 1] /\ i + 1 \in 1..Len(queue)
                    BY <3>1
                <5> QED
                    BY <5>1 DEF IInv, TypeOK, Queued
            <4> QED
                BY <2>2, <1>3, <3>1, <4>1
        <3>3. \A i, j \in 1..Len(queue') : queue'[i] = queue'[j] => i = j
            BY <3>1 DEF IInv, Queued
        <3> QED
            BY <3>2, <3>3 DEF Queued
    <2> QED
        BY <2>1, <2>2
<1>8. IsFiniteSet(Asking') /\ NobodyWaitsForNothing'
    <2>1. CASE queue = <<>>
        <3>1. Asking' = Asking \/ Asking' = Asking \cup {s}
            BY <2>1, <1>1, <1>2 DEF Asking
        <3> QED
            BY <2>1, <3>1, <1>2, FS_AddElement DEF IInv, NobodyWaitsForNothing
    <2>2. CASE queue # <<>>
        <3>1. q \notin Asking
            BY <2>2, <1>3 DEF Asking
        <3>2. Asking' = Asking \cup {q} \/ Asking' = (Asking \cup {q}) \cup {s}
            BY <2>2, <1>1, <1>3 DEF Asking
        <3>3. Cardinality(Asking) \in Nat /\ Cardinality(open) \in Nat /\ Cardinality(open') \in Nat
            BY <1>1, OpenIsFinite, FS_CardinalityType DEF IInv, TypeOK
        <3>4. IsFiniteSet(Asking \cup {q}) /\ Cardinality(Asking \cup {q}) = Cardinality(Asking) + 1
            BY <3>1, FS_AddElement DEF IInv
        <3>5. s \notin Asking \cup {q}
            BY <2>2, <1>3 DEF Asking
        <3>6. IsFiniteSet((Asking \cup {q}) \cup {s}) /\ Cardinality((Asking \cup {q}) \cup {s}) = Cardinality(Asking) + 2
            BY <3>4, <3>5, <3>3, FS_AddElement
        <3>7. IsFiniteSet(Asking') /\ Cardinality(Asking') >= Cardinality(Asking) + 1
            <4>1. CASE Asking' = Asking \cup {q}
                BY <4>1, <3>4, <3>3
            <4>2. CASE Asking' = (Asking \cup {q}) \cup {s}
                BY <4>2, <3>6, <3>3
            <4> QED
                BY <3>2, <4>1, <4>2
        <3>8. free = {} /\ Cardinality(open) + Cardinality(Asking) >= MAX_OPEN_CONNS
            <4>1. NobodyWaitsForNothing
                BY DEF IInv
            <4> QED
                BY <2>2, <4>1 DEF NobodyWaitsForNothing, Asking
        <3>9. Cardinality(Asking') \in Nat
            BY <3>7, FS_CardinalityType
        <3>10. Cardinality(open') + Cardinality(Asking') >= MAX_OPEN_CONNS
            BY <3>7, <3>8, <3>3, <3>9, <1>1, PoolAssumption
        <3> QED
            BY <3>7, <3>8, <3>10, <1>1 DEF NobodyWaitsForNothing, Asking
    <2> QED
        BY <2>1, <2>2
<1>9. Zoned' /\ RunsInUtc'
    BY <1>1, <1>2, <1>3 DEF IInv, TypeOK, Zoned, RunsInUtc
<1> QED
    BY <1>4, <1>5, <1>6, <1>7, <1>8, <1>9 DEF IInv

(***************************************************************************)
(* Return: the connection goes to the first in the queue, or is free.      *)
(***************************************************************************)
LEMMA ReturnEffect ==
    ASSUME IInv, NEW s \in Statements, place[s] = "running",
           NEW next \in {"succeeded", "failed"}, Return(s, next)
    PROVE  /\ holds[s] \in open \ free
           /\ holds' \in [Statements -> Connections \cup {None}] /\ holds'[s] = None
           /\ place' \in [Statements -> Places] /\ place'[s] = next
           /\ queue' \in Seq(Statements)
           /\ UNCHANGED <<open, age, zone>>
           /\ queue = <<>> =>
                 /\ queue' = <<>> /\ free' = free \cup {holds[s]}
                 /\ \A t \in Statements : t # s => place'[t] = place[t] /\ holds'[t] = holds[t]
           /\ queue # <<>> =>
                 /\ queue' = Tail(queue) /\ free' = free
                 /\ Head(queue) \in Statements /\ place[Head(queue)] = "queued" /\ s # Head(queue)
                 /\ place'[Head(queue)] = "given" /\ holds'[Head(queue)] = holds[s]
                 /\ \A t \in Statements : t # s /\ t # Head(queue) => place'[t] = place[t] /\ holds'[t] = holds[t]
<1>1. holds[s] \in open \ free
    BY DEF IInv, Holding, NoLeak
<1>2. CASE queue = <<>>
    BY <1>1, <1>2 DEF IInv, TypeOK, Places, Return
<1>3. CASE queue # <<>>
    <2>1. /\ s # Head(queue) /\ Head(queue) \in Statements /\ Tail(queue) \in Seq(Statements)
          /\ place[Head(queue)] = "queued"
        BY <1>3, FirstInQueue DEF IInv
    <2> QED
        BY <1>1, <1>3, <2>1 DEF IInv, TypeOK, Places, Return
<1> QED
    BY <1>2, <1>3

LEMMA RunsKeeps ==
    ASSUME IInv, NEW s \in Statements, Runs(s)
    PROVE  IInv'
<1>1. PICK next \in {"succeeded", "failed"} : Return(s, next)
    BY DEF Runs
<1>2. place[s] = "running" /\ zone[holds[s]] = "utc" /\ ranIn' = [ranIn EXCEPT ![s] = "utc"] /\ startAge' = startAge
    BY DEF Runs, Ready, IInv, TypeOK, Zoned, Holding
<1>3. /\ holds[s] \in open \ free
      /\ holds' \in [Statements -> Connections \cup {None}] /\ holds'[s] = None
      /\ place' \in [Statements -> Places] /\ place'[s] = next
      /\ queue' \in Seq(Statements)
      /\ UNCHANGED <<open, age, zone>>
    BY <1>1, <1>2, ReturnEffect
<1>4. CASE queue = <<>>
    <2>1. /\ queue' = <<>> /\ free' = free \cup {holds[s]}
          /\ \A t \in Statements : t # s => place'[t] = place[t] /\ holds'[t] = holds[t]
        BY <1>1, <1>2, <1>4, ReturnEffect
    <2>2. TypeOK'
        BY <1>2, <1>3, <2>1 DEF IInv, TypeOK
    <2>3. Asking' = Asking
        BY <1>2, <1>3, <2>1 DEF Asking
    <2>4. Holding' /\ Queued' /\ NobodyWaitsForNothing'
        BY <1>2, <1>3, <2>1 DEF IInv, Holding, Queued, NobodyWaitsForNothing
    <2>5. NoLeak'
        <3>1. \A t \in Statements : t # s /\ holds[t] # None => holds[t] # holds[s]
            BY <1>3, NoneAssumption DEF IInv, TypeOK, NoLeak
        <3>2. \A c \in open' \ free' : \E t \in Statements : holds'[t] = c
            BY <1>3, <2>1 DEF IInv, NoLeak
        <3>3. \A t \in Statements : holds'[t] # None => holds'[t] \in open' \ free'
            BY <1>3, <2>1, <3>1 DEF IInv, NoLeak
        <3>4. \A t, u \in Statements : holds'[t] # None /\ t # u => holds'[t] # holds'[u]
            BY <1>3, <2>1 DEF IInv, NoLeak
        <3> QED
            BY <3>2, <3>3, <3>4 DEF NoLeak
    <2>6. Zoned' /\ RunsInUtc'
        BY <1>2, <1>3, <2>1 DEF IInv, TypeOK, Zoned, RunsInUtc
    <2> QED
        BY <2>2, <2>3, <2>4, <2>5, <2>6 DEF IInv
<1>5. CASE queue # <<>>
    <2> DEFINE q == Head(queue)
    <2>1. /\ queue' = Tail(queue) /\ free' = free
          /\ q \in Statements /\ place[q] = "queued" /\ s # q
          /\ place'[q] = "given" /\ holds'[q] = holds[s]
          /\ \A t \in Statements : t # s /\ t # q => place'[t] = place[t] /\ holds'[t] = holds[t]
        BY <1>1, <1>2, <1>5, ReturnEffect
    <2>2. TypeOK'
        BY <1>2, <1>3, <2>1 DEF IInv, TypeOK
    <2>3. Asking' = Asking
        BY <1>2, <1>3, <2>1 DEF Asking
    <2>4. Holding'
        <3>1. holds[s] # None
            BY <1>2 DEF IInv, Holding
        <3> QED
            BY <1>3, <2>1, <3>1 DEF IInv, Holding
    <2>5. NobodyWaitsForNothing'
        BY <1>3, <1>5, <2>1, <2>3 DEF IInv, NobodyWaitsForNothing, Asking
    <2>6. Queued'
        BY <1>2, <1>3, <1>5, <2>1, FirstInQueue DEF IInv, Queued
    <2>7. NoLeak'
        <3>1. holds[q] = None
            BY <2>1 DEF IInv, Holding
        <3>2. \A c \in open' \ free' : \E t \in Statements : holds'[t] = c
            <4> SUFFICES ASSUME NEW c \in open \ free PROVE \E t \in Statements : holds'[t] = c
                BY <1>3, <2>1
            <4>1. PICK t \in Statements : holds[t] = c
                BY DEF IInv, NoLeak
            <4>2. c # None
                BY NoneAssumption DEF IInv, TypeOK
            <4> QED
                BY <2>1, <3>1, <4>1, <4>2
        <3>3. \A t \in Statements : holds'[t] # None => holds'[t] \in open' \ free'
            BY <1>3, <2>1 DEF IInv, NoLeak
        <3>4. \A t, u \in Statements : holds'[t] # None /\ t # u => holds'[t] # holds'[u]
            <4>1. \A t, u \in Statements : holds[t] # None /\ t # u => holds[t] # holds[u]
                BY DEF IInv, NoLeak
            <4>2. holds[s] # None
                BY <1>2 DEF IInv, Holding
            <4> QED
                BY <1>3, <2>1, <4>1, <4>2
        <3> QED
            BY <3>2, <3>3, <3>4 DEF NoLeak
    <2>8. Zoned' /\ RunsInUtc'
        BY <1>2, <1>3, <2>1 DEF IInv, TypeOK, Zoned, RunsInUtc
    <2> QED
        BY <2>2, <2>3, <2>4, <2>5, <2>6, <2>7, <2>8 DEF IInv
<1> QED
    BY <1>4, <1>5

(***************************************************************************)
(* The other steps of a statement.                                         *)
(***************************************************************************)
LEMMA CallKeeps ==
    ASSUME IInv, NEW s \in Statements, Call(s)
    PROVE  IInv'
<1> USE DEF Call, pool
<1>1. Asking' = Asking \cup {s} /\ s \notin Asking
    BY DEF Asking, IInv, TypeOK
<1>2. IsFiniteSet(Asking') /\ Cardinality(Asking') = Cardinality(Asking) + 1 /\ Cardinality(Asking) \in Nat
    BY <1>1, FS_AddElement, FS_CardinalityType DEF IInv
<1>3. NobodyWaitsForNothing'
    <2>1. queue # <<>> => free = {} /\ Cardinality(open) + Cardinality(Asking) >= MAX_OPEN_CONNS
        <3>1. NobodyWaitsForNothing
            BY DEF IInv
        <3> QED
            BY <3>1 DEF NobodyWaitsForNothing, Asking
    <2>2. Cardinality(open) \in Nat
        BY OpenIsFinite DEF IInv, TypeOK
    <2>3. queue' # <<>> => free' = {} /\ Cardinality(open') + Cardinality(Asking') >= MAX_OPEN_CONNS
        BY <1>2, <2>1, <2>2, PoolAssumption
    <2> QED
        BY <2>3 DEF NobodyWaitsForNothing, Asking
<1>4. TypeOK' /\ Holding' /\ Queued' /\ NoLeak'
    BY DEF IInv, TypeOK, Places, Holding, Queued, NoLeak
<1>5. Zoned' /\ RunsInUtc'
    BY DEF IInv, TypeOK, Zoned, RunsInUtc
<1> QED
    BY <1>2, <1>3, <1>4, <1>5 DEF IInv

LEMMA GetFreeKeeps ==
    ASSUME IInv, NEW s \in Statements, GetFree(s)
    PROVE  IInv'
<1> PICK c \in free : Give(s, c) /\ free' = free \ {c}
    BY DEF GetFree
<1> USE DEF GetFree, Give
<1>1. c \in open /\ c \in Connections /\ c # None /\ \A t \in Statements : holds[t] # c
    BY NoneAssumption DEF IInv, TypeOK, NoLeak
<1>2. Asking' = Asking \ {s}
    BY DEF Asking, IInv, TypeOK
<1>3. IsFiniteSet(Asking')
    BY <1>2, FS_RemoveElement DEF IInv
<1>4. queue = <<>>
    BY DEF IInv, NobodyWaitsForNothing
<1>5. TypeOK' /\ Queued' /\ NobodyWaitsForNothing'
    BY <1>1, <1>4 DEF IInv, TypeOK, Places, Queued, NobodyWaitsForNothing
<1>6. Holding'
    BY <1>1 DEF IInv, TypeOK, Holding
<1>7. NoLeak'
    <2>1. \A d \in open' \ free' : \E t \in Statements : holds'[t] = d
        <3> SUFFICES ASSUME NEW d \in open \ free, d # c PROVE \E t \in Statements : holds'[t] = d
            BY DEF IInv, TypeOK
        <3>1. PICK t \in Statements : holds[t] = d
            BY DEF IInv, NoLeak
        <3>2. t # s
            BY <3>1, NoneAssumption DEF IInv, TypeOK, Holding
        <3> QED
            BY <3>1, <3>2 DEF IInv, TypeOK
    <2>2. \A t, u \in Statements : holds'[t] # None =>
             holds'[t] \in open' \ free' /\ (t # u => holds'[t] # holds'[u])
        BY <1>1 DEF IInv, TypeOK, NoLeak
    <2> QED
        BY <2>1, <2>2 DEF NoLeak
<1>8. Zoned' /\ RunsInUtc'
    BY DEF IInv, TypeOK, Zoned, RunsInUtc
<1> QED
    BY <1>3, <1>5, <1>6, <1>7, <1>8 DEF IInv

LEMMA ConnectKeeps ==
    ASSUME IInv, NEW s \in Statements, Connect(s)
    PROVE  IInv'
<1> DEFINE c == NewConnection
<1> USE DEF Connect
<1>1. c \in Connections /\ c \notin open /\ c # None
    BY NewConnectionIsNew, NoneAssumption DEF IInv, TypeOK
<1> HIDE DEF c
<1>2. /\ place' = [place EXCEPT ![s] = "connecting"] /\ holds' = [holds EXCEPT ![s] = c] /\ open' = open \cup {c}
      /\ place[s] = "asking" /\ free = {} /\ Room
    BY DEF c
<1>3. Asking' = Asking \ {s} /\ s \in Asking
    BY <1>2 DEF Asking, IInv, TypeOK
<1>4. /\ IsFiniteSet(Asking') /\ Cardinality(Asking') = Cardinality(Asking) - 1
      /\ Cardinality(Asking) \in Nat
    BY <1>3, FS_RemoveElement, FS_CardinalityType DEF IInv
<1>5. Cardinality(open') = Cardinality(open) + 1 /\ Cardinality(open) \in Nat
    BY <1>1, <1>2, OpenIsFinite, FS_AddElement, SMTT(30) DEF IInv, TypeOK
<1>6. TypeOK'
    BY <1>1, <1>2, <1>5, PoolAssumption DEF IInv, TypeOK, Places, Room
<1>7. Holding' /\ Queued'
    BY <1>1, <1>2 DEF IInv, TypeOK, Holding, Queued
<1>8. NobodyWaitsForNothing'
    <2>1. queue # <<>> => free = {} /\ Cardinality(open) + Cardinality(Asking) >= MAX_OPEN_CONNS
        <3>1. NobodyWaitsForNothing
            BY DEF IInv
        <3> QED
            BY <3>1 DEF NobodyWaitsForNothing, Asking
    <2>2. queue' # <<>> => free' = {} /\ Cardinality(open') + Cardinality(Asking') >= MAX_OPEN_CONNS
        BY <1>4, <1>5, <2>1, PoolAssumption
    <2> QED
        BY <2>2 DEF NobodyWaitsForNothing, Asking
<1>9. NoLeak'
    <2>1. holds[s] = None
        BY <1>2 DEF IInv, Holding
    <2>2. \A d \in open' \ free' : \E t \in Statements : holds'[t] = d
        <3> SUFFICES ASSUME NEW d \in open \ free PROVE \E t \in Statements : holds'[t] = d
            BY <1>2 DEF IInv, TypeOK
        <3>1. PICK t \in Statements : holds[t] = d
            BY DEF IInv, NoLeak
        <3>2. t # s
            BY <2>1, <3>1, NoneAssumption DEF IInv, TypeOK
        <3> QED
            BY <1>2, <3>1, <3>2 DEF IInv, TypeOK
    <2>3. \A t \in Statements : holds[t] # c
        BY <1>1 DEF IInv, NoLeak
    <2>4. \A t, u \in Statements : holds'[t] # None =>
             holds'[t] \in open' \ free' /\ (t # u => holds'[t] # holds'[u])
        BY <1>1, <1>2, <2>3 DEF IInv, TypeOK, NoLeak
    <2> QED
        BY <2>2, <2>4 DEF NoLeak
<1>10. Zoned' /\ RunsInUtc'
    BY <1>2 DEF IInv, TypeOK, Zoned, RunsInUtc
<1> QED
    BY <1>4, <1>6, <1>7, <1>8, <1>9, <1>10 DEF IInv

LEMMA EnqueueKeeps ==
    ASSUME IInv, NEW s \in Statements, Enqueue(s)
    PROVE  IInv'
<1> USE DEF Enqueue
<1>1. Asking' = Asking \ {s}
    BY DEF Asking, IInv, TypeOK
<1>2. IsFiniteSet(Asking') /\ Cardinality(Asking') \in Nat
    BY <1>1, FS_RemoveElement, FS_CardinalityType DEF IInv
<1>3. TypeOK' /\ Holding' /\ NoLeak'
    BY DEF IInv, TypeOK, Places, Holding, NoLeak
<1>4. NobodyWaitsForNothing'
    <2>1. free' = {} /\ Cardinality(open') + Cardinality(Asking') >= MAX_OPEN_CONNS
        <3>1. Cardinality(open) \in Nat /\ ~(Cardinality(open) < MAX_OPEN_CONNS) /\ free = {} /\ open' = open
            BY OpenIsFinite DEF IInv, TypeOK, Room
        <3> QED
            BY <3>1, <1>2, PoolAssumption
    <2> QED
        BY <2>1 DEF NobodyWaitsForNothing, Asking
<1>5. Queued'
    BY DEF IInv, TypeOK, Queued
<1>6. Zoned' /\ RunsInUtc'
    BY DEF IInv, TypeOK, Zoned, RunsInUtc
<1> QED
    BY <1>2, <1>3, <1>4, <1>5, <1>6 DEF IInv

(* Connected, take's look at the age, SET time_zone and the clock leave the queue and the owners alone. *)
LEMMA StartKeeps ==
    ASSUME IInv, NEW s \in Statements, Connected(s) \/ Start(s) \/ SetTimeZone(s)
    PROVE  IInv'
<1>1. holds[s] \in open \ free /\ place[s] \in {"connecting", "given", "running"} /\ holds[s] \in Connections
    BY DEF IInv, TypeOK, Holding, NoLeak, Connected, Start, SetTimeZone
<1> USE DEF Connected, Give, Start, SetTimeZone, pool
<1>2. Asking' = Asking
    BY <1>1 DEF IInv, TypeOK, Asking
<1>3. holds' = holds
    BY DEF IInv, TypeOK
<1>4. TypeOK' /\ Holding' /\ Queued'
    <2>1. TypeOK'
        <3>1. age' \in [Connections -> 0..MaxAge] /\ zone' \in [Connections -> {"server", "unset", "utc"}]
            <4>1. CASE Connected(s)
                BY <1>1, <4>1, PoolAssumption DEF IInv, TypeOK
            <4>2. CASE Start(s)
                BY <4>2 DEF IInv, TypeOK
            <4>3. CASE SetTimeZone(s)
                BY <1>1, <4>3 DEF IInv, TypeOK
            <4> HIDE DEF Connected, Start, SetTimeZone
            <4> QED
                BY <4>1, <4>2, <4>3
        <3>2. startAge' \in [Statements -> 0..MaxAge] /\ place' \in [Statements -> Places]
            BY <1>1, PoolAssumption DEF IInv, TypeOK, Places
        <3>3. UNCHANGED <<open, free, queue, ranIn>>
            OBVIOUS
        <3> HIDE DEF Connected, Give, Start, SetTimeZone, pool
        <3> QED
            BY <1>3, <3>1, <3>2, <3>3 DEF IInv, TypeOK
    <2>2. Holding'
        BY <1>1, <1>3 DEF IInv, TypeOK, Holding
    <2>3. Queued'
        BY <1>1 DEF IInv, TypeOK, Queued
    <2> QED
        BY <2>1, <2>2, <2>3
<1>5. NoLeak'
    BY <1>3 DEF IInv, NoLeak
<1>6. NobodyWaitsForNothing'
    BY <1>2 DEF IInv, NobodyWaitsForNothing, Asking
<1>7. Zoned'
    BY <1>1, <1>3 DEF IInv, TypeOK, Zoned, NoLeak, Holding
<1>8. RunsInUtc'
    BY <1>1 DEF IInv, TypeOK, RunsInUtc, Young
<1> QED
    BY <1>2, <1>4, <1>5, <1>6, <1>7, <1>8 DEF IInv

LEMMA TickKeeps == IInv /\ Tick => IInv'
<1> SUFFICES ASSUME IInv, Tick PROVE IInv'
    OBVIOUS
<1>1. TypeOK'
    BY PoolAssumption DEF IInv, TypeOK, Tick
<1>2. Asking' = Asking
    BY DEF Tick, Asking
<1>3. Holding' /\ Queued' /\ NoLeak' /\ NobodyWaitsForNothing' /\ Zoned' /\ RunsInUtc'
    BY DEF IInv, Tick, Holding, Queued, NoLeak, NobodyWaitsForNothing, Zoned, RunsInUtc
<1> QED
    BY <1>1, <1>2, <1>3 DEF IInv
LEMMA NextIInv == IInv /\ [Next]_vars => IInv'
<1> SUFFICES ASSUME IInv, [Next]_vars PROVE IInv'
    OBVIOUS
<1>1. CASE Tick
    BY <1>1, TickKeeps
<1>2. ASSUME NEW s \in Statements, Call(s)
      PROVE  IInv'
    BY <1>2, CallKeeps
<1>3. ASSUME NEW s \in Statements, Serve(s)
      PROVE  IInv'
    <2>1. CASE GetFree(s)
        BY <2>1, GetFreeKeeps
    <2>2. CASE Connect(s)
        BY <2>2, ConnectKeeps
    <2>3. CASE Connected(s) \/ Start(s) \/ SetTimeZone(s)
        BY <2>3, StartKeeps
    <2>4. CASE Enqueue(s)
        BY <2>4, EnqueueKeeps
    <2>5. CASE ConnectFails(s) \/ SetTimeZoneFails(s) \/ Breaks(s)
        BY <2>5, DiscardKeeps DEF ConnectFails, SetTimeZoneFails, Breaks
    <2>6. CASE CloseOld(s)
        BY <2>6, DiscardKeeps DEF CloseOld
    <2>7. CASE Runs(s)
        BY <2>7, RunsKeeps
    <2> QED
        BY <1>3, <2>1, <2>2, <2>3, <2>4, <2>5, <2>6, <2>7 DEF Serve
<1>4. CASE UNCHANGED vars
    <2>1. Asking' = Asking
        BY <1>4 DEF vars, Asking
    <2> QED
        BY <1>4, <2>1 DEF vars, IInv, TypeOK, Holding, Queued, NoLeak, NobodyWaitsForNothing, Zoned, RunsInUtc
<1> QED
    BY <1>1, <1>2, <1>3, <1>4 DEF Next

LEMMA Invariance == Spec => []IInv
BY InitIInv, NextIInv, PTL DEF Spec

-----------------------------------------------------------------------------
(* The variables of the pool keep their types, and the pool its limit. *)
THEOREM TypeCorrect == Spec => []TypeOK
<1>1. IInv => TypeOK
    BY DEF IInv
<1> QED
    BY Invariance, <1>1, PTL

(***************************************************************************)
(* No connection leaks, none is shared and no wake-up is lost, whatever    *)
(* aged, broke, was refused or could not be opened before.                 *)
(***************************************************************************)
THEOREM NeitherLeakNorLostWakeUp == Spec => []NothingIsLost
<1>1. IInv => NothingIsLost
    BY DEF IInv, NothingIsLost
<1> QED
    BY Invariance, <1>1, PTL

(* Every command runs in a UTC session, on a connection that was young when it was handed over. *)
THEOREM AlwaysUtc == Spec => []RunsInUtc
<1>1. IInv => RunsInUtc
    BY DEF IInv
<1> QED
    BY Invariance, <1>1, PTL

-----------------------------------------------------------------------------
(***************************************************************************)
(* The pool implements Semaphore: every step of it begins, ends or asks    *)
(* for one statement, or is not seen from outside.                         *)
(***************************************************************************)
Waiting == At({"asking", "queued", "connecting", "given"})
Running == At({"running"})
Ended == At({"succeeded", "failed"})

(* The running statements and one that is given a connection hold different open connections. *)
LEMMA RunningFits ==
    ASSUME IInv, NEW s \in Statements, place[s] = "given"
    PROVE  Cardinality(Running) < MAX_OPEN_CONNS
<1> DEFINE busy == Running \cup {s}
           owner == [t \in busy |-> holds[t]]
<1>1. \A t \in busy : t \in Statements /\ holds[t] # None
    BY DEF IInv, Holding, Running, At
<1>2. owner \in [busy -> open]
    BY <1>1 DEF IInv, NoLeak
<1>3. \A t, u \in busy : owner[t] = owner[u] => t = u
    BY <1>1 DEF IInv, NoLeak
<1>4. owner \in Injection(busy, open)
    BY <1>2, <1>3 DEF Injection, IsInjective
<1>5. IsFiniteSet(busy) /\ Cardinality(busy) <= Cardinality(open)
    <2> HIDE DEF owner, busy
    <2> QED
        BY <1>4, OpenIsFinite, FS_Injection DEF IInv, TypeOK
<1>6. IsFiniteSet(Running) /\ s \notin Running
    BY <1>5, FS_Subset DEF Running, At
<1>7. Cardinality(busy) = Cardinality(Running) + 1 /\ Cardinality(Running) \in Nat
    BY <1>6, FS_AddElement, FS_CardinalityType
<1>8. Cardinality(open) <= MAX_OPEN_CONNS /\ Cardinality(open) \in Nat
    BY OpenIsFinite DEF IInv, TypeOK
<1> QED
    BY <1>5, <1>7, <1>8, PoolAssumption

(* Semaphore counts as ConnectionPool does. *)
LEMMA PromiseCounts == \A S : Promise!Cardinality(S) = Cardinality(S)
BY DEF Promise!Cardinality, Cardinality

LEMMA InitIsPromised == Init => Promise!Init
BY DEF Init, Promise!Init, At

LEMMA NextIsPromised == IInv /\ [Next]_vars => [Promise!Next]_Promise!semaphoreVars
<1> SUFFICES ASSUME IInv, [Next]_vars PROVE [Promise!Next]_Promise!semaphoreVars
    OBVIOUS
<1> USE DEF Waiting, Running, Ended
<1>1. CASE Tick \/ UNCHANGED vars
    BY <1>1 DEF Tick, vars, At, Promise!semaphoreVars
<1>2. ASSUME NEW s \in Statements, Call(s)
      PROVE  Promise!Ask(s)
    BY <1>2 DEF Call, Promise!Ask, At, IInv, TypeOK
<1>3. ASSUME NEW s \in Statements, Start(s)
      PROVE  Promise!Begin(s)
    <2>1. Cardinality(Running) < MAX_OPEN_CONNS
        BY <1>3, RunningFits DEF Start
    <2> QED
        BY <1>3, <2>1, PromiseCounts DEF Start, Promise!Begin, pool, At, IInv, TypeOK
<1>4. ASSUME NEW s \in Statements, Runs(s)
      PROVE  Promise!Finish(s)
    <2>1. PICK next \in {"succeeded", "failed"} : Return(s, next)
        BY <1>4 DEF Runs
    <2>2. place[s] = "running"
        BY <1>4 DEF Runs, Ready
    <2>3. /\ place'[s] = next
          /\ \A t \in Statements : t # s => \/ place'[t] = place[t]
                                            \/ place[t] = "queued" /\ place'[t] = "given"
        BY <2>1, <2>2, ReturnEffect
    <2>4. /\ s \notin Waiting /\ s \in Running
          /\ Waiting' = Waiting /\ Running' = Running \ {s} /\ Ended' = Ended \cup {s}
        BY <2>2, <2>3 DEF At
    <2> QED
        BY <2>4 DEF Promise!Finish
<1>5. ASSUME NEW s \in Statements, SetTimeZoneFails(s) \/ Breaks(s)
      PROVE  Promise!Finish(s)
    <2>1. place[s] = "running" /\ Discard(s, "failed")
        BY <1>5 DEF SetTimeZoneFails, Breaks
    <2>2. /\ place'[s] = "failed"
          /\ \A t \in Statements : t # s => \/ place'[t] = place[t]
                                            \/ place[t] = "queued" /\ place'[t] = "asking"
        BY <2>1, DiscardEffect, FirstInQueue DEF IInv
    <2>3. s \in Running /\ Waiting' = Waiting /\ Running' = Running \ {s} /\ Ended' = Ended \cup {s}
        BY <2>1, <2>2 DEF At
    <2> QED
        BY <2>3 DEF Promise!Finish
<1>6. ASSUME NEW s \in Statements, ConnectFails(s)
      PROVE  Promise!GiveUp(s)
    <2>1. place[s] = "connecting" /\ Discard(s, "failed")
        BY <1>6 DEF ConnectFails
    <2>2. /\ place'[s] = "failed"
          /\ \A t \in Statements : t # s => \/ place'[t] = place[t]
                                            \/ place[t] = "queued" /\ place'[t] = "asking"
        BY <2>1, DiscardEffect, FirstInQueue DEF IInv
    <2>3. s \in Waiting /\ Waiting' = Waiting \ {s} /\ Running' = Running /\ Ended' = Ended \cup {s}
        BY <2>1, <2>2 DEF At
    <2> QED
        BY <2>3 DEF Promise!GiveUp
<1>7. ASSUME NEW s \in Statements, CloseOld(s)
      PROVE  UNCHANGED Promise!semaphoreVars
    <2>1. place[s] = "given" /\ Discard(s, "asking")
        BY <1>7 DEF CloseOld
    <2>2. /\ place'[s] = "asking"
          /\ \A t \in Statements : t # s => \/ place'[t] = place[t]
                                            \/ place[t] = "queued" /\ place'[t] = "asking"
        BY <2>1, DiscardEffect, FirstInQueue DEF IInv
    <2> QED
        BY <2>1, <2>2 DEF At, Promise!semaphoreVars
<1>8. ASSUME NEW s \in Statements, GetFree(s) \/ Connect(s) \/ Connected(s) \/ Enqueue(s) \/ SetTimeZone(s)
      PROVE  UNCHANGED Promise!semaphoreVars
    <2>1. \A t \in Statements : \/ place'[t] = place[t]
                               \/ /\ place[t] \in {"asking", "queued", "connecting", "given"}
                                  /\ place'[t] \in {"asking", "queued", "connecting", "given"}
        BY <1>8 DEF GetFree, Connect, Connected, Enqueue, SetTimeZone, Give, IInv, TypeOK
    <2> QED
        BY <2>1 DEF At, Promise!semaphoreVars
<1> QED
    BY <1>1, <1>2, <1>3, <1>4, <1>5, <1>6, <1>7, <1>8 DEF Next, Serve, Promise!Next

(***************************************************************************)
(* The pool keeps the safety part of its promise (Semaphore): a statement  *)
(* is begun at most once, ends at most once, and no more than              *)
(* MAX_OPEN_CONNS run at a time.                                           *)
(***************************************************************************)
THEOREM ImplementsSemaphore == Spec => Promise!Init /\ [][Promise!Next]_Promise!semaphoreVars
BY InitIsPromised, NextIsPromised, Invariance, PTL DEF Spec

=============================================================================
