------------------------------- MODULE Listing -------------------------------
(***************************************************************************)
(* The public listing of transactions, from the query string to the rows:  *)
(* Query and atoi (src/http/query.ts), getTransactions                     *)
(* (src/controllers/history.controller.ts) and listTransactions            *)
(* (src/db/history.ts).  Other requests record transactions meanwhile.     *)
(*                                                                         *)
(* A value is a sequence of bytes, of which a name counts as one, "%2B" is *)
(* an escaped plus and "%" a malformed escape.                             *)
(*                                                                         *)
(* External: MySQL evaluates the SELECT on the table as it is then; rows   *)
(* of the same second come in any order, and texts are equal that the      *)
(* column's collation holds for the same.                                  *)
(***************************************************************************)
EXTENDS Integers, Sequences, FiniteSets, SequencesExt

CONSTANTS
    TransactionTypes,  \* the types that are recorded
    Trades,            \* the transactions other requests make: [type, ship, at], `at` in seconds
    ShipTexts, TypeTexts, LimitTexts,  \* what a caller writes behind the "="
    Collated(_),       \* what is left of a text when case and accents are not told apart
    DEFAULT_TRANSACTION_LIMIT, MAX_TRANSACTION_LIMIT,
    Int64Max,          \* the largest number atoi reads
    MaxPairs,          \* bound: pairs in a query string
    MaxRows            \* bound: recorded transactions

(* Names are case-sensitive: "Type" is another name, that nobody asks for. *)
Pairs == [name : {"shipSymbol"}, value : ShipTexts] \cup [name : {"type", "Type"}, value : TypeTexts]
             \cup [name : {"limit"}, value : LimitTexts]

Types == {<<t>> : t \in TransactionTypes}

ASSUME ListingAssumption ==
    /\ Int64Max \in Nat
    /\ MAX_TRANSACTION_LIMIT \in 1..Int64Max
    /\ DEFAULT_TRANSACTION_LIMIT \in 1..MAX_TRANSACTION_LIMIT
    /\ \A t \in Trades : t.type \in TransactionTypes /\ t.at \in Nat
    /\ \A text \in ShipTexts \cup TypeTexts \cup LimitTexts : text \in Seq(STRING)
    /\ MaxPairs \in Nat

VARIABLES
    query,    \* the pairs of the query string, as written
    table,    \* the transactions recorded so far
    before,   \* those recorded when the request came (history)
    pc,       \* where the handler is
    wanted,   \* the type to list, or <<>> for all
    count,    \* the limit
    answer    \* what the caller is told

listVars == <<query, table, before, pc, wanted, count, answer>>

Answer(status, why, rows) == [status |-> status, why |-> why, rows |-> rows]
NoAnswer == Answer(0, "", <<>>)

-----------------------------------------------------------------------------
(* A pair with a ";" or a malformed escape is dropped. *)
Dropped(pair) == \E i \in 1..Len(pair.value) : pair.value[i] \in {";", "%"}

(* unescapeQuery, of what is not malformed: a plus is a space, and an escaped one a plus. *)
UnescapeQuery(text) ==
    [i \in 1..Len(text) |-> CASE text[i] = "+" -> " " [] text[i] = "%2B" -> "+" [] OTHER -> text[i]]

(* The pairs of that name which are read. *)
Readable(name) == {i \in 1..Len(query) : ~Dropped(query[i]) /\ query[i].name = name}

(* Query.get: the first of a repeated name, empty or not; empty when there is none. *)
Get(name) ==
    IF Readable(name) = {} THEN <<>>
    ELSE UnescapeQuery(query[CHOOSE i \in Readable(name) : \A j \in Readable(name) : i <= j].value)

Decimals == <<"0", "1", "2", "3", "4", "5", "6", "7", "8", "9">>
IsDigit(c) == \E i \in 1..10 : Decimals[i] = c
ValueOf(c) == (CHOOSE i \in 1..10 : Decimals[i] = c) - 1

(* Mutant: a number of any size is read. *)
FitsAlways(v) == TRUE

(* The number is within int64. *)
FitsInt64(v) == 0 - Int64Max - 1 <= v /\ v <= Int64Max

(* What digits come to. *)
Size(digits) ==
    LET size[n \in 0..Len(digits)] == IF n = 0 THEN 0 ELSE 10 * size[n - 1] + ValueOf(digits[n])
    IN  size[Len(digits)]

(* atoi: an optional sign and digits; NotANumber for anything else and for what does not fit. *)
NotANumber == 0 - Int64Max - 2

Atoi(text) ==
    LET signed == text # <<>> /\ text[1] \in {"+", "-"}
        digits == IF signed THEN Tail(text) ELSE text
        v      == IF signed /\ text[1] = "-" THEN 0 - Size(digits) ELSE Size(digits)
    IN  IF digits = <<>> \/ \E i \in 1..Len(digits) : ~IsDigit(digits[i]) THEN NotANumber
        ELSE IF FitsInt64(v) THEN v ELSE NotANumber

-----------------------------------------------------------------------------
ListInit ==
    /\ query \in UNION {[1..n -> Pairs] : n \in 0..MaxPairs}
    /\ table \in {{}} \cup {{[trade |-> t, id |-> 1]} : t \in Trades}
    /\ before = table
    /\ pc = "type"
    /\ wanted = <<>>
    /\ count = DEFAULT_TRANSACTION_LIMIT
    /\ answer = NoAnswer

(* Another request records a transaction. *)
Record ==
    /\ Cardinality(table) < MaxRows
    /\ pc # "done"
    /\ \E t \in Trades : table' = table \cup {[trade |-> t, id |-> Cardinality(table) + 1]}
    /\ UNCHANGED <<query, before, pc, wanted, count, answer>>

(* A bad type is reported before a bad limit. *)
RefuseType ==
    /\ pc = "type"
    /\ Get("type") # <<>>
    /\ Get("type") \notin Types
    /\ pc' = "done"
    /\ answer' = Answer(400, "type", <<>>)
    /\ UNCHANGED <<query, table, before, wanted, count>>

TakeType ==
    /\ pc = "type"
    /\ Get("type") \in {<<>>} \cup Types
    /\ wanted' = Get("type")
    /\ pc' = "limit"
    /\ UNCHANGED <<query, table, before, count, answer>>

BadLimit == Atoi(Get("limit")) = NotANumber \/ Atoi(Get("limit")) <= 0

RefuseLimit ==
    /\ pc = "limit"
    /\ Get("limit") # <<>> /\ BadLimit
    /\ pc' = "done"
    /\ answer' = Answer(400, "limit", <<>>)
    /\ UNCHANGED <<query, table, before, wanted, count>>

(* A larger limit is capped. *)
Capped(n) == IF n < MAX_TRANSACTION_LIMIT THEN n ELSE MAX_TRANSACTION_LIMIT

TakeLimit ==
    /\ pc = "limit"
    /\ Get("limit") = <<>> \/ ~BadLimit
    /\ count' = IF Get("limit") = <<>> THEN DEFAULT_TRANSACTION_LIMIT ELSE Capped(Atoi(Get("limit")))
    /\ pc' = "select"
    /\ UNCHANGED <<query, table, before, wanted, answer>>

SameShip(r) == Collated(<<r.trade.ship>>) = Collated(Get("shipSymbol"))

(* Mutant: the conditions are joined with OR. *)
SelectedByEither(r) ==
    \/ Get("shipSymbol") # <<>> /\ SameShip(r)
    \/ wanted # <<>> /\ <<r.trade.type>> = wanted
    \/ Get("shipSymbol") = <<>> /\ wanted = <<>>

(* listTransactions: the conditions of the WHERE clause. *)
Selected(r) ==
    /\ Get("shipSymbol") # <<>> => SameShip(r)
    /\ wanted # <<>> => <<r.trade.type>> = wanted

(* ORDER BY occurred_at DESC LIMIT count: the rows MySQL may return. *)
NewestFirst(rows) ==
    LET n == IF count < Cardinality(rows) THEN count ELSE Cardinality(rows)
    IN  {s \in [1..n -> rows] :
            /\ \A i, j \in 1..n : i < j => s[i] # s[j] /\ s[i].trade.at >= s[j].trade.at
            /\ \A r \in rows \ ToSet(s) : \A i \in 1..n : s[i].trade.at >= r.trade.at}

Select ==
    /\ pc = "select"
    /\ \E rows \in NewestFirst({r \in table : Selected(r)}) : answer' = Answer(200, "", rows)
    /\ pc' = "done"
    /\ UNCHANGED <<query, table, before, wanted, count>>

SelectFails ==
    /\ pc = "select"
    /\ answer' = Answer(500, "history", <<>>)
    /\ pc' = "done"
    /\ UNCHANGED <<query, table, before, wanted, count>>

ListNext == Record \/ RefuseType \/ TakeType \/ RefuseLimit \/ TakeLimit \/ Select \/ SelectFails

ListSpec == ListInit /\ [][ListNext]_listVars
-----------------------------------------------------------------------------
(***************************************************************************)
(* What the URL asks for, without the code: a text reads as the number n   *)
(* when it is n's digits behind any zeros, behind a plus or nothing.       *)
(***************************************************************************)
Numeral[n \in 0..Int64Max] == IF n < 10 THEN <<Decimals[n + 1]>> ELSE Append(Numeral[n \div 10], Decimals[(n % 10) + 1])

ReadsAs(text, n) ==
    \E plus \in {<<>>, <<"+">>}, zeros \in 0..Len(text) :
        text = plus \o [i \in 1..zeros |-> "0"] \o Numeral[n]

(* The value v is what the query string says of the name. *)
Says(name, v) ==
    \/ \E i \in 1..Len(query) :
          /\ query[i].name = name /\ ~Dropped(query[i]) /\ UnescapeQuery(query[i].value) = v
          /\ \A j \in 1..(i - 1) : query[j].name = name => Dropped(query[j])
    \/ v = <<>> /\ \A i \in 1..Len(query) : query[i].name = name => Dropped(query[i])

(* The ship a row tells of is the one the query string says, whatever its case. *)
SaysShip(ship) ==
    \E i \in 1..Len(query) : LET v == UnescapeQuery(query[i].value) IN
        query[i].name = "shipSymbol" /\ Says("shipSymbol", v) /\ Collated(v) = Collated(<<ship>>)

SaysLimit(n) ==
    \/ Says("limit", <<>>) /\ n = DEFAULT_TRANSACTION_LIMIT
    \/ \E i \in 1..Len(query) : LET v == UnescapeQuery(query[i].value) IN
          query[i].name = "limit" /\ Says("limit", v) /\ ReadsAs(v, n)

TypeIsGood == \E v \in {<<>>} \cup Types : Says("type", v)

(***************************************************************************)
(* A caller is refused exactly for what is wrong with their query string:  *)
(* for the type first, and for a limit that is not a number from 1 to the  *)
(* largest that can be read; never for a larger one than is served.        *)
(***************************************************************************)
RefusedForAReason ==
    pc = "done" /\ answer.status # 500 =>
        CASE ~TypeIsGood                               -> answer.why = "type"
          [] TypeIsGood /\ ~\E n \in 1..Int64Max : SaysLimit(n) -> answer.why = "limit"
          [] OTHER                                     -> answer.status = 200

(***************************************************************************)
(* A listing holds only what the filters let through, newest first, and no *)
(* row that was recorded before the request came is missing unless the     *)
(* listing is as long as was asked, or may be, with rows that are no       *)
(* older.  A filter that was asked for is never lost.                      *)
(***************************************************************************)
ListsWhatWasAsked ==
    answer.status = 200 =>
        LET rows == answer.rows
            Through(r) == /\ Says("shipSymbol", <<>>) \/ SaysShip(r.trade.ship)
                          /\ Says("type", <<>>) \/ Says("type", <<r.trade.type>>)
            Full == Len(rows) = MAX_TRANSACTION_LIMIT \/ SaysLimit(Len(rows))
        IN  /\ ToSet(rows) \subseteq {r \in table : Through(r)}
            /\ \A i, j \in 1..Len(rows) : i < j => rows[i] # rows[j] /\ rows[i].trade.at >= rows[j].trade.at
            /\ \E n \in 1..Int64Max : SaysLimit(n) /\ Len(rows) <= n
            /\ Len(rows) <= MAX_TRANSACTION_LIMIT
            /\ \A r \in before \ ToSet(rows) :
                   Through(r) => Full /\ \A i \in 1..Len(rows) : rows[i].trade.at >= r.trade.at
(* A caller is refused for a reason, or gets what their query string asks for. *)
AnswersTheQuery == RefusedForAReason /\ ListsWhatWasAsked
=============================================================================
