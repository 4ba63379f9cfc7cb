------------------------------ MODULE Decoding ------------------------------
(***************************************************************************)
(* A JSON text becomes a typed value (src/gateway/decode.ts): decode, for  *)
(* an answer of the gateway, and decodeFirstValue, for a caller's body.    *)
(* The members of the outer object are bound one after the other into one  *)
(* value: names are matched whatever their case, unknown ones are dropped, *)
(* a repeated one is merged into what is there.                            *)
(*                                                                         *)
(* The schema is the shape they all have (src/gateway/schema.ts): a struct *)
(* of scalars, structs and lists of structs.  A name is written as in the  *)
(* schema, in another case (which folds to it), or is unknown.  A number's *)
(* text stands for its class: in range, with a fraction or an exponent, or *)
(* out of int64.                                                           *)
(***************************************************************************)
EXTENDS Integers, Sequences, SequencesExt

CONSTANTS
    Int64s,      \* literals that are an int64, "0" among them
    NotInt64s,   \* literals that are a number but no int64
    Strings,     \* string values
    Keys,        \* names that are written in the outer object
    InnerKeys,   \* and in an inner one
    MaxMembers, MaxInnerMembers,  \* bounds: members of the outer object, and of an inner one
    MaxItems     \* bound: items of a list

ASSUME DecodingAssumption ==
    /\ "0" \in Int64s /\ Int64s \cap NotInt64s = {}
    /\ MaxMembers \in Nat /\ MaxInnerMembers \in Nat /\ MaxItems \in Nat

(* The schema: its kinds of field.  "units" and "symbol" are also the members of every inner struct. *)
Scalars == [units |-> "int", symbol |-> "string"]
Inner   == DOMAIN Scalars
Fields  == Inner \cup {"cargo", "inventory"}     \* a struct, and a list of structs

(* foldName: the field a name is for. *)
Folded(key) == CASE key = "UNITS" -> "units" [] key = "SYMBOL" -> "symbol" [] OTHER -> key

-----------------------------------------------------------------------------
(* What can be written: null, a scalar, an array, an object. *)
Node(t, v, items, members) == [t |-> t, v |-> v, items |-> items, members |-> members]
NullNode   == Node("null", "", <<>>, <<>>)
ScalarNodes == {Node("num", v, <<>>, <<>>) : v \in Int64s \cup NotInt64s} \cup {Node("str", v, <<>>, <<>>) : v \in Strings}
UpTo(S, n) == UNION {[1..k -> S] : k \in 0..n}
Objects(keys, nodes, n) == {Node("obj", "", <<>>, m) : m \in UpTo([key : keys, value : nodes], n)}
InnerNodes == {NullNode, Node("num", "0", <<>>, <<>>)} \cup Objects(InnerKeys, {NullNode} \cup ScalarNodes, MaxInnerMembers)
Lists == {Node("arr", "", items, <<>>) : items \in UpTo(InnerNodes, MaxItems)}

-----------------------------------------------------------------------------
(* What it becomes. *)
ZeroScalar(kind) == IF kind = "int" THEN "0" ELSE ""
ZeroInner == [f \in Inner |-> ZeroScalar(Scalars[f])]
NullList  == [null |-> TRUE, items |-> <<>>]
Zero == [f \in Fields |-> CASE f \in Inner     -> ZeroScalar(Scalars[f])
                            [] f = "cargo"     -> ZeroInner
                            [] f = "inventory" -> NullList]

(* bind refuses: the node is of another type, or a number is no int64.  null always fits. *)
ScalarFits(node, kind) ==
    \/ node.t = "null"
    \/ kind = "int" /\ node.t = "num" /\ node.v \in Int64s
    \/ kind = "string" /\ node.t = "str"

(* Mutant: what is not an object is passed over. *)
InnerFitsLoosely(node) ==
    \A i \in 1..Len(node.members) :
        Folded(node.members[i].key) \in Inner =>
            ScalarFits(node.members[i].value, Scalars[Folded(node.members[i].key)])

InnerFits(node) ==
    \/ node.t = "null"
    \/ /\ node.t = "obj"
       /\ \A i \in 1..Len(node.members) :
             Folded(node.members[i].key) \in Inner =>
                 ScalarFits(node.members[i].value, Scalars[Folded(node.members[i].key)])

ListFits(node) ==
    \/ node.t = "null"
    \/ node.t = "arr" /\ \A k \in 1..Len(node.items) : InnerFits(node.items[k])

Fits(node, f) ==
    CASE f \in Inner       -> ScalarFits(node, Scalars[f])
      [] f = "cargo"       -> InnerFits(node)
      [] f = "inventory"   -> ListFits(node)

(* bind, of a scalar: null changes nothing. *)
BindScalar(node, kind, existing) == IF node.t = "null" THEN existing ELSE node.v

(* bind, of a struct of scalars: member after member, into what an earlier repeat has left. *)
BindInner(node, existing) ==
    LET after[k \in 0..Len(node.members)] ==
            IF k = 0 THEN existing
            ELSE LET m == node.members[k]
                     f == Folded(m.key)
                 IN  IF f \in Inner
                     THEN [after[k - 1] EXCEPT ![f] = BindScalar(m.value, Scalars[f], @)]
                     ELSE after[k - 1]
    IN  after[Len(node.members)]

(* Mutant: an element begins anew in a repeated array. *)
BeforeForgotten(list, k) == ZeroInner

(* before[k]: the earlier array's element there, if it had one. *)
Before(list, k) == IF k <= Len(list.items) THEN list.items[k] ELSE ZeroInner

(* bind, of a list: null resets it; an array replaces it, element by element merged into the earlier one. *)
BindList(node, existing) ==
    IF node.t = "null" THEN NullList
    ELSE [null |-> FALSE, items |-> [k \in 1..Len(node.items) |-> BindInner(node.items[k], Before(existing, k))]]

Bind(node, f, existing) ==
    CASE f \in Inner     -> BindScalar(node, Scalars[f], existing)
      [] f = "cargo"     -> BindInner(node, existing)
      [] f = "inventory" -> BindList(node, existing)

-----------------------------------------------------------------------------
VARIABLES
    source,   \* "answer" or "request"
    body,     \* what the bytes are: "empty", "blank", "cut", "garbage", "value", or "value and more"
    doc,      \* the first value in them
    bound,    \* members of it that are bound
    into,     \* the value
    result    \* "pending", "bound", or why not: "EOF", "unexpected EOF", "syntax", "misfit"

decodeVars == <<source, body, doc, bound, into, result>>

Outer ==
    [key : Keys \ {"cargo", "inventory"}, value : {NullNode} \cup ScalarNodes]
        \cup [key : Keys \cap {"cargo"}, value : InnerNodes]
        \cup [key : Keys \cap {"inventory"}, value : {NullNode, Node("obj", "", <<>>, <<>>)} \cup Lists]

(* (A request's value that nothing follows is read like one that something follows.) *)
DecodeInit ==
    /\ source \in {"answer", "request"}
    /\ \/ /\ body = IF source = "answer" THEN "value" ELSE "value and more"
          /\ doc \in {NullNode, Node("str", "", <<>>, <<>>)} \cup
                          {Node("obj", "", <<>>, m) : m \in UpTo(Outer, MaxMembers)}
       \/ body \in {"empty", "blank", "cut", "garbage", "value and more"} /\ doc = NullNode
    /\ bound = 0
    /\ into = Zero
    /\ result = "pending"

Ends(how) ==
    /\ result' = how
    /\ UNCHANGED <<source, body, doc, bound, into>>

(* parseJson takes one value and nothing after it; parseFirstJson does not look at what follows. *)
Unparsable ==
    \/ body \in {"blank", "cut", "garbage"}
    \/ source = "answer" /\ body = "value and more"

(* An empty answer is the zero value; an empty request body has no first value. *)
EmptyBody ==
    /\ result = "pending" /\ body = "empty"
    /\ Ends(IF source = "answer" THEN "bound" ELSE "EOF")

SyntaxError ==
    /\ result = "pending" /\ body # "empty" /\ Unparsable
    /\ Ends(CASE source = "request" /\ body = "blank" -> "EOF"
              [] source = "request" /\ body = "cut"   -> "unexpected EOF"
              [] OTHER                                -> "syntax")

Parsed == result = "pending" /\ body # "empty" /\ ~Unparsable

(* A top-level null changes nothing; anything but an object is refused. *)
NotAnObject ==
    /\ Parsed /\ doc.t # "obj"
    /\ Ends(IF doc.t = "null" THEN "bound" ELSE "misfit")

(* The next member: for a field of the schema, or dropped. *)
NextMember == doc.members[bound + 1]

BindMember ==
    /\ Parsed /\ bound < Len(doc.members)
    /\ LET f == Folded(NextMember.key) IN
          /\ f \in Fields => Fits(NextMember.value, f)
          /\ into' = IF f \in Fields THEN [into EXCEPT ![f] = Bind(NextMember.value, f, @)] ELSE into
    /\ bound' = bound + 1
    /\ UNCHANGED <<source, body, doc, result>>

RefuseMember ==
    /\ Parsed /\ bound < Len(doc.members)
    /\ LET f == Folded(NextMember.key) IN f \in Fields /\ ~Fits(NextMember.value, f)
    /\ Ends("misfit")

AllBound ==
    /\ Parsed /\ doc.t = "obj" /\ bound = Len(doc.members)
    /\ Ends("bound")

DecodeNext == EmptyBody \/ SyntaxError \/ NotAnObject \/ BindMember \/ RefuseMember \/ AllBound

DecodeSpec == DecodeInit /\ [][DecodeNext]_decodeVars

-----------------------------------------------------------------------------
(***************************************************************************)
(* The value, without the loop: a scalar is the last one written for it    *)
(* that is not null, wherever its object was repeated, or zero.            *)
(***************************************************************************)
Sayings(obj, f) == {j \in 1..Len(obj.members) : Folded(obj.members[j].key) = f /\ obj.members[j].value.t # "null"}
LastSaid(obj, f) == obj.members[Max(Sayings(obj, f))].value.v

(* Several objects, one for each place that writes the struct. *)
InnerReads(objs) ==
    [f \in Inner |-> LET by == {i \in DOMAIN objs : Sayings(objs[i], f) # {}}
                     IN  IF by = {} THEN ZeroScalar(Scalars[f]) ELSE LastSaid(objs[Max(by)], f)]

(* The first n members of the text: what they say, and which of them are for f. *)
Value(i) == doc.members[i].value
For(f, n) == {i \in 1..n : Folded(doc.members[i].key) = f}

ScalarReads(f, n) ==
    LET said == {i \in For(f, n) : Value(i).t # "null"} IN
    IF said = {} THEN ZeroScalar(Scalars[f]) ELSE Value(Max(said)).v

(***************************************************************************)
(* A list is its last array, null when a null came later or no array at    *)
(* all.  Its k-th element is merged from the arrays before it, as far back *)
(* as none was null or too short to have one.                              *)
(***************************************************************************)
ListReads(n) ==
    LET all == For("inventory", n)
        GoesBack(k) == {i \in all : \A j \in all : i <= j => Value(j).t = "arr" /\ k <= Len(Value(j).items)}
    IN  IF all = {} \/ Value(Max(all)).t = "null" THEN NullList
        ELSE [null |-> FALSE, items |-> [k \in 1..Len(Value(Max(all)).items) |->
                 InnerReads([i \in GoesBack(k) |-> Value(i).items[k]])]]

TextReads(n) == [f \in Fields |-> CASE f \in Inner     -> ScalarReads(f, n)
                                    [] f = "cargo"     -> InnerReads([i \in For(f, n) |-> Value(i)])
                                    [] f = "inventory" -> ListReads(n)]

(* The value that is handed on is what the text says, however its members are repeated, spelt and nulled. *)
BoundAsWritten == result = "bound" => into = TextReads(Len(doc.members))

JsonType == [units |-> "num", symbol |-> "str", cargo |-> "obj", inventory |-> "arr"]

WrongScalar(n, f) == n.t # "null" /\ (n.t # JsonType[f] \/ (f = "units" /\ n.v \notin Int64s))

WrongObject(n) ==
    n.t # "null" /\ (n.t # "obj" \/ \E m \in ToSet(n.members) : Folded(m.key) \in Inner /\ WrongScalar(m.value, Folded(m.key)))

WrongList(n) == n.t # "null" /\ (n.t # "arr" \/ \E item \in ToSet(n.items) : WrongObject(item))

Misfits ==
    \/ doc.t \notin {"null", "obj"}
    \/ \E m \in ToSet(doc.members) :
          CASE Folded(m.key) \in Inner     -> WrongScalar(m.value, Folded(m.key))
            [] Folded(m.key) = "cargo"     -> WrongObject(m.value)
            [] Folded(m.key) = "inventory" -> WrongList(m.value)
            [] OTHER                       -> FALSE

(***************************************************************************)
(* Nothing that does not fit is bound, not even where a later repeat would *)
(* have replaced it: neither a number that is no int64, nor a value of     *)
(* another type.  What is refused is refused for such a member, or for the *)
(* text itself.                                                            *)
(***************************************************************************)
RefusedIfMisfit ==
    /\ result = "bound" => ~Misfits
    /\ result = "misfit" => Misfits
    /\ result = "bound" /\ body \notin {"value", "value and more"} => source = "answer" /\ into = Zero

(* Both, for model checking: the value is what the text says, or the text is refused. *)
DecodesWhatIsWritten == BoundAsWritten /\ RefusedIfMisfit
=============================================================================
