------------------------------ MODULE JsonText ------------------------------
(***************************************************************************)
(* The JSON reader (src/gateway/json.ts): parse, the iterative parser with *)
(* a stack of frames, as parseJson and as parseFirstJson.  It reads on     *)
(* until it has a value or fails, so the text is only as long as it read.  *)
(*                                                                         *)
(* A text is a sequence of tokens: brackets, comma and colon, strings,     *)
(* other scalars (numbers and literals, as long as they go on), space, a   *)
(* string or a scalar that the end of the text cuts, and "?", which begins *)
(* nothing or breaks a string or a scalar off.                             *)
(***************************************************************************)
EXTENDS Integers, Sequences, SequencesExt

CONSTANTS
    JsonStrings,  \* strings
    JsonScalars,  \* numbers and literals
    MAX_DEPTH,    \* arrays and objects within each other
    MaxTokens     \* bound: tokens of a text

Brackets   == {"{", "}", "[", "]"}
CutTokens  == {"cut string", "cut scalar"}
JsonTokens == Brackets \cup {",", ":", " ", "?"} \cup JsonStrings \cup JsonScalars \cup CutTokens

ASSUME JsonTextAssumption ==
    /\ MAX_DEPTH \in Nat /\ MaxTokens \in Nat
    /\ JsonStrings \cap JsonScalars = {}
    /\ (JsonStrings \cup JsonScalars) \cap (Brackets \cup CutTokens \cup {",", ":", " ", "?"}) = {}

VARIABLES
    ignoreRest,  \* parseFirstJson
    scanned,     \* the tokens that were read
    expects,     \* "value", "opened" (behind a bracket), "key", "colon", "after" a value
    stack,       \* the open frames: [obj, key, members, items], the innermost last
    value,       \* what was read last, or None
    parsed       \* "no", "value", or why not: "syntax", "eof"

jsonVars == <<ignoreRest, scanned, expects, stack, value, parsed>>

Closing(frame) == IF frame.obj THEN "}" ELSE "]"

None         == [t |-> "none"]
ScalarOf(tok) == [t |-> IF tok \in JsonStrings THEN "str" ELSE "scalar", v |-> tok]
NodeOf(frame) == IF frame.obj THEN [t |-> "obj", members |-> frame.members] ELSE [t |-> "arr", items |-> frame.items]

(* Mutant: a frame forgets what came before. *)
PushedOver(frame, node) ==
    IF frame.obj THEN [frame EXCEPT !.members = <<[key |-> frame.key, value |-> node]>>]
    ELSE [frame EXCEPT !.items = <<node>>]

(* A value becomes the next item or member of its frame, a repeated key's too. *)
Pushed(frame, node) ==
    IF frame.obj THEN [frame EXCEPT !.members = Append(@, [key |-> frame.key, value |-> node])]
    ELSE [frame EXCEPT !.items = Append(@, node)]

-----------------------------------------------------------------------------
JsonInit ==
    /\ ignoreRest \in BOOLEAN
    /\ scanned = <<>>
    /\ expects = "value"
    /\ stack = <<>>
    /\ value = None
    /\ parsed = "no"

StillReads == parsed = "no"

Reads(tok) == StillReads /\ Len(scanned) < MaxTokens /\ scanned' = Append(scanned, tok)

(* ws: before a value, behind a bracket, around a key and behind a value. *)
SkipSpace ==
    /\ Reads(" ")
    /\ UNCHANGED <<ignoreRest, expects, stack, value, parsed>>

WantsValue == expects = "value" \/ (expects = "opened" /\ ~Last(stack).obj)
WantsKey   == expects = "key" \/ (expects = "opened" /\ Last(stack).obj)

(* A value is complete: at the top it is the result, unless something may still follow it. *)
Complete(frames, node) ==
    IF frames = <<>>
    THEN /\ expects' = "after"
         /\ stack' = frames
         /\ value' = node
         /\ parsed' = IF ignoreRest THEN "value" ELSE "no"
    ELSE /\ expects' = "after"
         /\ stack' = Append(Front(frames), Pushed(Last(frames), node))
         /\ value' = node
         /\ parsed' = "no"

ReadScalar(tok) ==
    /\ WantsValue /\ tok \in JsonStrings \cup JsonScalars
    /\ Reads(tok)
    /\ Complete(stack, ScalarOf(tok))
    /\ UNCHANGED ignoreRest

(* Mutant: one bracket more. *)
TooDeepByOne == Len(stack) > MAX_DEPTH

TooDeep == Len(stack) >= MAX_DEPTH

Open(tok) ==
    /\ WantsValue /\ tok \in {"{", "["}
    /\ ~TooDeep
    /\ Reads(tok)
    /\ expects' = "opened"
    /\ stack' = Append(stack, [obj |-> tok = "{", key |-> "", members |-> <<>>, items |-> <<>>])
    /\ UNCHANGED <<ignoreRest, value, parsed>>

(* A bracket closes behind its opening or behind a value, never behind a comma. *)
Close(tok) ==
    /\ expects \in {"opened", "after"} /\ stack # <<>> /\ tok = Closing(Last(stack))
    /\ Reads(tok)
    /\ Complete(Front(stack), NodeOf(Last(stack)))
    /\ UNCHANGED ignoreRest

Key(tok) ==
    /\ WantsKey /\ tok \in JsonStrings
    /\ Reads(tok)
    /\ expects' = "colon"
    /\ stack' = Append(Front(stack), [Last(stack) EXCEPT !.key = tok])
    /\ UNCHANGED <<ignoreRest, value, parsed>>

Colon ==
    /\ expects = "colon"
    /\ Reads(":")
    /\ expects' = "value"
    /\ UNCHANGED <<ignoreRest, stack, value, parsed>>

Comma ==
    /\ expects = "after" /\ stack # <<>>
    /\ Reads(",")
    /\ expects' = IF Last(stack).obj THEN "key" ELSE "value"
    /\ UNCHANGED <<ignoreRest, stack, value, parsed>>

Stops(why) == parsed' = why /\ UNCHANGED <<ignoreRest, expects, stack, value>>

(* The end of the text: a whole value, or more was needed. *)
TextEnds ==
    /\ StillReads
    /\ Stops(IF expects = "after" /\ stack = <<>> THEN "value" ELSE "eof")
    /\ UNCHANGED scanned

(* It ends within a string or a scalar that may stand there. *)
TextIsCut(tok) ==
    /\ (WantsValue /\ tok \in CutTokens) \/ (WantsKey /\ tok = "cut string")
    /\ Reads(tok)
    /\ Stops("eof")

(* Any other token is refused, where it stands. *)
Hopeless(tok) ==
    CASE WantsValue        -> /\ tok \notin JsonStrings \cup JsonScalars \cup CutTokens
                              /\ tok \in {"{", "["} => TooDeep
      [] WantsKey          -> tok \notin JsonStrings \cup {"cut string"}
      [] expects = "colon" -> tok # ":"
      [] expects = "after" -> stack # <<>> => tok \notin {",", Closing(Last(stack))}

Refuse(tok) ==
    /\ Reads(tok)
    /\ tok # " " /\ Hopeless(tok)
    /\ ~(expects = "opened" /\ tok = Closing(Last(stack)))
    /\ Stops("syntax")

JsonNext ==
    \/ SkipSpace \/ Colon \/ Comma \/ TextEnds
    \/ \E tok \in JsonTokens : ReadScalar(tok) \/ Open(tok) \/ Close(tok) \/ Key(tok) \/ TextIsCut(tok) \/ Refuse(tok)

JsonSpec == JsonInit /\ [][JsonNext]_jsonVars
-----------------------------------------------------------------------------
(***************************************************************************)
(* JSON, as a grammar over the tokens without space: what is a value from  *)
(* the token i to the token j, with d levels left.                         *)
(***************************************************************************)
Closes == [t \in {"{", "["} |-> IF t = "{" THEN "}" ELSE "]"]

IsJson(text) ==
    LET n == Len(text)
        is[i \in 1..n, j \in 0..n, d \in 0..MAX_DEPTH] ==
            \/ i = j /\ text[i] \in JsonStrings \cup JsonScalars
            \/ /\ i < j /\ d > 0 /\ text[i] \in {"{", "["} /\ text[j] = Closes[text[i]]
               /\ \/ j = i + 1
                  \/ \E own \in SUBSET {x \in (i + 1)..(j - 1) : text[x] = ","} :
                        LET cuts == own \cup {i, j} IN
                            \A c \in cuts \ {j} :
                                LET e == (CHOOSE x \in cuts : x > c /\ \A y \in cuts : y > c => x <= y) - 1
                                IN  IF text[i] = "["
                                    THEN c + 1 <= e /\ is[c + 1, e, d - 1]
                                    ELSE /\ c + 3 <= e /\ text[c + 1] \in JsonStrings /\ text[c + 2] = ":"
                                         /\ is[c + 3, e, d - 1]
    IN  n > 0 /\ is[1, n, MAX_DEPTH]

Spaceless(text) == SelectSeq(text, LAMBDA t : t # " ")

(* The text could go on to a value: something for what is missing, and closing brackets. *)
CouldGoOn(text) ==
    LET opened == Len(SelectSeq(text, LAMBDA t : t \in {"{", "["}))
        closed == Len(SelectSeq(text, LAMBDA t : t \in {"}", "]"}))
    IN
    \E some \in {<<>>} \cup {<<s>> : s \in JsonScalars} \cup UNION {{<<":", n>>, <<k, ":", n>>} : k \in JsonStrings, n \in JsonScalars},
       closing \in [1..(opened - closed) -> {"}", "]"}] :
        IsJson(text \o some \o closing)

(* The tokens of a value, in order. *)
RECURSIVE TokensOf(_)
TokensOf(node) ==
    LET Joined(parts) == FoldLeft(LAMBDA all, p : IF all = <<>> THEN p ELSE all \o <<",">> \o p, <<>>, parts)
    IN  CASE node.t \in {"str", "scalar"} -> <<node.v>>
          [] node.t = "arr" -> <<"[">> \o Joined([i \in 1..Len(node.items) |-> TokensOf(node.items[i])]) \o <<"]">>
          [] node.t = "obj" -> <<"{">> \o Joined([i \in 1..Len(node.members) |->
                                   <<node.members[i].key, ":">> \o TokensOf(node.members[i].value)]) \o <<"}">>

(***************************************************************************)
(* The reader takes exactly JSON no deeper than the limit, and loses none  *)
(* of it: the value holds every member, repeated keys too, in order.  It   *)
(* says "eof" exactly where the text could have gone on, and refuses at    *)
(* the first token that makes it hopeless.  (src/gateway/json.ts:9-14, 24.) *)
(***************************************************************************)
ReadsWhatIsJson ==
    LET text == Spaceless(scanned)
        cut  == text # <<>> /\ Last(text) \in CutTokens
        whole == IF ~cut THEN text
                 ELSE Append(Front(text), IF Last(text) = "cut string" THEN CHOOSE s \in JsonStrings : TRUE
                                          ELSE CHOOSE s \in JsonScalars : TRUE)
    IN  CASE parsed = "value"  -> IsJson(text) /\ TokensOf(value) = text
          [] parsed = "eof"    -> ~IsJson(text) /\ CouldGoOn(whole)
          [] parsed = "syntax" -> ~CouldGoOn(whole) /\ CouldGoOn(Spaceless(Front(scanned)))
          [] OTHER             -> TRUE
=============================================================================
