------------------------------- MODULE Unquote -------------------------------
(***************************************************************************)
(* What a JSON string says (src/gateway/json.ts): str, the reader of what  *)
(* stands between the quotes.  Well-formed UTF-8 is taken over in runs,    *)
(* each other byte becomes U+FFFD, escapes become their characters.        *)
(*                                                                         *)
(* A text is a sequence of bytes and whole escapes; whatever ends the      *)
(* reading, a quote or something that may not stand there, comes behind    *)
(* it.                                                                     *)
(***************************************************************************)
EXTENDS Integers, Sequences

CONSTANTS
    Bytes,       \* bytes that stand in a string: neither a quote, a backslash nor a control character
    Units,       \* what a \u escape writes
    MaxString    \* bound: bytes and escapes of a string

ASSUME UnquoteAssumption ==
    /\ Bytes \subseteq (32..255) \ {34, 92}
    /\ \A u \in Units : u \in Nat /\ u <= 65535
    /\ MaxString \in Nat

Byte(n)   == [t |-> "byte", n |-> n]
Unit(n)   == [t |-> "unit", n |-> n]     \* \uXXXX
Simple(n) == [t |-> "escape", n |-> n]   \* a backslash and a letter, for this character
Rune(n)   == [t |-> "rune", n |-> n]

Elements == {Byte(b) : b \in Bytes} \cup {Unit(u) : u \in Units} \cup {Simple(10)}

VARIABLES
    between,  \* what stands behind the opening quote
    ending,   \* and what behind that: "quote", "control", "bad escape", "cut escape" or "nothing"
    index,    \* where str is
    run,      \* where the run of well-formed text began
    parts,    \* the string so far: bytes that are taken over, and runes
    plain,    \* neither an escape nor a byte above 0x7f so far
    unquoted  \* "no", "string", "syntax" or "eof"

unquoteVars == <<between, ending, index, run, parts, plain, unquoted>>

-----------------------------------------------------------------------------
InRange(i, lo, hi) == i <= Len(between) /\ between[i].t = "byte" /\ between[i].n \in lo..hi
Cont(i) == InRange(i, 128, 191)

(* Mutant: a character may be written longer than it need be. *)
OverlongSecond(lead) == IF lead = 237 THEN 128..159 ELSE IF lead = 244 THEN 128..143 ELSE 128..191

(* What the second byte may be: E0 and F0 must not be overlong, ED no surrogate, F4 not above U+10FFFF. *)
SecondByte(lead) ==
    CASE lead = 224 -> 160..191
      [] lead = 237 -> 128..159
      [] lead = 240 -> 144..191
      [] lead = 244 -> 128..143
      [] OTHER      -> 128..191

(* validLength: of the well-formed sequence at i, or 0. *)
ValidLength(i) ==
    LET lead == between[i].n
        second == i < Len(between) /\ between[i + 1].t = "byte" /\ between[i + 1].n \in SecondByte(lead)
    IN  CASE lead < 128 -> 1
          [] lead \in 194..223 /\ second -> 2
          [] lead \in 224..239 /\ second /\ Cont(i + 2) -> 3
          [] lead \in 240..244 /\ second /\ Cont(i + 2) /\ Cont(i + 3) -> 4
          [] OTHER -> 0

IsHigh(n) == 55296 <= n /\ n <= 56319     \* D800..DBFF
IsLow(n)  == 56320 <= n /\ n <= 57343     \* DC00..DFFF
High(e) == e.t = "unit" /\ IsHigh(e.n)
Low(e)  == e.t = "unit" /\ IsLow(e.n)

(* The character of a high surrogate and a low one. *)
Combined(high, low) == Rune(65536 + (high.n - 55296) * 1024 + (low.n - 56320))

Replacement == Rune(65533)

(* flush: the run up to here. *)
Flushed == parts \o SubSeq(between, run, index - 1)

UnquoteInit ==
    /\ between \in UNION {[1..n -> Elements] : n \in 0..MaxString}
    /\ ending \in {"quote", "control", "bad escape", "cut escape", "nothing"}
    /\ index = 1 /\ run = 1
    /\ parts = <<>>
    /\ plain = TRUE
    /\ unquoted = "no"

Here == between[index]
Inside(t) == unquoted = "no" /\ index <= Len(between) /\ Here.t = t

(* Well-formed text stays in the run. *)
TakeOver ==
    /\ Inside("byte") /\ ValidLength(index) > 0
    /\ index' = index + ValidLength(index)
    /\ plain' = (plain /\ Here.n < 128)
    /\ UNCHANGED <<between, ending, run, parts, unquoted>>

(* What is behind the run and takes n elements is replaced by the runes. *)
ReplaceBy(n, runes) ==
    /\ parts' = Flushed \o runes
    /\ index' = index + n
    /\ run' = index + n
    /\ plain' = FALSE
    /\ UNCHANGED <<between, ending, unquoted>>

BadByte == Inside("byte") /\ ValidLength(index) = 0 /\ ReplaceBy(1, <<Replacement>>)

SimpleEscape == Inside("escape") /\ ReplaceBy(1, <<Rune(Here.n)>>)

(* A high surrogate and a low one are one character; what follows any other is read on its own. *)
UnicodeEscape ==
    /\ Inside("unit")
    /\ IF High(Here) /\ index < Len(between) /\ Low(between[index + 1])
       THEN ReplaceBy(2, <<Combined(Here, between[index + 1])>>)
       ELSE ReplaceBy(1, <<IF High(Here) \/ Low(Here) THEN Replacement ELSE Rune(Here.n)>>)

StringEnds ==
    /\ unquoted = "no" /\ index > Len(between)
    /\ parts' = Flushed
    /\ unquoted' = CASE ending = "quote" -> "string"
                     [] ending \in {"cut escape", "nothing"} -> "eof"
                     [] OTHER -> "syntax"
    /\ UNCHANGED <<between, ending, index, run, plain>>

UnquoteNext == TakeOver \/ BadByte \/ SimpleEscape \/ UnicodeEscape \/ StringEnds

UnquoteSpec == UnquoteInit /\ [][UnquoteNext]_unquoteVars
-----------------------------------------------------------------------------
(* UTF-8, by k bytes: what the lead byte is marked with, where such lead bytes end, and the least that needs so many. *)
Mark(k)  == CASE k = 1 -> 0 [] k = 2 -> 192 [] k = 3 -> 224 [] OTHER -> 240
Above(k) == CASE k = 1 -> 128 [] k = 2 -> 224 [] k = 3 -> 240 [] OTHER -> 248
Supplementary == 65536
Least(k) == CASE k = 1 -> 0 [] k = 2 -> 128 [] k = 3 -> 2048 [] OTHER -> Supplementary
IsCodePoint(n) == 0 <= n /\ n <= 1114111 /\ ~IsHigh(n) /\ ~IsLow(n)

Bits(i) == between[i].n % 64

Code(i, k) ==
    LET lead == between[i].n - Mark(k)
    IN  CASE k = 1 -> lead
          [] k = 2 -> 64 * lead + Bits(i + 1)
          [] k = 3 -> 64 * (64 * lead + Bits(i + 1)) + Bits(i + 2)
          [] OTHER -> 64 * (64 * (64 * lead + Bits(i + 1)) + Bits(i + 2)) + Bits(i + 3)

(* The k elements from i on are the bytes of one character, in the shortest encoding. *)
IsCharacter(i, k) ==
    /\ i + k - 1 <= Len(between)
    /\ \A j \in i..(i + k - 1) : between[j].t = "byte"
    /\ \A j \in (i + 1)..(i + k - 1) : between[j].n \div 64 = 2
    /\ between[i].n >= Mark(k) /\ between[i].n < Above(k)
    /\ IsCodePoint(Code(i, k)) /\ Code(i, k) >= Least(k)

(* The character above the basic plane that two surrogates make, by their last ten bits. *)
Paired(high, low) == Rune(Supplementary + 1024 * (high.n % 1024) + (low.n % 1024))

(* What the element at p is worth: by the character it belongs to, if there is one. *)
Worth(p) ==
    LET e == between[p] IN
    CASE e.t = "escape" -> <<Rune(e.n)>>
      [] e.t = "byte" ->
            IF \E i \in 1..p, k \in 1..4 : p < i + k /\ IsCharacter(i, k) THEN <<e>> ELSE <<Replacement>>
      [] High(e) -> IF p < Len(between) /\ Low(between[p + 1])
                    THEN <<Paired(e, between[p + 1])>> ELSE <<Replacement>>
      [] Low(e)  -> IF p > 1 /\ High(between[p - 1]) THEN <<>> ELSE <<Replacement>>
      [] OTHER   -> <<Rune(e.n)>>

(* What the first n elements are worth. *)
Worths(n) ==
    LET worths[p \in 0..Len(between)] == IF p = 0 THEN <<>> ELSE worths[p - 1] \o Worth(p)
    IN  worths[n]

(***************************************************************************)
(* A string says what Go makes of it: every character that is well-formed  *)
(* stays, every byte that belongs to none is one U+FFFD, two surrogates    *)
(* that belong together are one character and any other is U+FFFD; it is   *)
(* plain only if that changed nothing.  (src/gateway/json.ts:16, 50.)      *)
(***************************************************************************)
SaysWhatGoReads ==
    unquoted # "no" =>
        /\ parts = Worths(Len(between))
        /\ plain <=> \A p \in 1..Len(between) : between[p].t = "byte" /\ between[p].n < 128
=============================================================================
