-------------------------------- MODULE Paths --------------------------------
(***************************************************************************)
(* What happens to a request's path before a route sees it                 *)
(* (src/http/muxCompat.ts): it is percent-decoded, a path that is not      *)
(* clean is redirected to the clean one, and routing and the handlers'     *)
(* path variables use the decoded bytes.  The caller follows the redirect. *)
(*                                                                         *)
(* A path is a sequence of bytes, a target a sequence of tokens: a byte    *)
(* written as it is, or percent-escaped.  A "%" written as it is stands    *)
(* for one that is not followed by two hex digits.  The target of an       *)
(* absolute request line is what is behind its authority, which is not     *)
(* looked at (a "#" in it is refused).                                     *)
(***************************************************************************)
EXTENDS Integers, Sequences, FiniteSets, SequencesExt

CONSTANTS
    Literals,   \* the bytes a request writes as they are
    Escapes,    \* the bytes a request escapes
    MaxLength   \* bound: tokens after the leading slash

Tokens == [byte : Literals, escaped : {FALSE}] \cup [byte : Escapes, escaped : {TRUE}]

ASSUME AlphabetAssumption ==
    /\ {"/", "."} \subseteq Literals
    /\ MaxLength \in Nat

VARIABLES
    asked,    \* the target the caller asked for first
    target,   \* the target of the request being served
    verdict,  \* "pending", "bad request", "moved", or "routed"
    hops      \* redirects followed so far

pathsVars == <<asked, target, verdict, hops>>

-----------------------------------------------------------------------------
Slash == [byte |-> "/", escaped |-> FALSE]

(* unescapeBytes returns null. *)
Malformed(raw) == \E i \in 1..Len(raw) : raw[i].byte = "%" /\ ~raw[i].escaped

(* "OPTIONS *" and the like: nothing to route on. *)
Rootless(raw) == Len(raw) > 0 /\ raw[1] # Slash

(* unescapeBytes. *)
Unescape(raw) == [i \in 1..Len(raw) |-> raw[i].byte]

(* Mutant: a "%" goes into the Location as it is. *)
KeptPercent(byte) == byte \in {"/", ".", "a", "%"}

(* escapeWith's unreserved bytes, and the ones kept for a Location. *)
Kept(byte) == byte \in {"/", ".", "a"}

EscapeForLocation(path) == [i \in 1..Len(path) |-> [byte |-> path[i], escaped |-> ~Kept(path[i])]]

(* One byte more of a path: a slash begins a segment. *)
AddByte(segs, byte) == IF byte = "/" THEN Append(segs, <<>>) ELSE Append(Front(segs), Append(Last(segs), byte))

(* String.split("/"), byte by byte. *)
Split(path) ==
    LET read[n \in 0..Len(path)] == IF n = 0 THEN << <<>> >> ELSE AddByte(read[n - 1], path[n])
    IN  read[Len(path)]

AddSegment(path, seg) == path \o <<"/">> \o seg

Join(segs) ==
    LET path[n \in 0..Len(segs)] == IF n = 0 THEN <<>> ELSE AddSegment(path[n - 1], segs[n])
    IN  path[Len(segs)]

Dot    == <<".">>
DotDot == <<".", ".">>

(* cleanPath's loop, one segment. *)
Push(out, seg) ==
    CASE seg \in {<<>>, Dot} -> out
      [] seg = DotDot        -> IF out = <<>> THEN out ELSE Front(out)
      [] OTHER               -> Append(out, seg)

Stacked(segs) ==
    LET out[n \in 0..Len(segs)] == IF n = 0 THEN <<>> ELSE Push(out[n - 1], segs[n])
    IN  out[Len(segs)]

Rooted(path) == IF path = <<>> \/ path[1] # "/" THEN <<"/">> \o path ELSE path

CleanPath(path) ==
    LET rooted == Rooted(path)
        out    == Stacked(Split(rooted))
    IN  IF out = <<>> THEN <<"/">>
        ELSE IF Last(rooted) = "/" THEN Append(Join(out), "/") ELSE Join(out)

(* Mutant: the slash itself is left at the end of the next segment. *)
NextEndOnSlash(slash) == slash

NextEnd(slash) == slash - 1

(* segmentFromEnd: the last slash up to `end` begins the segment; 0 when there is none. *)
LastSlash(path, end) ==
    LET slashes == {i \in 1..end : path[i] = "/"}
    IN  IF slashes = {} THEN 0 ELSE Max(slashes)

SegmentFromEnd(path, fromEnd) ==
    LET end[n \in 0..fromEnd] ==
            IF n = 0 THEN Len(path)
            ELSE IF end[n - 1] < 1 \/ LastSlash(path, end[n - 1]) = 0 THEN 0
            ELSE NextEnd(LastSlash(path, end[n - 1]))
    IN  IF end[fromEnd] < 1 THEN <<>>
        ELSE SubSeq(path, LastSlash(path, end[fromEnd]) + 1, end[fromEnd])

-----------------------------------------------------------------------------
(* Of an absolute request line with an empty path there is nothing left. *)
Targets == {<<>>} \cup UNION {[1..n -> Tokens] : n \in 1..MaxLength}

PathsInit ==
    /\ asked \in Targets \cup {<<Slash>> \o t : t \in Targets}
    /\ target = asked
    /\ verdict = "pending"
    /\ hops = 0

BadRequest ==
    /\ verdict = "pending"
    /\ Rootless(target) \/ Malformed(target)
    /\ verdict' = "bad request"
    /\ UNCHANGED <<asked, target, hops>>

(* Mutant: the path is judged as it was written. *)
AsWritten ==
    LET text == [i \in 1..Len(target) |-> IF target[i].escaped THEN "a" ELSE target[i].byte]
    IN  CleanPath(text) = text

Clean == CleanPath(Unescape(target)) = Unescape(target)

MovedPermanently ==
    /\ verdict = "pending"
    /\ ~Rootless(target) /\ ~Malformed(target)
    /\ ~Clean
    /\ verdict' = "moved"
    /\ UNCHANGED <<asked, target, hops>>

Route ==
    /\ verdict = "pending"
    /\ ~Rootless(target) /\ ~Malformed(target)
    /\ Clean
    /\ verdict' = "routed"
    /\ UNCHANGED <<asked, target, hops>>

(* The caller follows the Location. *)
Follow ==
    /\ verdict = "moved"
    /\ hops = 0
    /\ target' = EscapeForLocation(CleanPath(Unescape(target)))
    /\ verdict' = "pending"
    /\ hops' = 1
    /\ UNCHANGED asked

PathsNext == BadRequest \/ MovedPermanently \/ Route \/ Follow

PathsSpec == PathsInit /\ [][PathsNext]_pathsVars

-----------------------------------------------------------------------------
Name(seg) == seg \notin {<<>>, Dot, DotDot}

(* The names, and the "..", among the i-th to the j-th segment. *)
NamesIn(segs, i, j) == Cardinality({k \in i..j : Name(segs[k])})
UpsIn(segs, i, j)   == Cardinality({k \in i..j : segs[k] = DotDot})

(* Of the first n segments, the names that stay: nowhere behind one have there been more ".." than names. *)
Stays(segs, n) ==
    {i \in 1..n : Name(segs[i]) /\ \A j \in (i + 1)..n : UpsIn(segs, i + 1, j) <= NamesIn(segs, i + 1, j)}

Ascends(order, n, set) ==
    /\ \A j, k \in 1..n : j < k => order[j] < order[k]
    /\ \A i \in set : \E k \in 1..n : order[k] = i

Sorted(set) == LET n == Cardinality(set) IN CHOOSE order \in [1..n -> set] : Ascends(order, n, set)

(* What a path names, without a stack. *)
Named(path) ==
    LET segs  == Split(path)
        order == Sorted(Stays(segs, Len(segs)))
    IN  [k \in 1..Cardinality(Stays(segs, Len(segs))) |-> segs[order[k]]]

(***************************************************************************)
(* The caller gets to what they asked for: the path that is routed names   *)
(* what the decoded path named, has no empty or dot segment in it, and     *)
(* keeps its trailing slash.  A redirect is followed by an answer: the     *)
(* clean path is a fixed point of escaping, decoding and cleaning, so that *)
(* it is neither moved again nor refused.                                  *)
(***************************************************************************)
RoutedWhereAsked ==
    /\ hops = 1 => verdict \in {"pending", "routed"}
    /\ verdict = "routed" =>
          LET path == Unescape(target)  wanted == Unescape(asked)  segs == Split(path)
          IN  /\ Named(path) = Named(wanted)
              /\ \A i \in 2..(Len(segs) - 1) : Name(segs[i])
              /\ Last(segs) \notin {Dot, DotDot}
              /\ Named(wanted) # <<>> => (Last(path) = "/" <=> Last(wanted) = "/")

(***************************************************************************)
(* segmentFromEnd agrees with the segments the router matches: the n-th    *)
(* from the end, or nothing when the path is shorter.                      *)
(***************************************************************************)
VariableIsSegment ==
    verdict = "routed" =>
        LET path == Unescape(target)  segs == Split(path)
        IN  \A n \in 0..(Len(segs) + 1) :
                SegmentFromEnd(path, n) = IF n < Len(segs) THEN segs[Len(segs) - n] ELSE <<>>
=============================================================================
