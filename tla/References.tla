------------------------------ MODULE References ------------------------------
(***************************************************************************)
(* Where a redirect goes (src/gateway/location.ts): resolveReference reads *)
(* a Location against the request it answers, the way Go does, and hands   *)
(* fetch a URL that fetch must read the same way.  A chain of redirects is *)
(* a chain of references, each resolved against the one before it.         *)
(*                                                                         *)
(* A text is a sequence of tokens: words (a scheme, a label), a digit,     *)
(* punctuation, "%2E" (an escaped dot), "%5C" (an escaped backslash), "%"  *)
(* (one that escapes nothing) and "ctl".  Upper case, IPv6 literals and    *)
(* names that are not ASCII are left out, and so is what fetch's parser    *)
(* does besides: it drops the scheme's own port, and writes a host that is *)
(* a number as an IPv4 address.                                            *)
(*                                                                         *)
(* External: fetch parses a URL as WHATWG has it, with "\" for "/".        *)
(***************************************************************************)
EXTENDS Integers, Sequences, FiniteSets, SequencesExt

CONSTANTS
    Homes,       \* addresses of the gateway, with the endpoint
    References,  \* Locations
    MaxHops      \* bound: redirects followed

Schemes == {<<"http">>, <<"https">>}
Words   == {"http", "https", "a", "b", "c"}
Digits  == {"1", "99999"}
Punctuation == {":", "/", "\\", "@", "?", "#", "."}
ReferenceTokens == Words \cup Digits \cup Punctuation \cup {"%2E", "%5C", "%", "ctl"}

ASSUME ReferencesAssumption ==
    /\ \A text \in Homes \cup References : Range(text) \subseteq ReferenceTokens
    /\ MaxHops \in Nat

VARIABLES
    base,    \* the goal before, or Nowhere
    text,    \* the reference that was read last
    goal,    \* where it goes, or Nowhere when it was refused
    hopped   \* references read so far

referenceVars == <<base, text, goal, hopped>>

(* A request target: Go's host, and the URL that fetch is given, as fetch reads it. *)
Target(host, url) == [host |-> host, url |-> url]
Url(scheme, host, path, query) == [scheme |-> scheme, host |-> host, path |-> path, query |-> query]
Unreadable == Url(<<>>, <<>>, <<>>, <<>>)
Nowhere    == Target(<<>>, Unreadable)

-----------------------------------------------------------------------------
First(s, marks) == SelectInSeq(s, LAMBDA t : t \in marks)       \* 0 when there is none
Upto(s, marks)  == IF First(s, marks) = 0 THEN s ELSE SubSeq(s, 1, First(s, marks) - 1)
From(s, marks)  == IF First(s, marks) = 0 THEN <<>> ELSE SubSeq(s, First(s, marks), Len(s))
Holds(s, t)     == t \in Range(s)

(* What lies between the marks, empty or not. *)
Between(s, marks) ==
    LET cuts == <<0>> \o SetToSortSeq({i \in 1..Len(s) : s[i] \in marks}, <) \o <<Len(s) + 1>>
    IN  [n \in 1..(Len(cuts) - 1) |-> SubSeq(s, cuts[n] + 1, cuts[n + 1] - 1)]

JoinedBy(segs) == FoldLeft(LAMBDA path, seg : path \o <<"/">> \o seg, <<>>, segs)

OneDot  == {<<".">>}
TwoDots == {<<".", ".">>}
DotsForFetch    == OneDot \cup {<<"%2E">>}
TwoDotsForFetch == {<<d, e>> : d, e \in {".", "%2E"}}

(* WHATWG: the path's segments, dots resolved, as a path. *)
FetchedPath(path) ==
    LET segs == Tail(Between(path, {"/", "\\"}))
        push(out, seg) == CASE seg \in DotsForFetch    -> out
                            [] seg \in TwoDotsForFetch -> IF out = <<>> THEN out ELSE Front(out)
                            [] OTHER -> Append(out, seg)
        out  == FoldLeft(push, <<>>, segs)
    IN  IF segs = <<>> \/ out = <<>> \/ Last(segs) \in DotsForFetch \cup TwoDotsForFetch
        THEN JoinedBy(Append(out, <<>>)) ELSE JoinedBy(out)

(* WHATWG: what is before the "@". *)
Userinfo(tail) == Holds(Upto(tail, {"/", "\\", "?", "#"}), "@")

(* WHATWG: the URL behind "scheme://", or Unreadable. *)
NewURL(scheme, tail) ==
    LET authority == Upto(tail, {"/", "\\", "?", "#"})
        host      == IF Holds(authority, "@") THEN Tail(From(authority, {"@"})) ELSE authority
        behind    == SubSeq(tail, Len(authority) + 1, Len(tail))
        port      == From(host, {":"})
    IN  IF host = <<>> \/ host[1] = ":" \/ port \notin {<<>>, <<":">>, <<":", "1">>} \/ Range(host) \cap {"%", "%2E", "%5C", "ctl"} # {}
        THEN Unreadable
        ELSE Url(scheme, IF port = <<":">> THEN Front(host) ELSE host,
                 FetchedPath(Upto(behind, {"?", "#"})), Upto(From(behind, {"?"}), {"#"}))

-----------------------------------------------------------------------------
MalformedScheme == <<":">>

(* schemeOf: a word, then words, digits and dots, up to a colon; a colon at the start is malformed. *)
SchemeOf(ref) ==
    LET first == SelectInSeq(ref, LAMBDA t : t \notin Words \cup Digits \cup {"."})
    IN  CASE first = 0 \/ ref[first] # ":" -> <<>>
          [] first = 1                     -> MalformedScheme
          [] ref[1] \notin Words           -> <<>>
          [] OTHER                         -> SubSeq(ref, 1, first - 1)

(* hostAcceptable: the characters Go lets stand in a host, and digits behind the last colon. *)
HostAcceptable(host) ==
    /\ Range(host) \subseteq Words \cup Digits \cup {".", ":"}
    /\ LET colon == SelectLastInSeq(host, LAMBDA t : t = ":")
       IN  colon # 0 => Range(SubSeq(host, colon + 1, Len(host))) \subseteq Digits

(* resolvePath's loop: one element more. *)
Element(sofar, elem) ==
    CASE elem \in OneDot  -> [sofar EXCEPT !.first = FALSE]
      [] elem \in TwoDots ->
            LET kept  == Tail(sofar.dst)
                slash == SelectLastInSeq(kept, LAMBDA t : t = "/")
            IN  IF slash = 0 THEN [dst |-> <<"/">>, first |-> TRUE]
                ELSE [sofar EXCEPT !.dst = <<"/">> \o SubSeq(kept, 1, slash - 1)]
      [] OTHER -> [dst |-> sofar.dst \o (IF sofar.first THEN <<>> ELSE <<"/">>) \o elem, first |-> FALSE]

ResolvePath(path, ref) ==
    LET slash == SelectLastInSeq(path, LAMBDA t : t = "/")
        full  == CASE ref = <<>>   -> path
                   [] ref # <<>> /\ ref[1] = "/" -> ref
                   [] OTHER        -> SubSeq(path, 1, slash) \o ref
        elems == Between(full, {"/"})
        loop  == FoldLeft(Element, [dst |-> <<"/">>, first |-> TRUE], elems)
        dst   == IF Last(elems) \in OneDot \cup TwoDots THEN Append(loop.dst, "/") ELSE loop.dst
    IN  IF full = <<>> THEN <<>>
        ELSE IF Len(dst) > 1 /\ dst[2] = "/" THEN Tail(dst) ELSE dst

(* Mutant: a backslash goes to fetch as it is. *)
BackslashKept(path) == path

(* replaceAll("\\", "%5C"): an ordinary character of the path. *)
BackslashEscaped(path) == [i \in 1..Len(path) |-> IF path[i] = "\\" THEN "%5C" ELSE path[i]]

(* URL.search: an empty query is none. *)
Search(query) == IF query = <<"?">> THEN <<>> ELSE query

(* An authority follows, if there is a scheme or no third slash. *)
HasAuthority(scheme, rest) ==
    /\ IsPrefix(<<"/", "/">>, rest)
    /\ scheme # <<>> \/ ~IsPrefix(<<"/", "/", "/">>, rest)

(* What Go means is scheme, host, path and query: fetch must read it so, or nobody goes there. *)
Checked(scheme, host, path, query) ==
    LET url == NewURL(scheme, host \o (IF path = <<>> THEN <<"/">> ELSE path) \o query)
    IN  IF \/ url = Unreadable \/ Userinfo(host \o path)
           \/ url.host # NewURL(scheme, Append(host, "/")).host
        THEN Nowhere ELSE Target(host, url)

(* resolveReference; `from` is Nowhere for the first request of a call. *)
ResolveReference(from, ref) ==
    LET noFragment == Upto(ref, {"#"})
        query  == From(noFragment, {"?"})
        front  == Upto(noFragment, {"?"})
        scheme == SchemeOf(front)
        rest   == IF scheme = <<>> THEN front ELSE SubSeq(front, Len(scheme) + 2, Len(front))
        named  == HasAuthority(scheme, rest)
        host   == IF named THEN Upto(SubSeq(rest, 3, Len(rest)), {"/"}) ELSE <<>>
        path   == IF named THEN SubSeq(rest, 3 + Len(host), Len(rest)) ELSE rest
        own    == scheme # <<>> \/ host # <<>>
    IN  IF \/ Holds(ref, "ctl")
           \/ Holds(From(ref, {"#"}), "%")
           \/ scheme # <<>> /\ scheme \notin Schemes
           \/ scheme = <<>> /\ ~IsPrefix(<<"/">>, rest) /\ Holds(Upto(rest, {"/"}), ":")
           \/ named /\ ~HostAcceptable(host)
           \/ scheme # <<>> /\ host = <<>>
           \/ Holds(path, "%")
           \/ from = Nowhere /\ scheme = <<>>
        THEN Nowhere
        ELSE IF own
        THEN Checked(IF scheme = <<>> THEN from.url.scheme ELSE scheme, host,
                     ResolvePath(BackslashEscaped(path), <<>>), query)
        ELSE Checked(from.url.scheme, from.host, ResolvePath(from.url.path, BackslashEscaped(path)),
                     IF path = <<>> /\ query = <<>> THEN Search(from.url.query) ELSE query)

-----------------------------------------------------------------------------
ReferencesInit ==
    /\ base = Nowhere
    /\ text \in Homes
    /\ goal = ResolveReference(Nowhere, text)
    /\ hopped = 0

(* follow: a Location that is refused ends the chain. *)
Hop ==
    /\ goal # Nowhere
    /\ hopped < MaxHops
    /\ text' \in References
    /\ base' = goal
    /\ goal' = ResolveReference(goal, text')
    /\ hopped' = hopped + 1

ReferencesNext == Hop

ReferencesSpec == ReferencesInit /\ [][ReferencesNext]_referenceVars
-----------------------------------------------------------------------------
(***************************************************************************)
(* How a reference reads, from left to right (the code cuts it from its    *)
(* end): a scheme, an authority, a path, a query.  Go's own addition is    *)
(* that three slashes without a scheme begin a path.                       *)
(***************************************************************************)
Reading(ref) ==
    LET mark   == First(ref, {":", "/", "?", "#"})
        scheme == IF mark # 0 /\ ref[mark] = ":" THEN SubSeq(ref, 1, mark - 1) ELSE <<>>
        behind == IF scheme = <<>> THEN ref ELSE SubSeq(ref, mark + 1, Len(ref))
        slashes == SelectInSeq(Append(behind, "end"), LAMBDA t : t # "/") - 1
        host   == IF slashes = 2 \/ (slashes > 2 /\ scheme # <<>>)
                  THEN <<"/", "/">> \o Upto(SubSeq(behind, 3, Len(behind)), {"/", "?", "#"}) ELSE <<>>
        tail   == SubSeq(behind, Len(host) + 1, Len(behind))
    IN  [scheme |-> scheme, host |-> SubSeq(host, 3, Len(host)),
         path   |-> Upto(tail, {"?", "#"}), query |-> From(Upto(tail, {"#"}), {"?"})]

(* The segments that the dots leave, in order: one stays when what follows never climbs above it. *)
Left(segs, one, two) ==
    LET down == {i \in 1..Len(segs) : segs[i] \notin one \cup two}
        up   == {i \in 1..Len(segs) : segs[i] \in two}
        stays == {i \in down : \A j \in (i + 1)..Len(segs) :
                     Cardinality(up \cap (i + 1)..j) <= Cardinality(down \cap (i + 1)..j)}
        order == SetToSortSeq(stays, <)
    IN  [n \in 1..Len(order) |-> segs[order[n]]]

Names(segs) == SelectSeq(segs, LAMBDA seg : seg # <<>>)

(* The path that is meant: against the base's when there is no host of its own and no leading slash. *)
Meant(read) ==
    LET path == Between([i \in 1..Len(read.path) |-> IF read.path[i] = "\\" THEN "%5C" ELSE read.path[i]], {"/"})
        dirs == Between(base.url.path, {"/"})
    IN  IF read.host # <<>> \/ IsPrefix(<<"/">>, read.path) THEN path
        ELSE IF read.path = <<>> THEN dirs ELSE Front(dirs) \o path

(***************************************************************************)
(* Fetch goes where the reference says and nowhere else: to the host that  *)
(* stands behind the two slashes, or else to the host before, under the    *)
(* scheme written or kept, for the path's names in order with its dots     *)
(* (and escaped dots, which fetch resolves) gone, and with its query; a    *)
(* backslash, a third slash or a colon never makes a host of a path.       *)
(* (src/gateway/location.ts:144-199.)                                      *)
(***************************************************************************)
GoesWhereItSays ==
    goal # Nowhere =>
        LET read == Reading(text)
            own  == read.host # <<>>
            left == Left(Meant(read), OneDot, TwoDots)
        IN  /\ read.scheme # <<>> => read.scheme \in Schemes /\ own
            /\ goal.host = IF own THEN read.host ELSE base.host
            /\ goal.host \in {goal.url.host, Append(goal.url.host, ":")}
            /\ Range(goal.host) \subseteq Words \cup Digits \cup {".", ":"}
            /\ goal.url.scheme = IF read.scheme # <<>> THEN read.scheme ELSE base.url.scheme
            /\ Names(Between(goal.url.path, {"/"})) = Names(Left(left, DotsForFetch, TwoDotsForFetch))
            /\ Search(goal.url.query) =
                   Search(IF own \/ read.path # <<>> \/ read.query # <<>> THEN read.query ELSE base.url.query)
=============================================================================
