---------------------------- MODULE GatewayClient ----------------------------
(***************************************************************************)
(* The HTTP client towards st-gateway (src/gateway/client.ts), from the    *)
(* handler that uses it: one operation is one call of the client, or the   *)
(* three calls getCurrentAgent makes one after the other.                  *)
(*                                                                         *)
(* A call is the method `send`: it arms one deadline for all hops and the  *)
(* body, listens for the caller's hang-up, follows redirects by hand and   *)
(* settles with a body or an error.  Every await is a point at which the   *)
(* deadline may fire, the caller may hang up or the network may fail.      *)
(*                                                                         *)
(* External, modelled from how client.ts uses it: fetch does not send a    *)
(* request whose signal is aborted, and rejects (also while the body is    *)
(* read) once it is; otherwise the network and the gateway answer what     *)
(* they like, when they like, or never.                                    *)
(***************************************************************************)
EXTENDS Integers, Sequences

CONSTANTS
    MAX_REQUESTS,    \* how many requests one call may make
    FOLLOWED,        \* the redirect statuses that are followed
    Statuses,        \* the statuses the gateway answers with
    Homes,           \* the gateway addresses a deployment may configure
    Targets,         \* the addresses a Location may resolve to
    NumericNames,    \* host names of digits and dots (IPv4 literals)
    ColonNames       \* host names with a colon or a percent sign (IPv6 literals)

(* The reads: one GET, or the three of getCurrentAgent in a row. *)
Reads == [method : {"GET"}, body : {FALSE}, calls : {1, 3}]

(* The writes: one POST, without a body (accept, fulfill) or with one (purchaseShip, tradeCargo). *)
Writes == [method : {"POST"}, body : BOOLEAN, calls : {1}]

Operations == Reads \cup Writes

(***************************************************************************)
(* An address is the host name as written (Go's view), the host name of    *)
(* the URL that is fetched, each a sequence of labels, and its scheme.     *)
(***************************************************************************)
NoAddress(mark) == [written |-> <<>>, fetched |-> <<>>, https |-> mark]
Unparsable == NoAddress(TRUE)    \* a Location that resolveReference refuses
NoLocation == NoAddress(FALSE)   \* no Location header, or an empty one
Locations == Targets \cup {Unparsable, NoLocation}

ASSUME ClientAssumption ==
    /\ MAX_REQUESTS \in Nat \ {0}
    /\ FOLLOWED \subseteq Statuses
    /\ Statuses \subseteq Nat
    /\ Homes \subseteq Targets
    /\ Targets \subseteq [written : Seq(STRING), fetched : Seq(STRING), https : BOOLEAN]
    /\ Unparsable \notin Targets /\ NoLocation \notin Targets

VARIABLES
    first,        \* the gateway's address in this deployment
    op,           \* the operation of this request
    authorization,\* the caller's Authorization header is not empty
    usable,       \* ST_GATEWAY_URL plus the endpoint is a usable URL
    pc,           \* where the handler is
    call,         \* which of the operation's calls it is making
    aborted,      \* deadline.signal of this call is aborted
    callerGone,   \* the caller's signal is aborted
    timer,        \* the deadline's timer is armed
    listening,    \* onGone listens on the caller's signal
    requests,     \* the hop this call is at
    target, verb, payload, stripped,   \* follow's variables
    res,          \* the answer being looked at: its status and Location
    outcome,      \* how the operation ended
    sent          \* the requests of this call that went out (history)

follows == <<target, verb, payload, stripped>>
vars == <<first, op, authorization, usable, pc, call, aborted, callerGone, timer, listening,
          requests, target, verb, payload, stripped, res, outcome, sent>>

Responses  == [status : Statuses \cup {0}, location : Locations]
NoResponse == [status |-> 0, location |-> NoLocation]

Pending == "pending"
Outcomes == {Pending, "body", "unreadable", "bad address", "no answer", "caller gone", "upstream error"}

(* A request as it went out; `after` is the status that led to it. *)
Hops == [target : Targets, verb : {"GET", "POST"}, payload : BOOLEAN, authorization : BOOLEAN, after : Statuses \cup {0}]

TypeOK ==
    /\ first \in Homes
    /\ op \in Operations
    /\ authorization \in BOOLEAN /\ usable \in BOOLEAN
    /\ pc \in {"ready", "fetch", "redirect", "body", "refusal", "settled"}
    /\ call \in Nat \ {0}
    /\ aborted \in BOOLEAN /\ callerGone \in BOOLEAN
    /\ timer \in BOOLEAN /\ listening \in BOOLEAN
    /\ requests \in 0..MAX_REQUESTS
    /\ target \in Targets /\ verb \in {"GET", "POST"}
    /\ payload \in BOOLEAN /\ stripped \in BOOLEAN
    /\ res \in Responses
    /\ outcome \in Outcomes
    /\ sent \in Seq(Hops)
    /\ Len(sent) <= MAX_REQUESTS

-----------------------------------------------------------------------------
(* The rule for Authorization: follow's exactOnly and sameDomain, location.ts isDomainOrSubdomain. *)

EndsWith(name, parent) ==
    /\ Len(name) > Len(parent)
    /\ SubSeq(name, Len(name) - Len(parent) + 1, Len(name)) = parent

IsDomainOrSubdomain(sub, parent) ==
    sub = parent \/ (sub \notin ColonNames /\ EndsWith(sub, parent))

(* A name of one label, or of digits, or an IPv6 literal, has no subdomains worth the name. *)
HasSubdomains(name) == Len(name) > 1 /\ name \notin NumericNames \cup ColonNames

ExactOnly == ~HasSubdomains(first.written)

SameDomain(name, parent) ==
    IF ExactOnly THEN name = parent ELSE IsDomainOrSubdomain(name, parent)

(* What the rule relies on: fetch does not read a gateway's real domain name as one that has no subdomains. *)
ASSUME HomesAssumption == \A home \in Homes : HasSubdomains(home.written) => HasSubdomains(home.fetched)

GoSame(t) == SameDomain(t.written, first.written)
FetchedSame(t) == SameDomain(t.fetched, first.fetched)
Downgrade(from, to) == from.https /\ ~to.https

-----------------------------------------------------------------------------
Init ==
    /\ first \in Homes
    /\ op \in Operations
    /\ authorization \in BOOLEAN
    /\ usable \in BOOLEAN
    /\ pc = "ready"
    /\ call = 1
    /\ aborted = FALSE
    /\ callerGone \in BOOLEAN   \* the signal may have fired before the first call
    /\ timer = FALSE
    /\ listening = FALSE
    /\ requests = 0
    /\ target = first
    /\ verb = op.method
    /\ payload = op.body
    /\ stripped = FALSE
    /\ res = NoResponse
    /\ outcome = Pending
    /\ sent = <<>>

(* Mutant: the listener on the caller's signal is left behind. *)
ReleaseTimerOnly ==
    /\ timer' = FALSE
    /\ UNCHANGED listening

(* `finally` of send: the timer is cleared and the listener removed, whatever happened. *)
Release ==
    /\ timer' = FALSE
    /\ listening' = FALSE

(* The call is over with an error, which is the handler's outcome. *)
Settle(o) ==
    /\ pc' = "settled"
    /\ outcome' = o
    /\ Release

(* Mutant: an aborted signal is taken for a caller who left. *)
NoAnswerIfAborted == IF aborted THEN "caller gone" ELSE "no answer"

(* noAnswer: not hearing back is the gateway's fault, unless the caller left first. *)
NoAnswer == IF callerGone THEN "caller gone" ELSE "no answer"

(* fetch is called: the request goes out unless the signal is aborted already. *)
Fetch(isAborted, t, v, p, s, after, earlier) ==
    /\ pc' = "fetch"
    /\ sent' = IF isAborted THEN earlier
               ELSE Append(earlier, [target |-> t, verb |-> v, payload |-> p,
                                     authorization |-> authorization /\ ~s,
                                     after |-> after])

(* Mutant: the check for a caller who left before the listener was added is dropped. *)
NotAbortedAtStart == FALSE

(* send: a signal that fired before the listener was added aborts the call at once. *)
AbortedAtStart == callerGone

(* send and the first round of follow. *)
Send ==
    /\ pc = "ready"
    /\ aborted' = AbortedAtStart
    /\ \/ /\ ~usable
          /\ Settle("bad address")
          /\ UNCHANGED <<requests, follows, sent>>
       \/ /\ usable
          /\ timer' = TRUE
          /\ listening' = TRUE
          /\ requests' = 1
          /\ target' = first
          /\ verb' = op.method
          /\ payload' = op.body
          /\ stripped' = FALSE
          /\ Fetch(AbortedAtStart, first, op.method, op.body, FALSE, 0, <<>>)
          /\ UNCHANGED outcome
    /\ res' = NoResponse
    /\ UNCHANGED <<first, op, authorization, usable, call, callerGone>>

(* fetch resolves: a redirect to follow, an error, or the final answer (any other status below 400). *)
FetchResolves(status, location) ==
    /\ pc = "fetch"
    /\ ~aborted
    /\ res' = [status |-> status,
                location |-> IF status \in FOLLOWED THEN location ELSE NoLocation]
    /\ pc' = IF status \in FOLLOWED /\ location # NoLocation THEN "redirect"
             ELSE IF status >= 400 THEN "refusal"
             ELSE "body"
    /\ UNCHANGED <<first, op, authorization, usable, call, aborted, callerGone, timer, listening,
                   requests, follows, outcome, sent>>

(* fetch rejects: the signal is aborted, or the connection failed. *)
FetchRejects ==
    /\ pc = "fetch"
    /\ Settle(NoAnswer)
    /\ UNCHANGED <<first, op, authorization, usable, call, aborted, callerGone, requests, follows, res, sent>>

(* Mutant: the limit is off by one. *)
MayFollowOnce == res.location # Unparsable /\ requests <= MAX_REQUESTS

(* A hop is followed when its Location is a URL and the call has a request left. *)
MayFollow == res.location # Unparsable /\ requests < MAX_REQUESTS

(* A hop ends the call: the Location is no URL, or it would be one request too many. *)
RedirectRefused ==
    /\ pc = "redirect"
    /\ ~MayFollow
    /\ Settle(NoAnswer)
    /\ UNCHANGED <<first, op, authorization, usable, call, aborted, callerGone, requests, follows, res, sent>>

(* Mutant: only the latest hop decides, so coming back restores the header. *)
StripForThisHop(next) == ~GoSame(next) \/ ~FetchedSame(next) \/ Downgrade(target, next)

(* Authorization stays off once a hop has left the gateway's domain or TLS. *)
Strip(next) == stripped \/ ~GoSame(next) \/ ~FetchedSame(next) \/ Downgrade(target, next)

(* Mutant: a 303 keeps the method and the body. *)
PreservesPast302(status) == status > 302

(* A 301, 302 or 303 turns a POST into a GET and drops the body; a 307 or 308 repeats it. *)
Preserves(status) == status > 303

RedirectFollowed ==
    /\ pc = "redirect"
    /\ MayFollow
    /\ requests' = requests + 1
    /\ stripped' = Strip(res.location)
    /\ target' = res.location
    /\ verb' = IF Preserves(res.status) THEN verb ELSE "GET"
    /\ payload' = (payload /\ Preserves(res.status))
    /\ Fetch(aborted, target', verb', payload', stripped', res.status, sent)
    /\ res' = NoResponse
    /\ UNCHANGED <<first, op, authorization, usable, call, aborted, callerGone, timer, listening, outcome>>

(* The whole body is in: request decodes it; then the operation's next call, or its end. *)
BodyArrives ==
    /\ pc = "body"
    /\ ~aborted
    /\ Release
    /\ \/ /\ call < op.calls
          /\ pc' = "ready"
          /\ call' = call + 1
          /\ UNCHANGED outcome
       \/ /\ call = op.calls
          /\ pc' = "settled"
          /\ outcome' = "body"
          /\ UNCHANGED call
       \/ /\ pc' = "settled"
          /\ outcome' = "unreadable"
          /\ UNCHANGED call
    /\ UNCHANGED <<first, op, authorization, usable, aborted, callerGone, requests, follows, res, sent>>

(* The body dies mid-read. *)
BodyFails ==
    /\ pc = "body"
    /\ Settle(NoAnswer)
    /\ UNCHANGED <<first, op, authorization, usable, call, aborted, callerGone, requests, follows, res, sent>>

(* upstreamErrorFrom: readCapped takes what came of the body, complete, cut at the cap or half-delivered. *)
ErrorBodyEnds ==
    /\ pc = "refusal"
    /\ Settle("upstream error")
    /\ UNCHANGED <<first, op, authorization, usable, call, aborted, callerGone, requests, follows, res, sent>>

(* Mutant: the deadline covers the wait for the headers, not the body. *)
DeadlineFiresBeforeHeaders ==
    /\ timer
    /\ timer' = FALSE
    /\ aborted' = (aborted \/ pc = "fetch")
    /\ UNCHANGED <<first, op, authorization, usable, pc, call, callerGone, listening, requests, follows, res, outcome, sent>>

(* The 30 s are over. *)
DeadlineFires ==
    /\ timer
    /\ timer' = FALSE
    /\ aborted' = TRUE
    /\ UNCHANGED <<first, op, authorization, usable, pc, call, callerGone, listening, requests, follows, res, outcome, sent>>

(* The caller's signal fires: onGone aborts the call in progress. *)
CallerHangsUp ==
    /\ pc # "settled"
    /\ ~callerGone
    /\ callerGone' = TRUE
    /\ aborted' = (aborted \/ listening)
    /\ listening' = FALSE   \* { once: true }
    /\ UNCHANGED <<first, op, authorization, usable, pc, call, timer, requests, follows, res, outcome, sent>>

Next ==
    \/ Send
    \/ \E status \in Statuses, location \in Locations : FetchResolves(status, location)
    \/ FetchRejects
    \/ RedirectRefused
    \/ RedirectFollowed
    \/ BodyArrives
    \/ BodyFails
    \/ ErrorBodyEnds
    \/ DeadlineFires
    \/ CallerHangsUp

Spec == Init /\ [][Next]_vars

(***************************************************************************)
(* The event loop runs the code's own steps and due timers, and an aborted *)
(* fetch or body read rejects.  Nothing makes the gateway answer.          *)
(***************************************************************************)
Fairness ==
    /\ WF_vars(Send)
    /\ WF_vars(RedirectRefused \/ RedirectFollowed)
    /\ WF_vars(aborted /\ (FetchRejects \/ BodyFails \/ ErrorBodyEnds))
    /\ WF_vars(DeadlineFires)

LiveSpec == Spec /\ Fairness

-----------------------------------------------------------------------------
(***************************************************************************)
(* Whose machine a host name is: the gateway's own name, or a name below   *)
(* it when it is a real domain.  "x.st-gateway" is not below "st-gateway": *)
(* a DNS search domain would make it something else.                       *)
(***************************************************************************)
Owns(home, name) ==
    \/ name = home
    \/ /\ Len(home) > 1
       /\ home \notin NumericNames \cup ColonNames
       /\ \E k \in 2..Len(name) : SubSeq(name, k, Len(name)) = home

OwnHop(t) == Owns(first.written, t.written) /\ Owns(first.fetched, t.fetched)

(***************************************************************************)
(* The caller's Authorization reaches an address only if that address, and *)
(* every address this call was sent to before it, is the gateway's by both *)
(* readings of the host, and no hop so far went from https to http: once a *)
(* hop has left, the header stays off also when a later hop comes back.    *)
(***************************************************************************)
AuthorizationStaysHome ==
    \A i \in 1..Len(sent) :
        sent[i].authorization =>
            /\ \A j \in 1..i : OwnHop(sent[j].target)
            /\ \A j \in 1..(i - 1) : ~Downgrade(sent[j].target, sent[j + 1].target)

(***************************************************************************)
(* A credit-spending request is repeated at another address only when the  *)
(* gateway said so with a 307 or 308: a POST, or a body, that goes out on  *)
(* a later hop has no 301, 302 or 303 before it, and it is the caller's    *)
(* own method.                                                             *)
(***************************************************************************)
PostRepeatedOnlyOnPreservingRedirect ==
    \A i \in 1..Len(sent) :
        (sent[i].verb = "POST" \/ sent[i].payload) =>
            /\ sent[i].verb = op.method
            /\ sent[i].payload = op.body
            /\ \A j \in 2..i : sent[j].after > 303

(* Whatever way a call ends, its timer and its listener on the caller's signal are gone. *)
NothingLeftArmed == pc \in {"ready", "settled"} => ~timer /\ ~listening

(***************************************************************************)
(* The client keeps its promise to the handler (GatewayCall): at most      *)
(* MAX_REQUESTS per call; nothing sent, not even the first request of the  *)
(* next of getCurrentAgent's calls, once the caller has hung up; the       *)
(* deadline blamed on the gateway and the hang-up on the caller; and an    *)
(* end, since the one deadline covers all hops and the body.               *)
(***************************************************************************)
Promise == INSTANCE GatewayCall WITH
    left <- op.calls - call,
    gone <- callerGone,
    asked <- IF pc = "ready" THEN 0 ELSE Len(sent)

KeepsItsPromise == Promise!Spec
=============================================================================
