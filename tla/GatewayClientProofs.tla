------------------------- MODULE GatewayClientProofs -------------------------
(***************************************************************************)
(* Proofs about GatewayClient, for any limit of requests, any statuses,    *)
(* any gateway and any addresses a redirect may lead to.                   *)
(*                                                                         *)
(* A call that is under way and not aborted has sent its last request to   *)
(* the target it is at, so what is known of the requests that went out is  *)
(* known of the hop that comes next.  The header is still on only if all   *)
(* of them went home, and the method is still a POST only if all redirects *)
(* preserved it.  A caller who leaves during a call finds its listener, or *)
(* has left before it, so that a call under way without the caller is      *)
(* aborted: it asks for nothing more, and nobody else is blamed.           *)
(***************************************************************************)
EXTENDS GatewayClient, TLAPS

Active == pc \in {"fetch", "redirect", "body", "refusal"}

(* The handler has an outcome when it is done, and nothing is armed between its calls. *)
Ended ==
    /\ pc = "settled" <=> outcome # Pending
    /\ NothingLeftArmed
    /\ call <= op.calls

(* A call that has been asked for has an address, and sends no more than one request a hop. *)
Counted ==
    /\ Len(sent) <= requests
    /\ ~usable => sent = <<>> /\ ~Active

(* Whoever left, left an aborted call behind. *)
Noticed ==
    /\ Active /\ ~callerGone => listening
    /\ Active /\ callerGone => aborted

(* A request went out, unless the caller was gone by then; the last one went to the target. *)
Asked ==
    /\ pc \in {"redirect", "body", "refusal"} => sent # <<>>
    /\ Active /\ sent = <<>> => callerGone
    /\ Active /\ sent # <<>> /\ ~aborted => sent[Len(sent)].target = target

(* What is looked at before it is followed. *)
Looked == pc = "redirect" => res.location \in Targets \cup {Unparsable}

(* The method and the body are the caller's own as long as every redirect preserved them. *)
Preserved ==
    Active /\ (verb = "POST" \/ payload) =>
        /\ verb = op.method
        /\ payload = op.body
        /\ \A j \in 2..Len(sent) : sent[j].after > 303

(* The header stays on as long as every hop went home. *)
AtHome ==
    Active /\ ~stripped =>
        /\ \A j \in 1..Len(sent) : OwnHop(sent[j].target)
        /\ \A j \in 1..(Len(sent) - 1) : ~Downgrade(sent[j].target, sent[j + 1].target)

IInv ==
    /\ TypeOK /\ Ended /\ Counted /\ Noticed /\ Asked /\ Looked
    /\ Preserved /\ PostRepeatedOnlyOnPreservingRedirect
    /\ AtHome /\ AuthorizationStaysHome
-----------------------------------------------------------------------------
(* The initial states satisfy the invariant. *)
LEMMA InitIInv == Init => IInv
<1> SUFFICES ASSUME Init PROVE IInv
    OBVIOUS
<1> USE ClientAssumption DEF Init
<1>1. TypeOK
    <2>1. op.method \in {"GET", "POST"} /\ op.body \in BOOLEAN /\ op.calls \in {1, 3}
        BY DEF Operations, Reads, Writes
    <2>2. sent \in Seq(Hops) /\ Len(sent) = 0
        OBVIOUS
    <2>3. res \in Responses /\ outcome \in Outcomes
        BY DEF Responses, NoResponse, Locations, Outcomes
    <2>4. first \in Targets /\ 1 \in Nat \ {0} /\ 0 \in 0..MAX_REQUESTS /\ 0 <= MAX_REQUESTS
        OBVIOUS
    <2> QED
        BY <2>1, <2>2, <2>3, <2>4 DEF TypeOK
<1>2. Ended
    <2>1. op.calls \in {1, 3}
        BY DEF Operations, Reads, Writes
    <2>2. call <= op.calls
        BY <2>1
    <2> QED
        BY <2>2 DEF Ended, NothingLeftArmed
<1>3. Counted /\ Noticed /\ Asked /\ Looked
    BY DEF Counted, Noticed, Asked, Looked, Active
<1>4. Preserved /\ AtHome
    BY DEF Preserved, AtHome, Active
<1>5. PostRepeatedOnlyOnPreservingRedirect /\ AuthorizationStaysHome
    BY DEF PostRepeatedOnlyOnPreservingRedirect, AuthorizationStaysHome
<1> QED
    BY <1>1, <1>2, <1>3, <1>4, <1>5 DEF IInv

(* What an operation is. *)
LEMMA OperationTypes ==
    ASSUME TypeOK
    PROVE  op.method \in {"GET", "POST"} /\ op.body \in BOOLEAN /\ op.calls \in {1, 3}
BY DEF TypeOK, Operations, Reads, Writes

(* The first hop of a call goes to the gateway, if it goes out. *)
LEMMA FirstHop ==
    ASSUME TypeOK, Send, usable
    PROVE  /\ pc' = "fetch" /\ aborted' = callerGone /\ target' = first
           /\ verb' = op.method /\ payload' = op.body /\ stripped' = FALSE
           /\ sent' \in Seq(Hops) /\ Len(sent') <= 1
           /\ callerGone => sent' = <<>>
           /\ ~callerGone =>
                 /\ Len(sent') = 1
                 /\ sent'[1].target = target' /\ sent'[1].verb = verb' /\ sent'[1].payload = payload'
<1>1. PICK a \in BOOLEAN : a = (authorization /\ ~FALSE)
    OBVIOUS
<1> DEFINE h == [target |-> first, verb |-> op.method, payload |-> op.body, authorization |-> a, after |-> 0]
<1>2. h \in Hops
    BY ClientAssumption DEF TypeOK, Hops, Operations, Reads, Writes
<1>3. Fetch(callerGone, first, op.method, op.body, FALSE, 0, <<>>)
    BY DEF Send, AbortedAtStart
<1>4. pc' = "fetch" /\ sent' = IF callerGone THEN <<>> ELSE Append(<<>>, h)
    BY <1>1, <1>3 DEF Fetch
<1>5. h.target = first /\ h.verb = op.method /\ h.payload = op.body
    OBVIOUS
<1>6. /\ aborted' = callerGone /\ target' = first
      /\ verb' = op.method /\ payload' = op.body /\ stripped' = FALSE
    BY DEF Send, AbortedAtStart
<1> HIDE DEF h
<1>7. CASE callerGone
    BY <1>4, <1>6, <1>7
<1>8. CASE ~callerGone
    <2>1. sent' = <<h>>
        BY <1>2, <1>4, <1>8
    <2>2. sent' \in Seq(Hops) /\ Len(sent') = 1 /\ sent'[1] = h
        BY <1>2, <2>1
    <2> QED
        BY <1>4, <1>5, <1>6, <1>8, <2>2
<1> QED
    BY <1>7, <1>8

(* A redirect that is followed leads to the Location, and the request goes out unless the signal is aborted. *)
LEMMA NextHop ==
    ASSUME TypeOK, RedirectFollowed, res.location \in Targets
    PROVE  /\ pc' = "fetch" /\ target' = res.location /\ stripped' = Strip(res.location)
           /\ verb' = IF Preserves(res.status) THEN verb ELSE "GET"
           /\ payload' = (payload /\ Preserves(res.status))
           /\ sent' \in Seq(Hops)
           /\ aborted => sent' = sent
           /\ ~aborted =>
                 /\ Len(sent') = Len(sent) + 1
                 /\ \A j \in 1..Len(sent) : sent'[j] = sent[j]
                 /\ sent'[Len(sent')].target = target' /\ sent'[Len(sent')].verb = verb'
                 /\ sent'[Len(sent')].payload = payload' /\ sent'[Len(sent')].after = res.status
                 /\ sent'[Len(sent')].authorization => ~stripped'
<1>1. PICK a \in BOOLEAN : a = (authorization /\ ~stripped')
    OBVIOUS
<1> DEFINE h == [target |-> target', verb |-> verb', payload |-> payload', authorization |-> a, after |-> res.status]
<1>2. /\ target' = res.location /\ stripped' = Strip(res.location)
      /\ verb' = IF Preserves(res.status) THEN verb ELSE "GET"
      /\ payload' = (payload /\ Preserves(res.status))
      /\ Fetch(aborted, target', verb', payload', stripped', res.status, sent)
    BY DEF RedirectFollowed
<1>3. h \in Hops
    <2>1. target' \in Targets /\ res.status \in Statuses \cup {0}
        BY <1>2 DEF TypeOK, Responses
    <2>2. verb' \in {"GET", "POST"} /\ payload' \in BOOLEAN
        BY <1>2 DEF TypeOK
    <2> QED
        BY <2>1, <2>2 DEF Hops
<1>4. pc' = "fetch" /\ sent' = IF aborted THEN sent ELSE Append(sent, h)
    BY <1>1, <1>2 DEF Fetch
<1>5. /\ h.target = target' /\ h.verb = verb' /\ h.payload = payload' /\ h.after = res.status
      /\ h.authorization => ~stripped'
    BY <1>1
<1> HIDE DEF h
<1>6. sent \in Seq(Hops)
    BY DEF TypeOK
<1>7. CASE aborted
    BY <1>2, <1>4, <1>6, <1>7
<1>8. CASE ~aborted
    <2>1. /\ sent' \in Seq(Hops) /\ Len(sent') = Len(sent) + 1
          /\ \A j \in 1..Len(sent) : sent'[j] = sent[j]
          /\ sent'[Len(sent')] = h
        BY <1>3, <1>4, <1>6, <1>8
    <2> QED
        BY <1>2, <1>4, <1>5, <1>8, <2>1
<1> QED
    BY <1>7, <1>8

(* What every action keeps of the types. *)
LEMMA TypeStep ==
    ASSUME IInv, [Next]_vars
    PROVE  TypeOK'
<1> USE DEF IInv, follows
<1>0. /\ first \in Targets /\ NoResponse \in Responses
      /\ op.method \in {"GET", "POST"} /\ op.body \in BOOLEAN /\ op.calls \in {1, 3}
      /\ MAX_REQUESTS \in Nat \ {0}
    BY ClientAssumption DEF Operations, Reads, Writes, NoResponse, Responses, Locations, TypeOK
<1>o. /\ {"body", "unreadable", "bad address", "upstream error"} \subseteq Outcomes
      /\ NoAnswer \in Outcomes
    BY DEF Outcomes, NoAnswer, TypeOK
<1>1. CASE Send
    <2>1. CASE usable
        <3>1. TypeOK
            OBVIOUS
        <3>2. sent' \in Seq(Hops) /\ Len(sent') <= 1 /\ pc' = "fetch"
            BY <1>1, <2>1, <3>1, FirstHop
        <3>3. requests' = 1 /\ 1 \in 0..MAX_REQUESTS /\ Len(sent') <= MAX_REQUESTS
            BY <1>0, <1>1, <2>1, <3>2 DEF Send, TypeOK
        <3> QED
            <4>1. /\ first \in Targets /\ target' = first /\ verb' = op.method
                  /\ payload' = op.body /\ stripped' = FALSE /\ aborted' = callerGone /\ res' = NoResponse
                BY <1>0, <1>1, <2>1 DEF Send, AbortedAtStart
            <4>2. timer' = TRUE /\ listening' = TRUE /\ UNCHANGED <<first, op, authorization, usable, call, callerGone, outcome>>
                BY <1>1, <2>1 DEF Send
            <4> QED
                BY <1>0, <3>2, <3>3, <4>1, <4>2 DEF TypeOK
    <2>2. CASE ~usable
        BY <1>0, <1>o, <1>1, <2>2 DEF Send, Settle, Release, AbortedAtStart, TypeOK
    <2> QED
        BY <2>1, <2>2
<1>2. ASSUME NEW status \in Statuses, NEW location \in Locations, FetchResolves(status, location)
      PROVE  TypeOK'
    <2>1. pc' \in {"redirect", "body", "refusal"} /\ res' \in Responses
        BY <1>2 DEF FetchResolves, Responses, Locations, TypeOK
    <2> QED
        BY <1>2, <2>1 DEF FetchResolves, TypeOK
<1>3. CASE FetchRejects
    BY <1>o, <1>3 DEF FetchRejects, Settle, Release, TypeOK
<1>4. CASE RedirectRefused
    BY <1>o, <1>4 DEF RedirectRefused, Settle, Release, TypeOK
<1>5. CASE RedirectFollowed
    <2>1. /\ target' \in Targets /\ verb' \in {"GET", "POST"} /\ payload' \in BOOLEAN /\ stripped' \in BOOLEAN
          /\ requests' = requests + 1 /\ requests < MAX_REQUESTS
        BY <1>5 DEF RedirectFollowed, MayFollow, Looked, Strip, Preserves, TypeOK
    <2>2. res.location \in Targets
        BY <1>5 DEF RedirectFollowed, MayFollow, Looked, TypeOK
    <2>3. sent' \in Seq(Hops) /\ Len(sent') <= Len(sent) + 1 /\ pc' = "fetch"
        BY <1>5, <2>2, NextHop
    <2> QED
        <3>1. Len(sent') <= MAX_REQUESTS /\ requests' \in 0..MAX_REQUESTS
            BY <1>0, <2>1, <2>3 DEF Counted, TypeOK
        <3> QED
            BY <1>0, <1>5, <2>1, <2>3, <3>1 DEF RedirectFollowed, TypeOK
<1>6. CASE BodyArrives
    <2>1. call' \in Nat \ {0}
        BY <1>6 DEF BodyArrives, TypeOK
    <2>2. pc' \in {"ready", "settled"} /\ outcome' \in Outcomes
        BY <1>o, <1>6 DEF BodyArrives, TypeOK
    <2> QED
        BY <1>6, <2>1, <2>2 DEF BodyArrives, Release, TypeOK
<1>7. CASE BodyFails
    BY <1>o, <1>7 DEF BodyFails, Settle, Release, TypeOK
<1>8. CASE ErrorBodyEnds
    BY <1>o, <1>8 DEF ErrorBodyEnds, Settle, Release, TypeOK
<1>9. CASE DeadlineFires
    BY <1>9 DEF DeadlineFires, TypeOK
<1>10. CASE CallerHangsUp
    BY <1>10 DEF CallerHangsUp, TypeOK
<1>11. CASE UNCHANGED vars
    BY <1>11 DEF vars, TypeOK
<1> QED
    BY <1>1, <1>2, <1>3, <1>4, <1>5, <1>6, <1>7, <1>8, <1>9, <1>10, <1>11 DEF Next, TypeOK

(* How an error ends the call: the handler has it, and nothing else is touched. *)
Ends ==
    /\ Active /\ pc' = "settled" /\ outcome' # Pending
    /\ timer' = FALSE /\ listening' = FALSE
    /\ UNCHANGED <<first, op, authorization, usable, call, aborted, callerGone, requests,
                   target, verb, payload, stripped, res, sent>>

(* What goes wrong on a call ends it, and takes its timer and its listener along. *)
LEMMA ErrorsEnd ==
    ASSUME FetchRejects \/ RedirectRefused \/ BodyFails \/ ErrorBodyEnds
    PROVE  Ends
<1>1. NoAnswer # Pending /\ "upstream error" # Pending
    BY DEF NoAnswer, Pending
<1>2. CASE FetchRejects
    BY <1>1, <1>2 DEF FetchRejects, Settle, Release, Ends, Active, follows
<1>3. CASE RedirectRefused
    BY <1>1, <1>3 DEF RedirectRefused, Settle, Release, Ends, Active, follows
<1>4. CASE BodyFails
    BY <1>1, <1>4 DEF BodyFails, Settle, Release, Ends, Active, follows
<1>5. CASE ErrorBodyEnds
    BY <1>1, <1>5 DEF ErrorBodyEnds, Settle, Release, Ends, Active, follows
<1> QED
    BY <1>2, <1>3, <1>4, <1>5

(* A handler that is done is done, and what is between two calls is armed with nothing. *)
LEMMA EndedStep ==
    ASSUME IInv, [Next]_vars
    PROVE  Ended'
<1> USE DEF IInv, Ended, NothingLeftArmed
<1>1. CASE Send
    <2>1. "bad address" # Pending
        BY DEF Pending
    <2> QED
        BY <1>1, <2>1 DEF Send, Settle, Release, Fetch
<1>2. ASSUME NEW status \in Statuses, NEW location \in Locations, FetchResolves(status, location)
      PROVE  Ended'
    BY <1>2 DEF FetchResolves
<1>3. CASE FetchRejects \/ RedirectRefused \/ BodyFails \/ ErrorBodyEnds
    BY <1>3, ErrorsEnd DEF Ends
<1>4. CASE RedirectFollowed
    BY <1>4 DEF RedirectFollowed, Fetch
<1>5. CASE BodyArrives
    <2>1. op.calls \in Nat /\ call \in Nat
        BY OperationTypes DEF TypeOK
    <2>2. call' <= op'.calls
        <3>1. op' = op /\ (call' = call \/ (call' = call + 1 /\ call < op.calls))
            BY <1>5 DEF BodyArrives
        <3> QED
            BY <2>1, <3>1
    <2>3. "body" # Pending /\ "unreadable" # Pending
        BY DEF Pending
    <2>4. pc' = "settled" <=> outcome' # Pending
        <3>1. outcome = Pending
            BY <1>5 DEF BodyArrives
        <3>2. \/ pc' = "ready" /\ outcome' = outcome
              \/ pc' = "settled" /\ outcome' \in {"body", "unreadable"}
            BY <1>5 DEF BodyArrives
        <3> QED
            BY <2>3, <3>1, <3>2
    <2> QED
        BY <1>5, <2>2, <2>4 DEF BodyArrives, Release
<1>6. CASE DeadlineFires
    BY <1>6 DEF DeadlineFires
<1>7. CASE CallerHangsUp
    BY <1>7 DEF CallerHangsUp
<1>8. CASE UNCHANGED vars
    BY <1>8 DEF vars
<1> QED
    BY <1>1, <1>2, <1>3, <1>4, <1>5, <1>6, <1>7, <1>8 DEF Next

(* The control of a call: its count, the caller's signal, and what it has asked for. *)
LEMMA ControlStep ==
    ASSUME IInv, [Next]_vars
    PROVE  Counted' /\ Noticed' /\ Asked' /\ Looked'
<1> USE DEF IInv, Counted, Noticed, Asked, Looked, Active
<1>1. CASE Send
    <2>1. CASE usable
        <3>1. /\ pc' = "fetch" /\ aborted' = callerGone /\ target' = first /\ Len(sent') <= 1
              /\ callerGone => sent' = <<>>
              /\ ~callerGone => Len(sent') = 1 /\ sent'[1].target = target'
            BY <1>1, <2>1, FirstHop
        <3>2. requests' = 1 /\ listening' = TRUE /\ UNCHANGED <<usable, callerGone>>
            BY <1>1, <2>1 DEF Send
        <3> QED
            BY <2>1, <3>1, <3>2
    <2>2. CASE ~usable
        BY <1>1, <2>2 DEF Send, Settle
    <2> QED
        BY <2>1, <2>2
<1>2. ASSUME NEW status \in Statuses, NEW location \in Locations, FetchResolves(status, location)
      PROVE  Counted' /\ Noticed' /\ Asked' /\ Looked'
    <2>1. pc = "fetch" /\ ~aborted /\ pc' \in {"redirect", "body", "refusal"} /\ sent # <<>>
        BY <1>2 DEF FetchResolves
    <2>2. UNCHANGED <<usable, aborted, callerGone, listening, requests, target, sent>>
        BY <1>2 DEF FetchResolves, follows
    <2>3. pc' = "redirect" => res'.location \in Targets \cup {Unparsable}
        BY <1>2 DEF FetchResolves, Locations
    <2> QED
        BY <2>1, <2>2, <2>3
<1>3. CASE FetchRejects \/ RedirectRefused \/ BodyFails \/ ErrorBodyEnds
    BY <1>3, ErrorsEnd DEF Ends
<1>4. CASE RedirectFollowed
    <2>1. pc = "redirect" /\ res.location \in Targets
        BY <1>4 DEF RedirectFollowed, MayFollow
    <2>2. /\ pc' = "fetch"
          /\ aborted => sent' = sent
          /\ ~aborted => Len(sent') = Len(sent) + 1 /\ sent'[Len(sent')].target = target'
          /\ sent' \in Seq(Hops)
        BY <1>4, <2>1, NextHop
    <2>3. requests' = requests + 1 /\ usable' = usable /\ callerGone' = callerGone /\ aborted' = aborted /\ listening' = listening
        BY <1>4 DEF RedirectFollowed
    <2>4. requests \in Nat /\ Len(sent) \in Nat
        BY ClientAssumption DEF TypeOK
    <2>5. CASE aborted
        BY <2>1, <2>2, <2>3, <2>4, <2>5
    <2>6. CASE ~aborted
        <3>1. sent' # <<>>
            BY <2>2, <2>4, <2>6
        <3> QED
            BY <2>1, <2>2, <2>3, <2>4, <2>6, <3>1
    <2> QED
        BY <2>5, <2>6
<1>5. CASE BodyArrives
    BY <1>5 DEF BodyArrives
<1>6. CASE DeadlineFires
    BY <1>6 DEF DeadlineFires
<1>7. CASE CallerHangsUp
    BY <1>7 DEF CallerHangsUp, follows
<1>8. CASE UNCHANGED vars
    BY <1>8 DEF vars, follows
<1> QED
    BY <1>1, <1>2, <1>3, <1>4, <1>5, <1>6, <1>7, <1>8 DEF Next

(* The steps that send nothing and move no hop leave what is known of the hops alone. *)
Quiet ==
    /\ UNCHANGED <<first, op, target, verb, payload, stripped, sent>>
    /\ Active' => Active

LEMMA OthersAreQuiet ==
    ASSUME IInv, [Next]_vars, ~(Send /\ usable), ~RedirectFollowed
    PROVE  Quiet
<1> USE DEF Quiet, Active, follows
<1>1. CASE Send
    BY <1>1 DEF Send, Settle, AbortedAtStart
<1>2. ASSUME NEW status \in Statuses, NEW location \in Locations, FetchResolves(status, location)
      PROVE  Quiet
    BY <1>2 DEF FetchResolves
<1>3. CASE FetchRejects \/ RedirectRefused \/ BodyFails \/ ErrorBodyEnds
    BY <1>3, ErrorsEnd DEF Ends
<1>5. CASE BodyArrives
    BY <1>5 DEF BodyArrives
<1>6. CASE DeadlineFires
    BY <1>6 DEF DeadlineFires
<1>7. CASE CallerHangsUp
    BY <1>7 DEF CallerHangsUp
<1>8. CASE UNCHANGED vars
    BY <1>8 DEF vars
<1> QED
    BY <1>1, <1>2, <1>3, <1>5, <1>6, <1>7, <1>8 DEF Next

(* The method and the body are only ever lost on the way. *)
LEMMA PreservedStep ==
    ASSUME IInv, [Next]_vars
    PROVE  Preserved' /\ PostRepeatedOnlyOnPreservingRedirect'
<1> USE DEF Preserved, PostRepeatedOnlyOnPreservingRedirect
<1>0. TypeOK /\ Preserved /\ PostRepeatedOnlyOnPreservingRedirect
    BY DEF IInv
<1>1. CASE Send /\ usable
    <2>1. op' = op
        BY <1>1 DEF Send
    <2>2. /\ verb' = op.method /\ payload' = op.body /\ Len(sent') <= 1
          /\ sent' \in Seq(Hops)
          /\ callerGone => sent' = <<>>
          /\ ~callerGone => sent'[1].verb = verb' /\ sent'[1].payload = payload'
        BY <1>0, <1>1, FirstHop
    <2> QED
        BY <2>1, <2>2
<1>2. CASE RedirectFollowed
    <2>1. op' = op /\ pc = "redirect" /\ res.location \in Targets
        BY <1>2 DEF RedirectFollowed, MayFollow, IInv, Looked
    <2>2. /\ verb' = IF Preserves(res.status) THEN verb ELSE "GET"
          /\ payload' = (payload /\ Preserves(res.status))
        BY <1>0, <1>2, <2>1, NextHop
    <2>3. verb' = "POST" \/ payload' =>
             /\ res.status > 303
             /\ verb' = op.method /\ payload' = op.body
             /\ \A j \in 2..Len(sent) : sent[j].after > 303
        <3>1. payload \in BOOLEAN
            BY <1>0 DEF TypeOK
        <3>2. CASE Preserves(res.status)
            <4>1. verb' = verb /\ payload' = payload
                BY <2>2, <3>1, <3>2
            <4> QED
                BY <1>0, <2>1, <3>2, <4>1 DEF Preserves, Active
        <3>3. CASE ~Preserves(res.status)
            BY <2>2, <3>3
        <3> QED
            BY <3>2, <3>3
    <2>4. CASE aborted
        <3>1. sent' = sent
            BY <1>0, <1>2, <2>1, <2>4, NextHop
        <3> QED
            BY <1>0, <2>1, <2>3, <3>1
    <2>5. CASE ~aborted
        <3>1. /\ sent' \in Seq(Hops) /\ Len(sent') = Len(sent) + 1
              /\ \A j \in 1..Len(sent) : sent'[j] = sent[j]
              /\ sent'[Len(sent')].verb = verb' /\ sent'[Len(sent')].payload = payload'
              /\ sent'[Len(sent')].after = res.status
            BY <1>0, <1>2, <2>1, <2>5, NextHop
        <3>2. Len(sent) \in Nat
            BY <1>0 DEF TypeOK
        <3>3. Preserved'
            BY <2>1, <2>3, <3>1, <3>2
        <3>4. ASSUME NEW i \in 1..Len(sent'), sent'[i].verb = "POST" \/ sent'[i].payload
              PROVE  /\ sent'[i].verb = op'.method /\ sent'[i].payload = op'.body
                     /\ \A j \in 2..i : sent'[j].after > 303
            <4>1. CASE i \in 1..Len(sent)
                BY <1>0, <2>1, <3>1, <3>2, <3>4, <4>1
            <4>2. CASE i = Len(sent')
                BY <2>1, <2>3, <3>1, <3>2, <3>4, <4>2
            <4> QED
                BY <3>1, <3>2, <4>1, <4>2
        <3> QED
            BY <3>3, <3>4
    <2> QED
        BY <2>4, <2>5
<1>3. CASE ~(Send /\ usable) /\ ~RedirectFollowed
    <2>1. Quiet
        BY <1>3, OthersAreQuiet
    <2> QED
        BY <1>0, <2>1 DEF Quiet
<1> QED
    BY <1>1, <1>2, <1>3

(* An address that passes the rule for Authorization is the gateway's own. *)
LEMMA SameIsOwn ==
    ASSUME first \in Homes, NEW t \in Targets, GoSame(t), FetchedSame(t)
    PROVE  OwnHop(t)
<1>1. first \in Targets
    BY ClientAssumption
<1>2. /\ t.written \in Seq(STRING) /\ t.fetched \in Seq(STRING)
      /\ first.written \in Seq(STRING) /\ first.fetched \in Seq(STRING)
    BY <1>1, ClientAssumption
<1>3. ASSUME NEW name \in Seq(STRING), NEW home \in Seq(STRING), HasSubdomains(home), IsDomainOrSubdomain(name, home)
      PROVE  Owns(home, name)
    <2>1. CASE name = home
        BY <2>1 DEF Owns
    <2>2. CASE EndsWith(name, home)
        <3> DEFINE k == Len(name) - Len(home) + 1
        <3>1. Len(home) > 1 /\ home \notin NumericNames \cup ColonNames
            BY <1>3 DEF HasSubdomains
        <3>2. k \in 2..Len(name) /\ SubSeq(name, k, Len(name)) = home
            BY <2>2, <3>1 DEF EndsWith
        <3> HIDE DEF k
        <3> QED
            BY <3>1, <3>2 DEF Owns
    <2> QED
        BY <1>3, <2>1, <2>2 DEF IsDomainOrSubdomain
<1>4. CASE ExactOnly
    BY <1>4 DEF GoSame, FetchedSame, SameDomain, OwnHop, Owns
<1>5. CASE ~ExactOnly
    <2>1. HasSubdomains(first.written) /\ HasSubdomains(first.fetched)
        BY <1>5, HomesAssumption DEF ExactOnly
    <2>2. IsDomainOrSubdomain(t.written, first.written) /\ IsDomainOrSubdomain(t.fetched, first.fetched)
        BY <1>5 DEF GoSame, FetchedSame, SameDomain
    <2> QED
        BY <1>2, <1>3, <2>1, <2>2 DEF OwnHop
<1> QED
    BY <1>4, <1>5

(* The header is only ever lost on the way. *)
LEMMA AtHomeStep ==
    ASSUME IInv, [Next]_vars
    PROVE  AtHome' /\ AuthorizationStaysHome'
<1> USE DEF AtHome, AuthorizationStaysHome
<1>0. TypeOK /\ AtHome /\ AuthorizationStaysHome /\ Asked
    BY DEF IInv
<1>1. CASE Send /\ usable
    <2>1. first' = first
        BY <1>1 DEF Send
    <2>2. /\ Len(sent') <= 1 /\ sent' \in Seq(Hops)
          /\ callerGone => sent' = <<>>
          /\ ~callerGone => sent'[1].target = first
        BY <1>0, <1>1, FirstHop
    <2>3. OwnHop(first)
        BY DEF OwnHop, Owns
    <2>4. \A j \in 1..Len(sent') : OwnHop(sent'[j].target)
        BY <2>2, <2>3
    <2> QED
        BY <2>1, <2>2, <2>4 DEF OwnHop
<1>2. CASE RedirectFollowed
    <2>1. first' = first /\ pc = "redirect" /\ res.location \in Targets
        BY <1>2 DEF RedirectFollowed, MayFollow, IInv, Looked
    <2>2. target' = res.location /\ stripped' = Strip(res.location)
        BY <1>0, <1>2, <2>1, NextHop
    <2>3. ~stripped' => ~stripped /\ OwnHop(target') /\ ~Downgrade(target, target')
        BY <1>0, <2>1, <2>2, SameIsOwn DEF Strip, TypeOK
    <2>4. CASE aborted
        <3>1. sent' = sent
            BY <1>0, <1>2, <2>1, <2>4, NextHop
        <3> QED
            BY <1>0, <2>1, <2>3, <3>1 DEF OwnHop, Active
    <2>5. CASE ~aborted
        <3>1. /\ sent' \in Seq(Hops) /\ Len(sent') = Len(sent) + 1
              /\ \A j \in 1..Len(sent) : sent'[j] = sent[j]
              /\ sent'[Len(sent')].target = target'
              /\ sent'[Len(sent')].authorization => ~stripped'
            BY <1>0, <1>2, <2>1, <2>5, NextHop
        <3>2. Len(sent) \in Nat /\ Len(sent) > 0 /\ sent[Len(sent)].target = target
            BY <1>0, <2>1, <2>5 DEF TypeOK, Asked, Active
        <3>3. ~stripped' =>
                 /\ \A j \in 1..Len(sent') : OwnHop(sent'[j].target)
                 /\ \A j \in 1..(Len(sent') - 1) : ~Downgrade(sent'[j].target, sent'[j + 1].target)
            <4>1. SUFFICES ASSUME ~stripped'
                  PROVE  /\ \A j \in 1..Len(sent') : OwnHop(sent'[j].target)
                         /\ \A j \in 1..(Len(sent') - 1) : ~Downgrade(sent'[j].target, sent'[j + 1].target)
                OBVIOUS
            <4>2. ASSUME NEW j \in 1..Len(sent') PROVE OwnHop(sent'[j].target)
                BY <1>0, <2>1, <2>3, <3>1, <3>2, <4>1 DEF Active
            <4>3. ASSUME NEW j \in 1..(Len(sent') - 1) PROVE ~Downgrade(sent'[j].target, sent'[j + 1].target)
                <5>1. CASE j = Len(sent)
                    BY <2>3, <3>1, <3>2, <4>1, <5>1
                <5>2. CASE j \in 1..(Len(sent) - 1)
                    BY <1>0, <2>1, <2>3, <3>1, <3>2, <4>1, <5>2 DEF Active
                <5> QED
                    BY <3>1, <3>2, <5>1, <5>2
            <4> QED
                BY <4>2, <4>3
        <3>4. ASSUME NEW i \in 1..Len(sent'), sent'[i].authorization
              PROVE  /\ \A j \in 1..i : OwnHop(sent'[j].target)
                     /\ \A j \in 1..(i - 1) : ~Downgrade(sent'[j].target, sent'[j + 1].target)
            <4>1. CASE i \in 1..Len(sent)
                <5>1. /\ \A j \in 1..i : OwnHop(sent[j].target)
                      /\ \A j \in 1..(i - 1) : ~Downgrade(sent[j].target, sent[j + 1].target)
                    BY <1>0, <3>1, <3>4, <4>1
                <5>2. ASSUME NEW j \in 1..i PROVE OwnHop(sent'[j].target)
                    BY <3>1, <3>2, <4>1, <5>1
                <5>3. ASSUME NEW j \in 1..(i - 1) PROVE ~Downgrade(sent'[j].target, sent'[j + 1].target)
                    <6>1. j \in 1..Len(sent) /\ j + 1 \in 1..Len(sent)
                        BY <3>2, <4>1
                    <6>2. sent'[j] = sent[j] /\ sent'[j + 1] = sent[j + 1]
                        BY <3>1, <6>1
                    <6> QED
                        BY <5>1, <6>2
                <5> QED
                    BY <5>2, <5>3
            <4>2. CASE i = Len(sent')
                BY <3>1, <3>3, <3>4, <4>2
            <4> QED
                BY <3>1, <3>2, <4>1, <4>2
        <3> QED
            BY <2>1, <3>3, <3>4 DEF OwnHop
    <2> QED
        BY <2>4, <2>5
<1>3. CASE ~(Send /\ usable) /\ ~RedirectFollowed
    <2>1. Quiet
        BY <1>3, OthersAreQuiet
    <2> QED
        BY <1>0, <2>1 DEF Quiet, OwnHop
<1> QED
    BY <1>1, <1>2, <1>3

(* The invariant is inductive. *)
LEMMA NextIInv == IInv /\ [Next]_vars => IInv'
BY TypeStep, EndedStep, ControlStep, PreservedStep, AtHomeStep DEF IInv

-----------------------------------------------------------------------------
(* The types: client.ts keeps every variable of a call in its range, however the gateway, the clock and the caller behave. *)
THEOREM TypeCorrect == Spec => []TypeOK
<1>1. IInv => TypeOK
    BY DEF IInv
<1> QED
    BY InitIInv, NextIInv, <1>1, PTL DEF Spec

(***************************************************************************)
(* The caller's Authorization stays with the gateway: for any chain of     *)
(* redirects and any addresses they lead to (client.ts, follow).           *)
(***************************************************************************)
THEOREM HeaderStaysHome == Spec => []AuthorizationStaysHome
<1>1. IInv => AuthorizationStaysHome
    BY DEF IInv
<1> QED
    BY InitIInv, NextIInv, <1>1, PTL DEF Spec

(* A credit-spending request is repeated elsewhere only on a 307 or a 308 (client.ts, follow). *)
THEOREM PostIsPreserved == Spec => []PostRepeatedOnlyOnPreservingRedirect
<1>1. IInv => PostRepeatedOnlyOnPreservingRedirect
    BY DEF IInv
<1> QED
    BY InitIInv, NextIInv, <1>1, PTL DEF Spec

(* Whatever ends a call of `send`, its timer and its listener are gone with it. *)
THEOREM NothingStaysArmed == Spec => []NothingLeftArmed
<1>1. IInv => NothingLeftArmed
    BY DEF IInv, Ended
<1> QED
    BY InitIInv, NextIInv, <1>1, PTL DEF Spec

(***************************************************************************)
(* The client takes no step its promise to the handler (GatewayCall) does  *)
(* not allow.                                                              *)
(***************************************************************************)
THEOREM ClientImplementsCall == Spec => Promise!Steps
<1>1. Init => Promise!Init
    <2> SUFFICES ASSUME Init PROVE Promise!Init
        OBVIOUS
    <2>1. op.calls \in {1, 3} /\ call = 1
        BY DEF Init, Operations, Reads, Writes
    <2> QED
        BY <2>1 DEF Init, Promise!Init, Pending, Promise!Pending
<1>2. IInv /\ [Next]_vars => [Promise!Next]_(Promise!callVars)
    <2> SUFFICES ASSUME IInv, [Next]_vars
                 PROVE  Promise!Next \/ UNCHANGED Promise!callVars
        BY DEF Promise!Next
    <2>0. TypeOK /\ Ended /\ Counted /\ Noticed /\ Asked /\ Looked
        BY DEF IInv
    <2>t. Len(sent) \in Nat /\ requests \in Nat /\ requests <= MAX_REQUESTS /\ MAX_REQUESTS \in Nat \ {0}
        BY <2>0, ClientAssumption DEF TypeOK
    <2>1. CASE Send
        <3>1. outcome = Pending /\ pc = "ready"
            BY <2>0, <2>1 DEF Send, Ended
        <3>2. CASE usable /\ ~callerGone
            <4>1. pc' = "fetch" /\ Len(sent') = 1
                BY <2>0, <2>1, <3>2, FirstHop
            <4>2. UNCHANGED <<op, call, callerGone, outcome>>
                BY <2>1, <3>2 DEF Send
            <4> QED
                BY <2>t, <3>1, <3>2, <4>1, <4>2 DEF Promise!Next, Promise!Ask, Promise!Pending, Pending
        <3>3. CASE usable /\ callerGone
            <4>1. pc' = "fetch" /\ sent' = <<>>
                BY <2>0, <2>1, <3>3, FirstHop
            <4>2. UNCHANGED <<op, call, callerGone, outcome>>
                BY <2>1, <3>3 DEF Send
            <4> QED
                BY <3>1, <4>1, <4>2 DEF Promise!callVars
        <3>4. CASE ~usable
            <4>1. pc' = "settled" /\ outcome' = "bad address" /\ sent' = <<>> /\ UNCHANGED <<op, call, callerGone>>
                BY <2>0, <2>1, <3>4 DEF Send, Settle, Counted
            <4> QED
                BY <3>1, <4>1 DEF Promise!Next, Promise!End, Promise!May, Promise!Pending, Pending
        <3> QED
            BY <3>2, <3>3, <3>4
    <2>2. ASSUME NEW status \in Statuses, NEW location \in Locations, FetchResolves(status, location)
          PROVE  UNCHANGED Promise!callVars
        BY <2>2 DEF FetchResolves, Promise!callVars
    <2>3. CASE FetchRejects \/ RedirectRefused \/ BodyFails \/ ErrorBodyEnds
        <3>1. Ends
            BY <2>3, ErrorsEnd
        <3>2. outcome = Pending /\ pc # "ready"
            BY <2>0, <3>1 DEF Ends, Active, Ended
        <3>3. outcome' \in {NoAnswer, "upstream error"} /\ (outcome' = "upstream error" => pc = "refusal")
            BY <2>3 DEF FetchRejects, RedirectRefused, BodyFails, ErrorBodyEnds, Settle, NoAnswer
        <3>4. UNCHANGED <<op, call, callerGone, sent>> /\ pc' = "settled"
            BY <3>1 DEF Ends
        <3>5. sent # <<>> \/ (callerGone /\ pc # "refusal")
            BY <2>0, <3>1 DEF Ends, Active, Asked
        <3>6. sent # <<>> => Len(sent) > 0
            BY <2>0, <2>t DEF TypeOK
        <3> QED
            BY <3>2, <3>3, <3>4, <3>5, <3>6
            DEF NoAnswer, Promise!Next, Promise!End, Promise!May, Promise!Pending, Pending
    <2>4. CASE RedirectFollowed
        <3>1. pc = "redirect" /\ res.location \in Targets /\ requests < MAX_REQUESTS
            BY <2>0, <2>4 DEF RedirectFollowed, MayFollow, Looked
        <3>2. UNCHANGED <<op, call, callerGone, outcome>> /\ outcome = Pending
            BY <2>0, <2>4, <3>1 DEF RedirectFollowed, Ended
        <3>3. CASE aborted
            <4>1. sent' = sent /\ pc' = "fetch"
                BY <2>0, <2>4, <3>1, <3>3, NextHop
            <4> QED
                BY <3>1, <3>2, <4>1 DEF Promise!callVars
        <3>4. CASE ~aborted
            <4>1. Len(sent') = Len(sent) + 1 /\ pc' = "fetch"
                BY <2>0, <2>4, <3>1, <3>4, NextHop
            <4>2. ~callerGone /\ Len(sent) < MAX_REQUESTS
                BY <2>0, <2>t, <3>1, <3>4 DEF Noticed, Active, Counted
            <4> QED
                BY <3>1, <3>2, <4>1, <4>2 DEF Promise!Next, Promise!Ask, Promise!Pending, Pending
        <3> QED
            BY <3>3, <3>4
    <2>5. CASE BodyArrives
        <3>1. pc = "body" /\ outcome = Pending /\ sent # <<>>
            BY <2>0, <2>5 DEF BodyArrives, Ended, Asked
        <3>2. Len(sent) > 0 /\ op.calls \in Nat /\ call \in Nat
            BY <2>0, <3>1, OperationTypes DEF TypeOK
        <3>3. UNCHANGED <<op, callerGone, sent>>
            BY <2>5 DEF BodyArrives
        <3>4. CASE call < op.calls /\ pc' = "ready" /\ call' = call + 1 /\ UNCHANGED outcome
            <4>1. op.calls - call > 0 /\ op'.calls - call' = (op.calls - call) - 1
                BY <3>2, <3>3, <3>4
            <4> QED
                BY <3>1, <3>2, <3>3, <3>4, <4>1 DEF Promise!Next, Promise!NextCall, Promise!Pending, Pending
        <3>5. CASE pc' = "settled" /\ call' = call /\ (outcome' = "unreadable" \/ (outcome' = "body" /\ call = op.calls))
            <4>1. op'.calls - call' = op.calls - call
                BY <3>3, <3>5
            <4>2. CASE outcome' = "unreadable"
                <5>1. Promise!May("unreadable")
                    BY <3>1, <3>2 DEF Promise!May
                <5> QED
                    BY <3>1, <3>3, <3>5, <4>1, <4>2, <5>1 DEF Promise!Next, Promise!End, Promise!Pending, Pending
            <4>3. CASE outcome' = "body" /\ call = op.calls
                <5>1. Promise!May("body")
                    <6>1. op.calls - call = 0
                        BY <3>2, <4>3
                    <6> QED
                        BY <3>1, <3>2, <6>1 DEF Promise!May
                <5> QED
                    BY <3>1, <3>3, <3>5, <4>1, <4>3, <5>1 DEF Promise!Next, Promise!End, Promise!Pending, Pending
            <4> QED
                BY <3>5, <4>2, <4>3
        <3> QED
            BY <2>5, <3>4, <3>5 DEF BodyArrives
    <2>6. CASE DeadlineFires
        BY <2>6 DEF DeadlineFires, Promise!callVars
    <2>7. CASE CallerHangsUp
        BY <2>0, <2>7 DEF CallerHangsUp, Ended, Promise!Next, Promise!HangUp, Promise!Pending, Pending
    <2>8. CASE UNCHANGED vars
        BY <2>8 DEF vars, Promise!callVars
    <2> QED
        BY <2>1, <2>2, <2>3, <2>4, <2>5, <2>6, <2>7, <2>8 DEF Next
<1> QED
    BY InitIInv, NextIInv, <1>1, <1>2, PTL DEF Spec, Promise!Steps
=============================================================================
