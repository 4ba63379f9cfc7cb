--------------------------- MODULE MCWriteRequests ---------------------------
(* WriteRequests with one request of each kind, for model checking. *)
EXTENDS WriteRequests

MCRequests == {"a", "f", "t", "d"}
MCKind == [r \in MCRequests |->
             CASE r = "a" -> "accept" [] r = "f" -> "fulfill" [] r = "t" -> "trade" [] OTHER -> "delivery"]

MaxFaults == 2   \* bound of the safety run: callers who hang up, refusals of the game and empty answers, together

Faults ==
    Cardinality({r \in Requests : caller[r] = "gone"}) + Cardinality({r \in Requests : game[r] = "refused"})
        + Cardinality({r \in Requests : reply[r] = "empty"})

MCNext == Next /\ Faults' <= MaxFaults

MCSpec == Init /\ [][MCNext]_vars

(* For liveness: one request per path through a handler. *)
MCRequestsLive == {"a", "t", "d"}
MCKindLive == [r \in MCRequestsLive |-> MCKind[r]]
=============================================================================
