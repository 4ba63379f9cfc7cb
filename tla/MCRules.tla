------------------------------- MODULE MCRules -------------------------------
(***************************************************************************)
(* The rules by which a request and an answer are read, one of them at a   *)
(* time: the path of a request (Paths), its way through the app            *)
(* (Pipeline), its query string and the listing (Listing), a JSON text     *)
(* (JsonText), a string in one (Unquote), the value that is made of it     *)
(* (Decoding), the moment it tells (Times) and a redirect (References).    *)
(***************************************************************************)
EXTENDS Paths, Pipeline, Listing, Decoding, Times, References, JsonText, Unquote

VARIABLE rule

(* Tables with an entry too few, too lax for its method, or another one that is allowed. *)
MCDeviations ==
    [of : Writes, says : {Undeclared, "none", "ignore", "session"}]
    \cup [of : HistoryReads, says : {"ignore", "session"}]

MCNames == {"ships", "contracts", "purchase", "deliveries", BadBytes, BadEscape, "..", ""}

MCRequestPaths ==
    { <<"">>, <<"health">>, <<"health", "">>, <<"api">>, API, <<"api", "agentx">>, V1 \o <<"transactions">> }
    \cup { API \o <<name>> : name \in {"health", "swagger", "nope"} }
    \cup { SWAGGER_PATH \o <<name>> : name \in {"", "index.html", "swagger-ui.css", "README.md"} }
    \cup { V1 \o names : names \in UNION { [1..n -> MCNames] : n \in 1..3 } }

-----------------------------------------------------------------------------
(* Three trades of two ships and two types in two seconds. *)
MCTrades == {
    [type |-> "SELL",     ship |-> "A", at |-> 1],
    [type |-> "SELL",     ship |-> "B", at |-> 2],
    [type |-> "PURCHASE", ship |-> "A", at |-> 2]}

(* Limits that are absent, empty, signed, padded, zero, too large to serve, too large to read, or broken. *)
MCShipTexts == {<<>>, <<"A">>, <<"a">>, <<"A", ";">>}
MCTypeTexts == {<<>>, <<"SELL">>, <<"typo">>, <<"SELL", "%">>}
MCLimitTexts == {<<>>, <<"1">>, <<"0">>, <<"0", "1">>, <<"%2B", "1">>, <<"+", "1">>, <<"-", "1">>, <<"-">>,
                 <<"3">>, <<"1", "2">>, <<"1", "3">>, <<"x">>, <<"2", ";">>, <<"2", "%">>}

(* The collation takes "a" for "A". *)
MCCollated(v) == [i \in 1..Len(v) |-> IF v[i] = "a" THEN "A" ELSE v[i]]

-----------------------------------------------------------------------------
(* The zero time comes twelve seconds before the epoch; a minute is a second, and every other unit two of the next. *)
MCZeroSeconds == 0 - 12

(* The zero time and its neighbours, halves of a second and what lacks a hair of them, both ends of the column. *)
MCStamps ==
    [local : {MCZeroSeconds, 0 - 11, 1, 9}, fraction : {0, 7, 8, 15},
     zone : {Z} \cup [sign : {"+"}, hours : {0, 1, 2}, minutes : {0}] \cup [sign : {"-"}, hours : {0}, minutes : {1}]]

-----------------------------------------------------------------------------
MCConcat(A, B) == {x \o y : x \in A, y \in B}

MCSlashes == <<"/", "/">>
MCHome    == <<"http", ":">> \o MCSlashes \o <<"a", "/", "b", "/", "c">>
MCHomes   == {MCHome, MCHome \o <<"?", "c">>, <<"https", ":">> \o MCSlashes \o <<"a", ":", "1", "/">>,
              <<"b">>, <<"http", ":", "/", "a">>}

MCPrefixes    == {<<>>, <<"http", ":">>, <<"a", ":">>, <<":">>, <<"1", ":">>}
MCAuthorities == {<<>>, MCSlashes} \cup MCConcat({MCSlashes},
    {<<"b">>, <<"b", ":", "1">>, <<"b", ":", "99999">>, <<"c", "@", "b">>, <<"b", ":", "c">>, <<"b", "\\">>, <<"b", ":">>})
MCPaths       == {<<>>, <<"/", "c">>, <<"c">>, <<"/", "/", "c">>, <<"%">>}
MCTails       == {<<"?", "%">>, <<"#", "%">>, <<"?", "#", "?">>, <<"ctl">>}
MCDotted(n)   == {FlattenSeq(s) : s \in
    UNION {[1..k -> {<<"/">>, <<".", ".">>, <<".">>, <<"c">>, <<"\\">>, <<"%2E">>}] : k \in 0..n}}

MCReferences ==
    MCConcat(MCConcat(MCPrefixes, MCAuthorities), MCPaths)
    \cup MCConcat(MCConcat({<<>>, MCSlashes \o <<"b">>}, {<<>>, <<"/", "c">>}), MCTails)
    \cup MCDotted(3) \cup MCConcat({<<"http", ":">>, MCSlashes \o <<"b">>}, MCDotted(2))

-----------------------------------------------------------------------------
PathsRest    == asked = <<>> /\ target = <<>> /\ verdict = "pending" /\ hops = 0
PipelineRest ==
    /\ deviation = NoDeviation /\ process = "starting" /\ req = NoRequest /\ at = "idle" /\ cors = FALSE
    /\ route = NoRoute /\ center = "unasked" /\ ran = FALSE /\ variable = Nothing /\ status = 0
ListRest ==
    /\ query = <<>> /\ table = {} /\ before = {} /\ pc = "type" /\ wanted = <<>>
    /\ count = DEFAULT_TRANSACTION_LIMIT /\ answer = NoAnswer
DecodeRest ==
    /\ source = "answer" /\ body = "empty" /\ doc = NullNode /\ bound = 0 /\ into = Zero /\ result = "pending"
TimesRest ==
    what = <<>> /\ stamp = <<>> /\ clock = <<>> /\ field = [e \in Events |-> Unread] /\ column = [e \in Events |-> Unwritten]
ReferencesRest == base = Nowhere /\ text = <<>> /\ goal = Nowhere /\ hopped = 0
JsonRest ==
    ignoreRest = FALSE /\ scanned = <<>> /\ expects = "value" /\ stack = <<>> /\ value = None /\ parsed = "no"
UnquoteRest ==
    /\ between = <<>> /\ ending = "quote" /\ index = 1 /\ run = 1 /\ parts = <<>> /\ plain = TRUE /\ unquoted = "no"

(* What cannot matter is not varied: the timestamp of a delivery, the fraction of a contract's. *)
MCTimesInit ==
    /\ TimesInit
    /\ \A e \in Events : what[e] # "trade" =>
           /\ stamp[e].local = 1 /\ stamp[e].fraction = 0
           /\ what[e] = "delivery" => stamp[e].zone = Z

(* A text of three members is an answer's (a request's is read alike), about one field (fields are *)
(* independent), and goes on until its third (what refuses a text earlier is in those of two).     *)
MCDecodeInit ==
    /\ DecodeInit
    /\ Len(doc.members) > 2 =>
           /\ source = "answer"
           /\ \A i \in 2..Len(doc.members) :
                 LET f == Folded(doc.members[i].key) IN
                 f = Folded(doc.members[1].key) /\ Fits(doc.members[i - 1].value, f)

(* What ends a string is varied behind short ones. *)
MCUnquoteInit == UnquoteInit /\ (Len(between) > 2 => ending = "quote")

MCInit ==
    \/ /\ rule = "path"      /\ PathsInit
       /\ PipelineRest /\ ListRest /\ DecodeRest /\ TimesRest /\ ReferencesRest /\ JsonRest /\ UnquoteRest
    \/ /\ rule = "pipeline"  /\ PipelineInit
       /\ PathsRest /\ ListRest /\ DecodeRest /\ TimesRest /\ ReferencesRest /\ JsonRest /\ UnquoteRest
    \/ /\ rule = "listing"   /\ ListInit
       /\ PathsRest /\ PipelineRest /\ DecodeRest /\ TimesRest /\ ReferencesRest /\ JsonRest /\ UnquoteRest
    \/ /\ rule = "value"     /\ MCDecodeInit
       /\ PathsRest /\ PipelineRest /\ ListRest /\ TimesRest /\ ReferencesRest /\ JsonRest /\ UnquoteRest
    \/ /\ rule = "time"      /\ MCTimesInit
       /\ PathsRest /\ PipelineRest /\ ListRest /\ DecodeRest /\ ReferencesRest /\ JsonRest /\ UnquoteRest
    \/ /\ rule = "reference" /\ ReferencesInit
       /\ PathsRest /\ PipelineRest /\ ListRest /\ DecodeRest /\ TimesRest /\ JsonRest /\ UnquoteRest
    \/ /\ rule = "text"      /\ JsonInit
       /\ PathsRest /\ PipelineRest /\ ListRest /\ DecodeRest /\ TimesRest /\ ReferencesRest /\ UnquoteRest
    \/ /\ rule = "string"    /\ MCUnquoteInit
       /\ PathsRest /\ PipelineRest /\ ListRest /\ DecodeRest /\ TimesRest /\ ReferencesRest /\ JsonRest

mcRequestVars == <<pathsVars, pipelineVars, listVars>>
mcAnswerVars  == <<decodeVars, timesVars, referenceVars, jsonVars, unquoteVars>>

MCNext ==
    /\ UNCHANGED rule
    /\ \/ rule = "path" /\ PathsNext /\ UNCHANGED <<pipelineVars, listVars, mcAnswerVars>>
       \/ rule = "pipeline" /\ PipelineNext /\ UNCHANGED <<pathsVars, listVars, mcAnswerVars>>
       \/ rule = "listing" /\ ListNext /\ UNCHANGED <<pathsVars, pipelineVars, mcAnswerVars>>
       \/ rule = "value" /\ DecodeNext /\ UNCHANGED <<mcRequestVars, timesVars, referenceVars, jsonVars, unquoteVars>>
       \/ rule = "time" /\ TimesNext /\ UNCHANGED <<mcRequestVars, decodeVars, referenceVars, jsonVars, unquoteVars>>
       \/ rule = "reference" /\ ReferencesNext /\ UNCHANGED <<mcRequestVars, decodeVars, timesVars, jsonVars, unquoteVars>>
       \/ rule = "text" /\ JsonNext /\ UNCHANGED <<mcRequestVars, decodeVars, timesVars, referenceVars, unquoteVars>>
       \/ rule = "string" /\ UnquoteNext /\ UNCHANGED <<mcRequestVars, decodeVars, timesVars, referenceVars, jsonVars>>

MCSpec == MCInit /\ [][MCNext]_<<rule, mcRequestVars, mcAnswerVars>>
=============================================================================
