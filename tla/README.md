# A TLA+ model of agent-service

agent-service is a Node/Express back end for a SpaceTraders fleet. It forwards its callers' reads and writes to
st-gateway (which holds the game credential), keeps a history of contracts, deliveries and transactions in MySQL, and
serves that history. Beside it in the repository are a contract suite that runs against any build of it, and the scripts
that let a change through. This directory holds TLA+ modules for the parts in which the order of events matters or a
text is read by rules, TLC configurations that check them on small instances, and proofs checked by TLAPS. Source paths
below are relative to the service's `src/`, those beginning with `contract/` or `scripts/` to the repository.

## 1. Inventory

| Component | State | Operations | What is hard about it | What makes it correct |
|---|---|---|---|---|
| Database set-up (`db/setup.ts`, `db/migrate.ts`) | the schema in MySQL | ping loop, CREATE TABLE, look-up + ALTER, look-up + CREATE INDEX | several instances on one database; look-up and DDL are two statements; a boot may die anywhere | whoever serves, serves on a complete schema; the race leaves a survivor; a reboot is quiet |
| Gateway client (`gateway/client.ts`, `errors.ts`) | per call: timer, listener, abort signal, hop, stripped flag | send, follow, the handlers' calls | deadline, hang-up and network failure at every await; redirect chains; two readings of a host name | the session stays with the gateway; POSTs are not repeated by accident; calls are bounded and end, with the right one to blame |
| References (`gateway/location.ts`) | none | resolveReference, resolvePath | Go's reading and fetch's differ in slashes, backslashes, dots and escapes | fetch goes where the reference says |
| Write handlers (`controllers/contracts`, `ships`, `support`, `persistence.ts`, `db/history.ts`) | history rows; per request: stage, caller's signal | accept, fulfil, buy ship, buy/sell cargo, record delivery | the game's action cannot be undone; the history write may fail or be overtaken; hang-ups between any two awaits | answers are truthful, rows are truthful, a failed write is in the log, a clean shutdown loses nothing it was told |
| Connection pool (`db/sql.ts`) | connections, their age and session zone, a queue | take, execute, ping, the connection event | failing statements, old connections replaced under a full queue, a session set-up that runs before the first statement | it is a semaphore: at most ten at a time, nobody forgotten; UTC everywhere |
| Server (`server.ts`) | the process; each connection | the middleware, error handler, closeWhenBodyUnread, shutdown | an answer that goes out before the body is in; a deadline on the shutdown | connections end, nothing is cut off in a clean shutdown |
| Request body, JSON answers (`http/body.ts`, `http/json.ts`) | chunks read, settled flag; pending text | readBody, decodeBody, sendJson, drained | four events race for one settlement; a cap; back-pressure from a socket that may close | settles once, leaves no listener |
| Route policy, CORS, health, documentation (`auth.ts`, `http/cors.ts`, `health.controller.ts`, `swagger.ts`) | the policy table | declaring, corsHeaders, mountSwagger, the terminal answers | what an answer carries depends on where in the chain it was given; a table may be incomplete | nothing is served that was not verified as declared; only what is served may be read across origins |
| Paths (`http/muxCompat.ts`) | none | unescapeBytes, cleanPath, the escapes, segmentFromEnd, muxCompat | decoding, cleaning and escaping must commute; `%2F` and `%2E` count as what they stand for | one redirect at most, to what was asked for; a variable is the segment the route matched |
| The listing (`http/query.ts`, `controllers/history.controller.ts`, `db/history.ts`) | the transactions | Query, atoi, getTransactions, listTransactions | dropped pairs, repeated names, a limit at every boundary | refused for a reason, or the listing that was asked for |
| Times (`db/time.ts`, `gateway/decode.ts`) | none | normaliseTime, timeInstant, instantOfDate, toSqlTime | zones, fractions finer than the column, the zero time, the ends of the range | what is listed is the moment that was told, to the second |
| Decoder (`gateway/decode.ts`, `schema.ts`) | the value being filled in | decode, decodeFirstValue, bind, zero | repeats are merged, null is sometimes nothing and sometimes a reset | the value is what the text says last; a misfit anywhere refuses it |
| JSON (`gateway/json.ts`, `controllers/models.ts`) | the parser's stack | parseJson, unquote, validLength; printing | an explicit stack with a depth limit; malformed UTF-8 and surrogates | it reads JSON, and the strings Go reads in it |
| Contract harness (`contract/contract.test.ts`, `contract/harness/`) | the services running, the stub's scripts and records | hooks, startService, runToExit, stopEverything, on, reset | signals while docker is working; tests that are cancelled and go on; slow calls | what was started is stopped; a target is answered by what was scripted for it last, in order; strays do not go unnoticed; the run ends |
| Contract judge (`scripts/run-contract.cjs`, `contract-reporter.js`) | the committed lists | judge | overlapping patterns; failures that mask one another | good means unchanged |
| Cutover probe (`scripts/cutover-probe.mjs`) | the tally | the checks, cycleVerdict | two reads of a moving autopilot; skipped checks; a 200 for everything | green means sound |
| Dependency check (`scripts/check-dependencies.cjs`) | four files of a commit | check, `--write-snapshot` | the lockfile's flags and edges say different things | what is installed was reviewed, and the image's flags drop nothing it needs |
| Configuration (`config.ts`) | none | read once at start-up | - | - |

How they interact. `main` loads the configuration, calls `setUpDatabase` (which must finish before a port is bound),
builds the app and listens. A request passes the middleware and the route's declaration (an introspection call to
auth-service), then a handler; the handler reads the body, calls the gateway client with the caller's header and
hang-up signal, then the history (through the pool), then answers. Everything runs on one event loop: two requests
interleave at awaits only, and the shared state is MySQL, the pool and the process's own life. The contract suite runs
a build as a container or a process against stubs of st-gateway and auth-service; its judge, the dependency check and
the probe each end in one verdict.

The hazards, each at its line with the properties that cover it, are listed in `PROJECT.json`.

## 2. Modules

| Module | Models | Checked in |
|---|---|---|
| `Migration` | `setUpDatabase`: `waitForDatabase` and `migrate`, one action per awaited statement | `MCMigration` |
| `GatewayCall` | what the gateway client promises a handler | `GatewayClient` refines it |
| `GatewayClient` | `send` and `follow` of `gateway/client.ts`, and the handler that calls them one to three times | `MCGatewayClient` |
| `WriteRequests` | the five write handlers and the history writes, several requests at a time, and `shutdown` | `MCWriteRequests` |
| `Semaphore` | what `MysqlSql` promises the history and the migration | `ConnectionPool` refines it |
| `ConnectionPool` | `MysqlSql` of `db/sql.ts` over mysql2's pool | itself |
| `Exchange` | one request with a body and its answer: `readBody`, `sendJson`, `drained`, `closeWhenBodyUnread`, `createHttpServer` | itself |
| `Paths` | `muxCompat` and `segmentFromEnd`, with a caller who follows the redirect | `MCRules` |
| `Pipeline` | `createApp`: declaring, the middleware in order, the routes, documentation, terminal answers | `MCRules` |
| `Listing` | `Query`, `atoi`, `getTransactions`, `listTransactions`, with other requests recording | `MCRules` |
| `Decoding` | `decode`, `decodeFirstValue`, `bind`, `zero` | `MCRules` |
| `Times` | a moment from its text or the clock into the column and out of it | `MCRules` |
| `References` | `resolveReference` and `resolvePath`, along a chain of redirects | `MCRules` |
| `JsonText` | `parseJson`, one token at a time | `MCRules` |
| `Unquote` | `unquote`, one byte or escape at a time | `MCRules` |
| `Services`, `Stubs`, `Harness` | the contract run: the services under test, the stub of st-gateway, and the hooks that compose them | `MCHarness` |
| `Judge`, `Probe`, `Dependencies` | the three verdicts | `MCTools` |
| `MigrationProofs`, `ExchangeProofs`, `GatewayClientProofs`, `WriteRequestsProofs`, `ConnectionPoolProofs` | inductive invariants, theorems, two refinements | - |
| `RulesProofs` | the same for `Paths`, `Pipeline` and `Times` | - |
| `TextProofs` | the same for `Listing`, `Unquote` and `Decoding` | - |
| `ToolsProofs` | the same for `Harness`, `Judge`, `Probe` and `Dependencies` | - |

Two pairs are an abstract specification and its implementation: `GatewayClient` implements `GatewayCall` (`Promise`, with
`left`, `gone`, `asked` and `outcome` mapped to the calls still to make, the caller, the requests sent and the outcome),
and `ConnectionPool` implements `Semaphore` (waiting, running and ended are where a statement is). Otherwise the modules
share no variables: `WriteRequests` takes one gateway call, one statement and one body as a step with the outcomes that
`GatewayCall`, `Semaphore` and `Exchange` allow. `Harness` composes `Services` and `Stubs`. `MCRules` and `MCTools` put
independent modules side by side and run one of them in each behaviour (`rule`, `tool`); the others stay at rest.

The definitions marked *Mutant* in a module are wrong variants of the definition that follows them, each a bug the
code could plausibly have; `PROJECT.json` names, for each property, one or more that break it. They are not part of the
specification.

### Migration

State: the schema (`tables`, `columnType`, `indexes`), whether MySQL accepts connections, and for each instance its
phase and its position in the list the phase walks through. Actions: `Boot` (process start), `Ping` (one round of the
ping loop), `CreateTable`, `LookUpColumn`, `WidenColumn`, `LookUpIndex`, `CreateIndex`, `CreateIndexRefused` (MySQL's
refusal of a duplicate key name, which ends the boot), `Fault` (a statement fails or the process dies, with or without
the statement's effect). The schema's contents are lists given as constants; `MCMigration` uses the program's own.
`startedComplete` is a history variable for the idempotence property.

An instance in phase "lost" was refused its CREATE INDEX; the repository's README names this race a known limitation.
`NotAllLost` and `SomeoneBoots` say how far it goes: one instance always gets through.

### GatewayCall and GatewayClient

State of the client: what `send` and `follow` keep in local variables, the abort signal, the caller's signal, the timer
and the listener, plus `sent`, the requests of the current call. An operation is a method, whether it has a body, and how
many calls the handler makes (three for `getCurrentAgent`). Host names are sequences of labels; an address carries the
host as written and the host of the URL that is fetched, because the code compares both. A `Location` is any address of
`Targets`, absent, or unusable. `AuthorizationStaysHome` states the ownership of names on its own (`Owns`), with
quantified suffixes, not with the operators that model the code.

The promise leaves out hops, addresses, timers and signals: it asks at most `MAX_REQUESTS` times, each time for a caller
who is there, goes on to the next call only when the one before was answered, and ends with one outcome. Silence is
blamed on the gateway only if it was asked and the caller is there; a bad address asks nobody. And it does end.

### WriteRequests

One gateway call is two steps here (asked, then answered or not); its hops are in `GatewayClient`. The game is
external: it acts on what reached it whoever still waits, and its contract only moves offered, accepted, fulfilled.
MySQL is external: a failing statement may have taken effect. A request goes through the stages auth, body, call,
persist, answer. `signal` models `callerOf`: it is "unset" until the handler calls it, so a hang-up before that is not
seen by anyone (see the findings). "abandoned" is a `readBody` whose request closed before its listeners were added.
401 stands for all refusals of the declaration. `ExitOne` is both the ten-second limit and a kill. An answer the
client takes for a success means that the game acted, but `reply` says what its body carried, and that may be nothing:
an empty body is decoded to the zero value, which is what the history is then given (a contract under the key "", a
transaction of zeros) and the caller told. `zeroed` are the requests with such a row, and `RecordedOrLogged` promises
no more of them. `AnswerIsTrue` has two sides: a 200 means the game acted (or the delivery is recorded), and a 500
after a gateway call, or a 400 or 401 once the game was asked, is the gateway's own refusal, handed on.

### Semaphore and ConnectionPool

Statements ask for a connection, get a free one, open one, or queue. `take`'s loop is `Start` and `CloseOld`. `release`
hands the connection to the first in the queue; a connection that is gone offers its place to it. `zone` records
whether SET time_zone is queued on a session or done. A statement's command runs only after what is queued before it.
Time does not pass between the hand-over and `take`'s look at the clock, which are in the same turn of the event loop.
The semaphore knows no connections: a statement waits, runs with at most `MAX_OPEN_CONNS` others, and ends; it may end
without having run when there is no connection to be had.

### Exchange

State: the body (how long it is, how much the socket and `readBody` have of it), the request's flow and listeners, the
handler, the answer's remaining writes, and the poll with its clock. The handler refuses (401), reads the body, or
serves without reading it; then it answers in one piece or writes in several, each of which may find the socket full.
A broken connection emits `close`, and may emit `error` as well, in any order with what else is pending; on a closed
request a new listener hears nothing. Bytes and milliseconds are units. Node's own buffering (`HighWater`) lets a piece
of a body arrive that nobody reads. `SlowRequestCut` is Node's request timeout, which `createHttpServer` answers by
destroying the socket; it may happen to any request that is not all in. Two things are held
for ever, and `NothingElseIsHeld` names them: the handler and the connection of a caller who takes no answer (writing
has no time limit on purpose), and a handler whose `readBody` came after the request had closed ("abandoned", see
the findings). Every other run of the exchange comes to rest: the handler over, the poll off, no half-closed connection, and
after an answer the body all in or the connection gone.

### Paths and Pipeline

`Paths`: the target asked for first, the target being served, and the verdict. A target is a sequence of tokens, each a
byte written as it is or escaped; a plain `%` is one without two hex digits. `FF` stands for a byte that is not UTF-8.
`RoutedWhereAsked` compares the routed path with what the first target named, by a definition that has no stack
(`Named`), and allows one redirect. A target that does not begin with a slash (`Rootless`) is refused; of an absolute
request line the model has the path only, so that the refusal of a `#` in its authority is left out.

`Pipeline`: a start with a policy table that may deviate from `auth.ts` in one entry, then one request, by method, path
segments, credential and whether the token is live. The steps are the places where `createApp`'s chain answers or goes
on: the preflight, the declaration (which asks the introspection center, or not), the handler, the documentation, the
terminal 404 and 405, the error handler. `cors` is whether the headers are on. Express's order, its treatment of HEAD
and clerk-client's verdict on a header are external, and stated in the module's head.

### Listing

State: the pairs of the query string, the table, what the handler has taken from the query, and the answer. `Record`
is any other request's insert. The SELECT is MySQL's: any order the ORDER BY allows, and ships that the column's collation
takes for one another (`Collated`; the instance lets "a" pass for "A"). `before` is a history variable.
The property reads the query string by relations of its own (`Says`, `ReadsAs`), not by `Get` and `Atoi`.

### Decoding, JsonText, Unquote

`Decoding`: the text's value (or one of the ways to be none), how many members are bound, and the value so far. The
outer object is bound member by member; an inner object is a recursive function over its members (`BindInner`), a list
is bound element by element, with the depth the schemas have in common. The property describes the value by what is
written last for each scalar (`ScalarReads`, `InnerReads`), and the list by how far back its elements go on existing
(`ListReads`), without the loop; and what is refused by types and literals (`Misfits`).

`JsonText`: `parseJson`'s loop, with its explicit stack of unfinished objects and lists, fed one token at a time; the
text may end after any token and, in a request's body, go on after the first value. The property rebuilds the value
from the tokens by the grammar, brackets matched by counting, and tells "unexpected end" from a syntax error. Numbers
and literals are tokens.

`Unquote`: the bytes between the quotes, among them every boundary of UTF-8's table, and `\u` escapes of a letter and of
both kinds of surrogate; the loop copies runs of good bytes and replaces what is bad. The property reads them all at once:
a byte that begins no shortest-form character is one U+FFFD.

### Times

A stamp of the gateway is a local reading, a fraction and a zone; a clock reading counts milliseconds. Units are small
(two of each to the next), so that every carry, both ends of the column's range, a zone of a day and the zero time in
another zone lie within a few seconds. MySQL rounds to the second and refuses what the column does not reach. The
property gives the moment by one sum over the units.

### References

Texts are tokens: a word, a digit, each mark of a URL, an escaped dot, an escape that is none, a control character.
The module has Go's reading, as `location.ts` writes it, and the WHATWG reading of the `URL` that the result is given
to (external; that it drops the scheme's own port, and writes a host that is a number as an IPv4 address, is left
out). A chain of up to two references begins at one of a few homes. The property reads a reference from left to right,
where the code cuts it from its end, and resolves dots by counting climbs, without a stack.

### Services, Stubs, Harness

`Services` has, for each service a run starts, where its container or process is, where `startService` or `runToExit`
is, whether `running` knows it, and what docker is about to remove. Docker works on after the runner has exited.
`Stubs` has the scripts of each target, the requests recorded, the strays, and where each call is: arriving, read and
looked up, due, over or cut. A test may script a target again at any time, which replaces what was left; `scripted`
and `since` remember the list as `on` was given it and when. `Harness` has the root hooks around them, tests that may
be cancelled with their code going on, and a signal at any time. The shell of `CONTRACT_COMMAND` is taken to exec a
simple command, so that killing the child kills the service. `kept` is what docker refused to remove, which `exec`
does not look at. The stub does not know which test a call belongs to: `AnsweredInOrder` counts the calls as the stub
does, late ones included (see section 4).

### Judge, Probe, Dependencies

`Judge`: the lists were written from one run and a later one is judged by them; any two runs, so that the property is
about what a good verdict says of the difference. `Probe`: the checks with what each asks and wants; a deployment
answers all as wanted but for one request, or the autopilot is in any state and moves between the two reads.
`Dependencies`: a reviewed repository of a few packages (both releases, express with its pinned major version, a peer,
an optional peer, an alias, two copies of a name), edits of all four files, and npm's behaviour as an external
definition: which entries `--omit` drops, by flag, and when it checks an integrity. `OmitDropsNothingNeeded` is about
the entries the lockfile has; a need it has no entry for is skipped by the check (see the findings), and whether npm
itself would object to it is not modelled.

## 3. Runs

| Run | Bounds | Shows |
|---|---|---|
| `migration` | 3 instances, the program's 3 tables, 2 columns and 3 indexes, 2 boots each, 1 fault, 2 pings | overlapping boots are safe, and one gets through |
| `gateway_client` | at most 3 requests a call, one preserving and one rewriting redirect, 2 homes, 7 targets, all 4 operations | all redirect chains with all aborts; the client implements `GatewayCall`, its end included |
| `write_requests` | one accept, fulfil, trade and delivery; the gateway's statuses 500 (this service's own as well) and 600 (out of range); success with a body or an empty one; at most 2 hang-ups, refusals and empty answers together; statements fail freely | answers, rows, log and shutdown agree |
| `write_requests_live` | one accept, trade and delivery | a caller who stays is answered |
| `contract_row` | as `write_requests` | violation: the contract row can go back (finding) |
| `hang_up` | as `write_requests` | violation: the gateway is asked for a caller who left (finding) |
| `connection_pool` | 4 statements, 2 connections, lifetime 0, ages up to 1 | no leak, no lost wake-up, UTC; the pool implements `Semaphore`, its end included |
| `exchange` | bodies up to 5, limit 2, allowance 1, wait 2, half-close 1, buffer 1, answers of up to 2 writes | settlement, verdict and 100-continue are right; only an answer nobody takes, or a body read of a request that had closed, is held for ever |
| `rules` | see below | each rule of reading a request or an answer, over all its small inputs |
| `tools` | commits of 2 edits; logs of up to 3 events, 2 asked for; 3 cases in 2 suites, lists of up to 2 patterns | a green, accepted or good verdict means what it says |
| `harness` | 2 services, 2 tests, 3 calls to one target, two scripts, of 2 answers and of 1 | what is known is stopped, calls are answered in order, strays fail their test, the run ends |
| `container_left` | 1 service, 1 test | violation: an interrupt leaves a container (finding) |

`rules`: targets of up to 5 tokens (4 plain, 3 escaped bytes) behind a slash or without it; every path of up to 3
segments from 8 below the API, with each deviation of the table; query strings of 2 pairs of 26, 14 limits among them,
3 rows, default 1, cap 2, int64 up to 12; texts of 3 members with lists of 2 objects; 4 fractions at 4 moments in 5
zones; chains of 2 references, over 400 to choose from; JSON texts of up to 9 tokens at depth 2; strings of up to 4
bytes or escapes of 14.

Why the bounds suffice. In `migration` a race needs two instances and a third to be the survivor or the one that
restarts; two boots per instance give the repeated boot, and one fault between any two statements is what separates an
interrupted migration from a complete one. `MAX_REQUESTS = 3` gives a chain that leaves the gateway and comes back;
the code's value is 10 and the code has no other use of it. The theorems remove these bounds for the safety
properties. Four requests are one of each path through the handlers, with the two contract writes on one contract.
Four statements on two connections make the queue as long as the places that can become free at once, and age 0 or 1
is all that a lifetime of 0 tells apart. In `exchange` a body can end within the limit, at it, one and more above it,
within the allowance after the answer and past it. Five tokens hold a name, a slash and an escaped dot segment. In the
listing two pairs are what it takes to repeat a name or to have a bad type with a bad limit, and three rows exceed the
cap of two. A list must be written three times for an element to disappear and come back. (Texts of three members are
kept to one field, and to first two members that fit; those of two vary freely.) Nine tokens open and close brackets
to the depth limit and one beyond, with a member in each. A character has at most four bytes, and two surrogates are
two escapes. Two edits are what it takes to hide one change of the lockfile behind another. The harness needs one
service besides the main one, two tests for a call to outlive its own, and three calls for a script of two to repeat.
Its instance keeps calls to the gateway apart from runs with a second service or a signal (`MCHarness`), which share
no state, and lets the calls, which are alike, arrive in the order of their numbers; a target can be scripted again
with either script, in the middle of one as well. In `write_requests` (`MCWriteRequests`) any two of its four requests
may lose their caller, be refused or be answered with nothing, or one of them twice over; the theorems bound none of
it.

Deadlock checking is off in every run: each of these systems ends (all boots done, the call settled, the process
exited, the statements served, the text read, the verdict given).

Fairness. `Migration`: an awaited statement is answered or fails, each instance is started once, nothing restarts a
failed one and nothing makes MySQL come up. `GatewayClient`: the event loop runs the code's own steps, due timers fire,
an aborted fetch or body read rejects; nothing makes the gateway answer, so that the deadline is what ends a call.
`WriteRequests`: each await of a handler ends (introspection, gateway call and body have time limits; a gateway call
ends by `GatewayCall`, a statement by `Semaphore`). `Exchange`: the event loop runs the handler's steps, emits events and
fires the poll's timers, and the request timeout passes while a body is being read; what follows an answer must end
without it. Nothing makes the caller send, read or close. `ConnectionPool`: MySQL answers, refuses, or the connection
breaks. `Harness`: the hooks run on, a test is cancelled by its timeout, every wait of `startService` and `runToExit` has a
deadline, and so has every docker command; nothing makes a service healthy or lets it exit.

## 4. Findings

- `contract_row`: `upsertContract` is documented to hold "the latest known state of a contract"; the upsert is
  unconditional and comes after an await, so the row of overlapping accept and fulfil requests depends on which write
  is last.
- `hang_up`: `callerOf` is documented to stop "the calls still to make" when the caller hangs up; it starts listening
  only after authorisation, so a hang-up during the introspection goes unnoticed on the routes that read no body, and
  the contract is accepted or fulfilled for nobody.
- `container_left`: `contract/README.md` says the container is removed "also after a failure or an interrupt"; it is
  registered only when `docker run` has returned, so a signal before that, a service started after the signal's
  snapshot, or a `docker run` that fails after it created the container leaves it. `KnownIsStopped`, which is proved, says that
  nothing else does.

Three more came up while modelling. No run is kept for them; the properties named are stated so as to allow them.

- `http/body.ts:12` says that a caller who hangs up before the body is in is `CallerGone`. When the hang-up comes while the
  caller is being authorised, the request has emitted its last event before `readBody` listens (69-72), and its promise is never
  settled: the handler stays "abandoned" (`NothingElseIsHeld`). Nobody is left to answer; what is lost is the handler's end.
- `scripts/check-dependencies.cjs:205` says that an edge which resolves to nothing is "an optional peer that is not
  installed". `reachable` skips every such edge (213), so that a lockfile without the entry of a required package is
  accepted once its snapshot is rewritten (`OmitDropsNothingNeeded` looks at names that have an entry). While the snapshot is the
  reviewed one, `OnlyReviewedBytes` holds and nothing is missing.
- `contract/contract.test.ts:44` takes a request that nobody scripted for "a defect in the test". A call of an earlier,
  cancelled test that is read late is looked up in the next test's scripts: it uses one up (`AnsweredInOrder` counts it), or fails
  that test as a stray (`StrayFailsItsTest` asks for nothing else).

## 5. Proofs

`MigrationProofs` proves, for every number of instances, every list of tables, columns and indexes and every bound:
`TypeCorrect`, `BootedIsComplete`, `RaceHasASurvivor`, `RebootIsQuiet` (invariants `TypeOK`, `BootedOnCompleteSchema`,
`NotAllLost`, `QuietReboot`), and the action properties `MigrationOnlyGrows` and `WideningPrecedesIndexing`. The
assumptions are the named ASSUMEs of `Migration`: there is an instance, the lists are sequences whose columns and
indexes belong to listed tables, and the bounds are natural numbers.

The properties are not inductive by themselves. The inductive invariant `IInv` adds: what an instance's phase and
position say about the schema (every table before its position exists; every column before it, once the tables are
done, is wide; every index before it exists), which is stable because the schema only grows; that a column has a
type when its table exists; that a boot that began on a complete schema still sees one; and, for the
race, a witness: some instance is not lost and holds no stale look-up (it is not about to create an index that exists).
A step that takes the witness away makes another: a CREATE INDEX that makes the others' look-ups stale was issued by an
instance that has now none.

`ExchangeProofs` proves, for every limit, wait and buffer size and bodies and answers of any length: `TypeCorrect`,
`JudgedOnce`, `NoUploadUnasked` (invariants `TypeOK`, `SettlesOnce`, `RefusedDoNotUpload`) and the action property
`KeptIfBodyEnded` (`OnlyUnreadBodiesClose`), from `ExchangeAssumption` (the limits are natural numbers, the waits and the
buffer are not zero). Its inductive invariant adds to the types: until readBody has settled it has taken no more than the
limit, and its verdict then stands (`Judged`); only an unsettled readBody listens (`Listening`), so no later event can
settle it again or take more; 100 Continue is sent with the call that begins to listen, and an invited body comes only
after it (`Invited`); and the poll runs only after the answer (`Watched`).

`GatewayClientProofs` proves, for every limit on requests, every set of statuses, homes and targets: `TypeCorrect`,
`HeaderStaysHome` (`AuthorizationStaysHome`), `PostIsPreserved` (`PostRepeatedOnlyOnPreservingRedirect`),
`NothingStaysArmed` (`NothingLeftArmed`), and `ClientImplementsCall`: every behaviour of the client is one of
`GatewayCall`'s steps under the refinement mapping. The assumptions are `ClientAssumption` (at least one request may
be made; what statuses and locations are) and `HomesAssumption` (the configured address is read alike by Go and by
fetch). The inductive invariant adds to the types: a handler that has its outcome is settled (`Ended`); `requests`
counts what `sent` holds, or one more when an abort kept the last one back (`Counted`); a caller who hung up has
aborted the call in progress (`Noticed`); an answer that is being read was asked for (`Asked`), and a redirect that is
followed has an address (`Looked`); while the method is still the POST's, every hop so far preserved it (`Preserved`);
and while the header has not been stripped, every address so far was the first one's own, by both readings, with no
downgrade from TLS (`AtHome`), which holds because the ownership of names is transitive. Each action changes few of
these: the lemmas are one per conjunct, and the steps that only end a call are treated at once (`ErrorsEnd`). For the
refinement, `Send` and `RedirectFollowed` map to `Ask` or, when the abort was there first, to a stutter; the outcome's
blame follows from `Asked` and `Noticed`.

`WriteRequestsProofs` proves, for any number of requests of any kinds and any refusals of the gateway (statuses of 400
and more): `TypeCorrect`, `AnswersAreTrue`, `HistoryIsTrue`, `NothingLostSilently` and `ExitZeroIsClean` (`TypeOK`,
`AnswerIsTrue`, `NoRowWithoutAction`, `RecordedOrLogged`, `CleanExitKeepsHistory`). The inductive invariant `IInv`
adds: what a handler's stage says of its session, its body, the game and the history (`Progress`); what stands behind
each status a caller was told (`Told`); that the game's contract is never behind what was answered or written of it
(`GameIsAhead`); and that a server that has closed is left with requests that have lost their callers (`Closed`). What
the game did and what the history holds is never undone, so that a step of one request disturbs none of this for
another. The proof showed that an earlier `AnswerIsTrue` was too strong: a gateway that refuses with 400, 401 or 500
itself is relayed with that status.

`ConnectionPoolProofs` proves, for any number of statements and connections, every lifetime and age: `TypeCorrect`,
`NeitherLeakNorLostWakeUp` (`NothingIsLost`), `AlwaysUtc` (`RunsInUtc`), and `ImplementsSemaphore`: every step of the
pool is a step of `Semaphore` or a stutter. Its assumptions are `PoolAssumption` (there are at least as many
connections as may be open, and an age beyond the lifetime) and `NoneAssumption`. `IInv` joins the types with:
finitely many statements are asking; a statement holds a connection while it is connecting, given one or running
(`Holding`); the queue holds what is queued, each once (`Queued`); `NothingIsLost` itself; and a connection that can
be handed over has SET time_zone behind it or queued (`Zoned`).

`RulesProofs` proves of `Pipeline`, for any deviating entries of the policy table and any set of paths:
`AlwaysServedAsVerified`, `CorsExactlyOnMatched`, `VariablesAreAsRouted` (`ServedAsVerified`, `CorsOnMatchedOnly`,
`VariableAsRouted`). `PipelineInv` says what a started process has of its table (`Declared`), how a request came to be
where it is (`Followed`), what the introspection center was asked (`Asked`) and who has the headers (`Headers`). Of
`Times` it proves `TimesAreAsTold` (`HistoryKeepsTime`) for any stamps, clocks and units, from `TimesAssumption` (the
units are positive, half a second is a whole number of microseconds, the readings are integers, the column's range
lies above the zero time): what is written is what was told (`WrittenAsTold`), and the rest is arithmetic: carries
(`Digits`, `DivOf`), rounding (`Nearest`), zones (`ZoneStays`). Of `Paths` it proves, for every alphabet and every
length, `VariablesAreSegments` (`VariableIsSegment`): a path cut `n` times from its end is what `split` gives `n`
segments before its last. Both are loops, and their results are compared by induction on the bytes read and on the
cuts made. And `PathsAreRoutedWhereAsked` (`RoutedWhereAsked`), in three steps. What a path names, by counting, is
what is left on `cleanPath`'s stack (`NamedIsStacked`): behind each segment the stack lists the names that stay, in
ascending order (`Listed`, `StackIsListed`), and there is one such order (`OneOrder`). What is left are names without
a slash (`NamesOnTheStack`), so that joining and splitting them again gives the same segments and the same stack
(`JoinedAndSplit`), and cleaning a clean path changes nothing (`CleanPathIs`). The escapes of a Location decode to
what was escaped (`EscapedIs`). `RoutedInv` then says that behind the redirect the target is the clean path of the one
asked for, which is neither refused nor moved again.

`TextProofs` proves `AnswersAreAsAsked` (`AnswersTheQuery`), `StringsSayWhatGoReads` (`SaysWhatGoReads`) and
`DecodedAsWritten` (`DecodesWhatIsWritten`), for queries, strings and texts of any length over any characters, bytes,
escapes, literals and names. Each property reads the whole input at once where the code loops over it; each inductive
invariant says the same of what has been read so far. Of `Listing` (from `ListingAssumption`, for any collation): what
the handler has taken from the query is what the pairs say (`GoodType`, `GoodLimit`, `count` in `ListInv`), and an
answer, once given, stays right while others record, since the rows it was taken from are kept (`Answered`). That
`atoi` reads a limit as it is meant is the longest part: the numeral of a number comes to that number, and what comes
to it is its numeral behind zeros (`NumeralIs`, `DigitsReadBack`), so that sign, digits and range give the limit
exactly when the pairs say one (`AtoiIs`, `AtoiReads`, `LimitSaid`). Of `Unquote` (from `UnquoteAssumption`): the
pieces collected, with the run still to be copied, are what the elements before `index` are worth, counted one by one
(`Tallies`); no character and no pair of surrogates is cut at `index` (`Uncut`); the string is plain exactly while all
of it is ASCII (`PlainTo`). `validLength` finds a length exactly where a code point's shortest encoding stands
(`ValidLengthFinds`), for which the bounds of its table are compared with the code points they encode. Of `Decoding`
(from `DecodingAssumption`): the value is at every moment what the members bound so far say (`into = TextReads(bound)`
in `DecodeInv`), and all of these fit. One more member changes what the text says just as `bind` changes the value
(`TextMore`): a struct keeps the last of what was said of each scalar (`BindInnerIs`, `InnerReadsMore`), and an
element of a new array is merged into what the arrays behind it had made of it, which is what `bind` finds in the list
(`MergedMore`, `BeforeIs`). What does not fit is what is of the wrong type or no int64 (`MisfitsIs`).

Of `Harness`, `ToolsProofs` proves, for any services, tests, calls and scripts: `KnownServicesAreStopped`
(`KnownIsStopped`), `StraysFailTheirTests` (`StrayFailsItsTest`) and `AnswersAreInOrder` (`AnsweredInOrder`).
`ServicesInv` adds to the types: what is there unknown to `stopEverything` has not returned from docker, or failed
there (`KnownOrAsked`); what is known was started and not stopped (`RunningIsCalled`); and the instance of the
`before` hook is never stopped by a test (`MainStays`). A stray of the test that runs is still among `unscripted`, and
one of an earlier test failed it (`StraysInv`). What is left of a target's script depends only on how many of its
calls were received since it was scripted (`LeftInOrder`), and a call is received once (`ReceivedOnce`).

Of the verdicts, `ToolsProofs` proves `GoodRunsAreUnchanged` (`GoodMeansUnchanged`), `GreenProbesAreRight`
(`GreenMeansGood`), `AcceptedBytesWereReviewed` (`OnlyReviewedBytes`) and `OmittedIsNotNeeded`
(`OmitDropsNothingNeeded`), for any suites, cases, patterns, logs and edits. For the judge: the committed lists say
what the first run did (`Written`) and the verdict what `judge` gives (`Judged`). For the probe: what is done of the
list was met, or skipped for an input it lacked, or something failed (`DoneIsAccounted`), and behind the check of the
cycle a cycle of the mode that was read has been seen, or something failed (`CycleWasSeen`). For the lockfile: an
accepted one has nothing to be refused for (`RepoInv`), and so the flags follow the edges
(`AcceptedFlagsFollowTheGraph`). That nothing needed is dropped takes besides that the search for what is installed
closes in time: each round adds an entry or is the last, so there are no more rounds than entries (`ClosesInTime`).

Induction. The library's induction theorems take an operator as a parameter and cannot be used with the provers at
hand. Where a proof needs one, it is done for a set of natural numbers, from the library's statement that a
well-founded relation has minimal elements (`WFMin`, `NatLessThanWellFounded`): `LeastNatural` and `Induction`. That a
recursive function of the model is what its equation says follows from a function that satisfies the equation, which
is built by that induction (`Recursion`, `Unfolds`).

Only model-checked: liveness (fairness and ENABLED are outside the prover's reach), hence the last conjuncts of
`GatewayCall!Spec` and `Semaphore!Spec`, `SomeoneBoots`, `CallerIsAnswered`, `NothingElseIsHeld` and `RunEnds`; and, of the
rules, `GoesWhereItSays`, which compares two readings of an address that both fold over sequences with operators of the
community modules, of which the provers know nothing, and `ReadsWhatIsJson`, whose reference reading is itself recursive in
the text's nesting.

## 6. Plan

Done: everything in the table of section 2.

Next, in this order:

1. `GoesWhereItSays` by the induction of section 5, with recursive functions in the place of the folds.
2. `WriteRequests` over instances of `GatewayCall` and `Semaphore` instead of steps with their outcomes.
3. The remaining text level: the grammar of numbers, the JSON writer with its escapes, the message extraction of
   `errors.ts`.

## 7. Not modelled

Of the text level: the grammar of a number and float64 rounding, JSON writing, header and message formatting, OpenAPI
output. The configuration, read once and kept. `deliveriesForContract`, a SELECT without conditions of its own. TLS, DNS and
sockets below `fetch` and mysql2. A keep-alive connection that sends another request after `server.close` is not
distinguished from a new connection, which is refused. Of the contract suite, the test cases themselves, the stub of the
introspection center (which answers by token and keeps no order), the HTTP helper and the saved logs. Of the scripts, what
they print and the probe's redaction of tokens.
