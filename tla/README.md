# A verification project for dusty

dusty is an HTTP/1.1 server and client library in Zig on top of `std.Io`, with
llhttp as its parser. This directory holds TLA+ models of its concurrent and
stateful parts, the TLC configurations that check them, and TLAPS proofs. File
names below are relative to the repository's `src/`; `PROJECT.json` maps every
definition to its lines.

## 1. The system

| Part | State | Operations | Talks to |
|---|---|---|---|
| Server lifecycle (`server.zig`, `listen`) | `shutting_down`, `active_connections` (also a futex word), TLS certificate, listening socket, task group | load certificate, bind, accept, back off, spawn, drain, tear down | connection tasks, through the two atomics, the futex and group cancellation |
| Connection task (`server.zig`, `handleRequests`) | request count, parser state, timer, `response.keepalive` | parse head, run handler, drain body, write response, wait for the next request | the peer's byte stream, the handler, the lifecycle |
| Parsers, `BodyReader` (`parser.zig`, `llhttp/`) | llhttp state, flags and lengths, buffer positions | feed, pause, resume, finish, stream a body | request loop, client |
| Response (`response.zig`) | headers, framing flags, byte counts, the open body writer | header/body setters, `writer`, `stream`, `json`, event stream, WebSocket upgrade, `write` | handler, executor, connection |
| Executor (`middleware.zig`), `Session`, `Cors` | position in the chain; the request's session and its cookie; none | `run`, `next`, not found, error page; load, set, remove, sign; decide | handler, request, response |
| Router (`router.zig`) | a tree of segments for each method | register, match with backtracking | executor, request parameters |
| WebSocket (`websocket.zig`) | `closed`, fragment buffer, write mutex | receive, send, ping, close | one socket shared by senders and the receiver |
| Client and pool (`client.zig`) | idle list and its length under a mutex; per connection: `closing`, request count, Keep-Alive parameters, deadline | `fetch` with redirects, `connectWebSocket`, acquire, release, response `deinit` | servers; tasks that share the client |
| CA bundle (`client.zig`, `ensureCaBundle`) | bundle, lock, atomic flag | load once | every https fetch |
| Request, forms, multipart (`request.zig`) | arena, parsed head, body state | reset, `body`, `formData`, `multiFormData` | handler |
| Tables (`http.zig`), cookies (`cookie.zig`) | bounded tables; none | put/add/get; format, parse | request, response |

What is hard here:

* **Shutdown** is spread over one listen task and any number of connection tasks
  that share two atomics; a drain sleeps on the counter it waits for, a cancel may
  arrive during a backoff sleep, and the certificate, the group and the server
  struct are freed when `listen` returns.
* **One connection** carries many requests, pipelined and with bodies handlers may
  leave unread; the loop must never parse a body as a head. One timer object
  serves two timeouts, and a handler may turn the connection into a WebSocket.
* **Framing** is decided by an interplay of headers, arrives in pieces of any size
  and is read into destinations of any size; the end must be found to the byte.
* **A response** is driven by arbitrary application code; the framing must be
  right, or the connection closed, whatever order that code calls things in.
* **A WebSocket** has several writers, one of them the receiver's own answers.
* **The client** shares connections between tasks. Each error return decides
  whether its connection may be pooled.
* **Routing** backtracks while it writes to the request; **sessions** live in a
  cookie that is only saved when everything after the handler went well.

What makes each part correct is in section 4; the hazards, each at its line, are
in `PROJECT.json`.

## 2. Modules

| Module | Models | One step is |
|---|---|---|
| `ServerLifecycle` | `listen`, `drainConnections`, `handleConnection` from outside | one access to shared state or one blocking call |
| `HttpExchange` | abstract: what the peer of one connection is promised | one request, one answer, one close |
| `RequestLoop` | `handleRequests`, `parseHeaders`, the body reader, the peer; implements `HttpExchange` | one read, one parser result, one handler choice, one reply |
| `Parser` | llhttp's states, the callbacks of `parser.zig`, `parseHeaders`, `BodyReader.stream` | one read of the socket, one feed, one call of `stream` |
| `Response` | `Response`, `BodyWriter`, `StreamingBodyWriter`, `EventStream`, the executor's error path | one call by the handler, the executor or the loop |
| `Session` | `Executor` with its pages, `Session`, `Cors`, `SessionData`, the headers of the response | one middleware entered or left, one call by the application, one step of `run` or of the loop |
| `Router` | registration and `findHandler` | one registration, one search |
| `WebSocket` | `WebSocket` as client and as server | one frame read, one lock, one half of a frame written |
| `ClientPool` | `ConnectionPool`, `Connection`, `Client.fetch`, `connectWebSocket`, `ClientResponse`, `ensureCaBundle` | one critical section, one close, one exchange |
| `Entries` | no code: the entries of a sequence at a set of positions, for the properties, for `Acquire` and for the offsets of a path's segments | |
| `*Proofs` | theorems about the module of that name (section 5) | |
| `MC*` | constants for TLC | |

Each `MC` module extends its component and defines the sets of requests,
responses, frames, messages or patterns and the symmetry; the `.cfg` files give
the constants. Definitions named `X_Y` with the comment "Mutant" are deliberately
wrong variants of `X`: each property is checked to fail when one replaces it.

**ServerLifecycle.** `listener` is the position in `listen`, `conn[c]` the
position of a connection task. Accepting, counting and spawning are separate
(`AcceptConnection`, `SpawnTask`, `SpawnFailed`), because the counter is raised
before the spawn and lowered if it fails. The drain is split where it can be
overtaken: reading the counter (`DrainWait`), the futex's comparison
(`FutexWait`), waking. A task lowers the counter (`ReleaseCount`) and wakes the
futex (`FutexWake`) in two steps. The deferred blocks run in source order:
cancel the group, await it, close the socket, free the certificate. External:
the cancel of `listen`, the machine's descriptors, the clock, spurious wakeups.

**RequestLoop** and **HttpExchange.** The byte stream is a sequence of units
tagged with the request they belong to, so "took a body unit for a head" can be
said. The handler reads zero or more units, streams, upgrades, receives frames,
aborts or returns; then the loop drains or gives up the connection, answers and
waits. `timer` is what the one `AutoCancel` is armed for; `TimerCaught` is a
timeout that the handler catches. `upgradeWebSocket` leaves `keepalive` as it is
(unlike `startEventStream`), so after the handler of an upgrade returns the loop
may wait for another request; a frame that comes then fails in the parser.
One assumption is about the peer: a WebSocket handshake, a GET without content,
does not also ask for 100 Continue (RFC 9110). The code would write one after its
101 if the handler read the body then; it is the case of `parser.zig:511` below.
`HttpExchange` knows only how many requests were begun, which were answered and
whether an answer was the last; the mapping takes these from the peer's requests
and from the replies in `out`.

**Parser.** The input is a sequence of symbols: one byte each where the framing
depends on bytes (CR, LF, digits, separators, body bytes), one word each where it
depends on words (method, target, version, status, header name, value token). `Step`
follows llhttp's states under their names, strict, since dusty sets no lenient flag
(strict includes that a status line may end in two CRs, `StatusLineEnd`). Of a word
the `map` names the one state that ends or dispatches it, not the hundreds that spell
it. `Execute` stops
at a pause as `llhttp_execute` does, and `Enter` is the state that needs no input
and makes `parseHeaders` feed an empty buffer. The reference (`Framing`,
`FullBody`, `Persists`) is stated over the message as its sender means it and
shares nothing with the states. An empty Transfer-Encoding sets no flag in llhttp
(`llhttp.c:8029`): `Framing` lets it mean nothing (`Codings`), except behind a
Content-Length, where the name alone is refused (`CodingAfterLength`). `LenMax` stands for `UINT64_MAX`, scaled down so
that overflow of the multiplication and of the addition happen. The reader's
`fillMore` is external: it appends while there is room and starts again at the
beginning when the buffer was read to its end; `moved` turns positions into
addresses.

**Response.** Bodies are lengths and the output is a sequence of tokens (head with
the framing it announces, chunk, raw bytes, terminator, debris of a write that was
canceled half way, frame). Handlers call any operation in any order. One writer handle
is modelled: a `BodyWriter` kept and ended again while a later stream is open is not
represented. The ghost `refused` records that the head of a stream, an event stream or
an upgrade was refused for want of a header slot after the framing had been decided. `RawBytes(w, n)` says that the output's raw pieces have n
bytes by way of their running sums, a form without recursion.

**Session.** `index` is the executor's position on the way in, `depth` how many
middlewares have yet to return, `err` the error on its way out. Signing is abstract (a
token is valid or it is not), the payload is not: keys, values and separators. Of the
response there are the names in the header table with its limit, the number of
`Set-Cookie` entries, `content_type` and whether the head is out; bodies and the wire are
`Response`'s. `EnterCors` sets its headers one by one and fails at the first that finds
no slot; `HandleNotFound` and `HandleError` take away what described the old body;
`WriteResponse` needs a slot for the content type. `EndRequest` is where the head arrives
at the user or is lost with the connection, and only then is its cookie kept. The ghosts
`left` and `used` say what a user's last request that saved and was answered left, and
when; `saved` is what the running one will add to them. Users, their cookie jars, the
application's middleware and the clock are external; time passes between requests.

**Router.** A node is the sequence of keys that leads to it; a tree is a function
from its nodes. `MatchRecursive` is the search as a recursive function of the number
of segments left: `MatchNode` is one call, in the code's order and with the
parameters threaded through it, so that what a failed branch wrote is visible.
`Params` is a total map in which an absent name has the value `<<>>`.
The reference (`Describes`, `BestOf`, `Captured`) looks only at the registered
patterns. A path is a sequence of segments, empty ones included.

**WebSocket.** A frame is written in two halves under `write_mutex`, each of which
may fail or be canceled. Lengths are real: the header carries seven bits and 16 or
64 more, and `PeerReadsFrames` decodes them again in the other role. Of a
payload's bytes only whether they begin or end inside a UTF-8 character is kept.

**ClientPool.** A connection is what its fields say plus `unread` (the parser has
not seen the end of the message), `dirty` (bytes of an earlier exchange are still
to come) and `ending` (the server said close). Expired and evicted connections are
closed outside the lock, one step each. The clock is read when the lock is taken;
the code reads it a moment before, which only makes a connection look younger.
`CaCheck`, `CaLock`, `CaScanned` and `CaFails` are the double-checked lock of
`ensureCaBundle`, which every fetch of a key in `SecureKeys` passes, redirects
included; a scan that fails leaves a partial bundle behind.

## 3. Runs

Bounds. Two connection tasks cover one being accepted while the other drains and
wakes (the safety invariants are proved for every number); backoff 5..8 doubles,
is clipped and resets. Three requests with `request_count` 2 reach the limit and a
request pipelined beyond it; bodies have 0 to 2 units against a limit of 1, so
there are bodies the loop drains and bodies it refuses; two frames leave one
unread by the handler. A response has up to 2 bytes (short, exact and long against
any declared length), a header table of 4, which the upgrade's three headers and
one more fill, and one canceled write. The pool has 2 tasks, 3 connections, 2
hosts, 2 idle places and `Keep-Alive: max=2`: one task can evict or expire a
connection while the other acquires or releases, two can expire at once, and a
connection is used up; one host is https, so both tasks can meet in the CA lock.
The clock goes one tick, which is the announced timeout. A WebSocket has one sender
beside the receiver, two sends, three frames read and one fault: a send can wait,
be overtaken by a pong or a close, and fail while the receiver waits. Frames sit on
the boundaries 124/125/126, 65535/65536/65537, and 65536 is the message limit.
Router: three of ten patterns, which overlap in every way two parts allow, in
every order, with a limit of two parameters and a pattern of three. Parser: 40
messages (every framing, empty codings, lengths at the limit, both line ends), reads of
1, 2, 3 and 12 bytes, destinations of 1 to 3 bytes, three bytes of room behind the
head, so the buffer starts again inside bodies and trailers.
Sessions: two users, three keys with room for two, a `max_age` of one tick and two
ticks of time; a header table of three, of which Cors takes two on an ordinary request
and wants four on a preflight, so that the application, the session's cookie, the
content type of a page and Cors itself all meet it full; the application sets cookies
and `Content-Type`, and stands between Cors and the session and in front of Cors.

Symmetry (tasks, connections, users, keys) is used in safety runs only. Deadlock is
checked everywhere but in `parser`, where a message simply ends.

| Run | Result | Shows |
|---|---|---|
| `server_lifecycle` | holds | 4.1: the invariants in every interleaving, and that a cancel ends in a return although peers stall for ever, given a shutdown timeout |
| `request_loop` | holds | 4.2: the loop stays in step with the peer; order, limit, timers, upgrade; nothing blocks for ever when both timeouts are set; it implements `HttpExchange` |
| `parser` | holds | 4.3: the sender's bytes, the exact end, no ambiguity, nothing good refused, progress |
| `response` | holds | 4.4: a kept connection carried one whole message |
| `session` | holds | 4.5: the session a user left is the session that user finds; CORS headers on every reply, the error page and the 404 included |
| `router` | holds | 4.6: the best route, its parameters, the limits, and that registrations do not disturb each other |
| `websocket` | holds | 4.7: frames, close, pongs, messages and limits under every interleaving; writes end |
| `client_pool` | holds | 4.8: ownership, bound, clean and usable connections, the CA bundle |
| `client_ends` | holds | every fetch ends although servers only redirect |

Disagreements between the code and its own comments, docs and assertions; each
run checks one property, TLC finds the trace, and the finding in `PROJECT.json`
quotes the line:

| Run | What happens |
|---|---|
| `expect_wait` | The drain after the handler never sends 100 Continue, so a patient peer and the server wait for each other. |
| `client_bad_redirect` | A redirect whose Location is rejected pools its connection with the body unread. |
| `parser_slices` | A trailer cut where the connection's buffer starts again fails the assertion of `appendSlice`. |

Further ones were met while modelling and have no run. The properties above leave
out exactly these cases, and say so:

* With only `timeout.keepalive` set its timer is not cleared when the next request
  comes and cancels that request (`server.zig:538`, against `config.zig:25`).
  `request_loop` sets both.
* `timeout.request` fires once. A handler that catches the failed read and returns
  leaves the drain of the body with no timer (`server.zig:612`, against
  `config.zig:23`). `StallInterrupted` promises only that the handler is told.
* `timeout.request` is not cleared when the request is complete, so it also bounds
  the handler, the response and a WebSocket session (`server.zig:545`).
* `stream`, `startEventStream` and `upgradeWebSocket` decide the framing before
  `writeHeader`, which fails on a full header table; nothing clears `chunked` or
  `streaming`, and `write` then sends a bare terminator, or a body without framing
  (`response.zig:562`, against its comment at 563). `HeadFirstTermLast` excludes them
  with the ghost `refused`.
* A chunk canceled half way, caught by the handler, is followed by a terminator on
  a connection that is kept (`response.zig:542`). `KeptMeansWhole` asks for no
  ignored fault.
* 100 Continue is written at the first body read even when the handler has already
  sent its response head (`parser.zig:511`).
* An upgraded connection stays in keep-alive after its handler returns
  (`response.zig:453` does not clear `keepalive`).
* A ping that arrives after this end has closed makes `receive` fail with
  `EndOfStream`, because the pong is refused (`websocket.zig:257`, against 85); the
  peer's close is then not returned. A complete data frame inside a fragmented
  message is delivered by itself and the fragments are lost; a control frame
  without FIN is accepted; `close` does nothing after a failed write.
* A parameter node keeps the name of its first registration, so of `/:a/x` and
  `/:b/y` the second finds its parameter under `a` (`router.zig:133`).
  `ParamsExact`, and `AddingIsLocal` of the parameters, ask that names agree. A
  wildcard that is not last never matches and hides every later branch: with
  `/a/*w/b` registered, `/a/c` does not find `/:x/c`.
  A name used twice in one pattern is lost on backtracking: with `/:x/*w` and
  `/:x/:x/c`, the path `/1/2/3` is answered by the first without its `x`, which the
  `remove` of the inner one took (`router.zig:204`). `insertRoute` refuses neither;
  `TooManyParams` is raised even where a later branch would match.
* The Keep-Alive `timeout`, in seconds (`parser.zig:604`), is counted in
  milliseconds (`client.zig:548`).
* The error page needs a slot for its content type (`response.zig:492`). When the header
  table is full, which may be what the error is about, `write` fails and the connection
  ends with no reply, against `middleware.zig:80`. `CorsOnEveryReply` is about the heads
  that go out.
* llhttp accepts an empty Transfer-Encoding alone, before a Content-Length (which then
  frames the body) and behind `chunked` in a request; the reference follows it.
* A 1xx is returned as the response and the final one is left to the next request
  (`client.zig:949`, against `CHANGELOG.md:19`). An unsupported encoding without a
  body pools a connection the server is closing (`client.zig:959`). Neither is in
  `AllGood`.
* A redirect returns its connection through the pool's `release`, which does not
  count the request against `Keep-Alive: max` (`client.zig:990`).
* The client does not tell llhttp that it sent a HEAD (`F_SKIPBODY` is never set),
  so the Content-Length of the answer is waited for.
* Trailers that are accepted point into a buffer that is used again.

## 4. Properties

**4.1 Lifecycle.** `CountIsExact`: the counter the drain trusts is the number of
streams not yet given up, through spawn failures, errors and cancels.
`NoLostWakeup`: a sleeping drain is either up to date or about to be woken.
`ResourcesOutliveTasks`: no task lives when what it uses is freed.
`DrainedMeansClosed`: a drain that reports success is right. `OneLateKeepalive`:
after the shutdown flag at most one keep-alive response per connection.
`CancelLeadsToReturn`: `listen` returns.

**4.2 Connection.** `InStep`: the loop never parses what a handler left of a body.
`NoneSwallowed`: a pipelined request is never dropped while the connection lives.
`AnswersInOrder`: one final response per request, in order; 100 Continue only where
it was asked for, and after a 101 no more HTTP, whatever the handler leaves.
`LimitAnnounced`, `TimerMatchesPhase`. `StallInterrupted`: with
both timeouts set the task again and again reaches its end or a timeout that its
handler is told of. `ImplementsExchange`: every behaviour of the loop is one of
`HttpExchange`. `EveryRequestAnswered` is the stronger promise that `expect_wait`
refutes.

**4.3 Parser.** `BodyExact`: whatever the reads and destinations, the caller gets
the sender's bytes. `BoundaryExact`: the end is reported at the message's last
byte; what was cut off is never complete, the next message is untouched, and there
is no waiting for an end that is already here. `RefusesExactly`: messages two
readers could disagree about never complete, and nothing else is refused.
`KeepAliveAgrees`; `ReadingEnds`. `SlicesContinue` is refuted
by `parser_slices`.

**4.4 Response.** `KeptMeansWhole`: a kept connection carried one whole message, as
its own head frames it, unless the handler itself set a wrong Content-Length for a
buffered body. `HeadFirstTermLast`, `HeadHasNoBody`.

**4.5 Sessions.** `SessionCarried`: a handler finds what its user's last saving
request left, not an older state, not another user's, not what a failed or already
started response made of it, and nothing once the sliding expiry is over; the entry
limit holds over any number of trips through the cookie. `CorsOnEveryReply`: with Cors
around everything else every head that goes out has its header, over whatever the
application puts into the table, an error of it, a 404, a page that resets the body's
headers, or a table that fills up in the middle of Cors; and no head has it unless Cors
ran for this very request.

**4.6 Router.** `FindsBest`: the most specific registered route, in any order of
registration, with HEAD falling back to GET. `ParamsExact`: exactly its captures,
within the limits. `AddingIsLocal`: a new route changes no answer for paths it does not
describe, nor, where names agree, the parameters that go with it.

**4.7 WebSocket.** `FramesWhole`: under any interleaving the peer
reads whole frames, none after a close or a torn one. `PeerReadsFrames`: lengths
and masks at every boundary, read back by the other role. `PongsMirrorPings`,
`MessageWhole` (the size limit included); `WritesEnd`, `CloseAnswered`.

**4.8 Client.** `OneOwner`: every connection is in exactly one place (a task, a list
of connections to close, the pool), a destroyed one in none: no sharing, double
release, use after free or leak; the pool's counter is right and within its limit.
`OwnResponse`, `IdleUsable`;
`BundleWhole`: a connection is only made with a bundle that is complete and that
nobody is loading; `EveryFetchEnds`.

**Fairness.** *Lifecycle*: weak fairness of the listen task, of the clock and of
each task's start, clean-up and reaction to a cancel or timer; strong fairness of
the delivery of a cancel to `accept`, which `std.Io` checks each time the call
would block. Nothing is assumed of peers or descriptors. A handler that swallows
`error.Canceled` and blocks again can hold up the return; that is the
application's to avoid. *RequestLoop*: weak fairness of the loop, of a handler's
return and of an armed timer; `FairPeerSpec` adds a peer that goes on sending what
it began. *Parser*: weak fairness of the whole: a read ends, with data or with the
connection, and the caller reads on. *WebSocket*: weak fairness of a task that has
begun to write; nobody has to send or receive. *ClientPool*: weak fairness of each
task once it has called `fetch`, which says that a server answers or its connection
breaks (the client has no timer of its own) and that the caller gives its response
back.

## 5. Proofs

Every theorem holds for all values of the constants that satisfy the named
assumption of its module (`LifecycleAssumption`, `RequestLoopAssumption`, ...),
which asks for types, for distinct model values and, in `RequestLoop`, for the
handshake above. The numbers in the bounds (`MaxRequests`, `MaxReads`, `MaxBytes`,
`MaxTime`, ...) are arbitrary, so the theorems do not depend on them. Each inductive
invariant was checked with TLC on the run's instance first.

| Module | Theorem | States | Argument |
|---|---|---|---|
| `ServerLifecycleProofs` | `TypeCorrect` | `TypeOK` | inductive; doubling is clipped |
| | `CountExact` | `CountIsExact` | `CountStep`: every step leaves the counter and the set `Counted` alone, or adds one element and 1, or removes one and 1 |
| | `WakeupNotLost` | `NoLostWakeup` | inductive with `TypeOK`: the futex compares as it sleeps, and a task that lowers the counter passes through `"waking"` |
| | `TasksOutlived` | `ResourcesOutliveTasks` | from `ControlInv` |
| | `DrainedClosed` | `DrainedMeansClosed` | from `CountExact` and `ControlInv` |
| | `LateBounded` | `OneLateKeepalive` | from `LateInv` |
| `RequestLoopProofs` | `LoopInvariant` | (inductive) | `LoopInv`, below |
| | `LoopTypes`, `StaysInStep`, `RequestsKept`, `RepliesInOrder`, `LimitHolds` | `TypeOK`, `InStep`, `NoneSwallowed`, `AnswersInOrder`, `LimitAnnounced` | consequences of `LoopInv` |
| | `TimersArmed` | `TimerMatchesPhase` | inductive by itself, given that both timeouts are configured |
| | `LoopImplementsExchange` | `ImplementsExchange` | each action, under `LoopInv`, is a step of `HttpExchange` or a stutter |
| `ResponseProofs` | `OneHeadOneTerminator`, `HeadSendsNoBody` | `HeadFirstTermLast`, `HeadHasNoBody` | `FlagsInv` and `WireInv` |
| | `KeptIsWhole` | `KeptMeansWhole` | `KeptInv` on top of them |
| `ClientPoolProofs` | `PoolTypes` | `TypeOK` | inductive with `ControlInv` |
| | `BundleReadWhole` | `BundleWhole` | `CaInv` |
| | `EachConnOneOwner` | `OneOwner` | `OwnerInv`, then counting |
| | `OwnResponses` | `OwnResponse` | `CleanInv`, if `NothingLeft` |
| | `IdleStaysUsable` | `IdleUsable` | `CleanInv`, if `LastRefused` |
| `WebSocketProofs` | `FramesAreWhole`, `PeerReads` | `FramesWhole`, `PeerReadsFrames` | `WriteInv` |
| | `PongsMirror` | `PongsMirrorPings` | `PongInv` |
| | `MessagesWhole` | `MessageWhole` | `MessageInv` |
| `SessionProofs` | `CorsAlways` | `CorsOnEveryReply` | `CorsInv` |
| | `SessionsCarried` | `SessionCarried` | `DataInv` and `CarryInv`, if `OneSession` |
| `RouterProofs` | `TreesRecord` | (inductive) | `RouteInv`, below |
| | `BestRouteFound` | `FindsBest` | `RouteInv` and induction on the segments left, if `WildcardsLast` |
| | `ParametersExact` | `ParamsExact` | the same, if `WildcardsLast` and `NamesOnce` |
| | `RoutesAddLocally` | `AddingIsLocal` | two searches compared, if `WildcardsLast` and `NamesOnce` |

**Lifecycle.** `ControlInv` ties everything to the listen task's position: it holds
at most one accepted stream, no task exists before the loop or after the group was
awaited, and the resources exist exactly in between. Without it
`ResourcesOutliveTasks` is not inductive: a live task with the group already awaited
would satisfy it until the next step. `LateInv` adds that after the first late
response the flag is up and whatever the task writes next has read it.

**RequestLoop.** `InStep` speaks of one moment and is far from inductive. `LoopInv`
says where both sides are: the unread units form a chain, each the successor of the
one before, that starts at what the loop expects and ends before what the peer sends
next (`ChainInv`); every request the loop has not begun has its head in it
(`HeadsInv`, `PendingInv`); what was written belongs to requests answered, with the
finals numbered without gaps (`OutInv`, `FinalsInv`); an answer that said close is
the last (`LastInv`, `LimitInv`), and after a 101 no head is left (`UpgradeInv`,
`WaitInv`). The refinement uses it where `HttpExchange` asks that the answer given
is the next one and that no earlier one was the last.

**Response.** `FlagsInv` relates the flags (`written`, `headers_written`, `streaming`,
`chunked`, the open writer), `WireInv` adds what is on the wire in each of their
states. `KeptInv` says of an open streaming body that the wire holds its head and as
many bytes as were counted, or chunks without a terminator; only with that is a
response whole at the end.

**ClientPool.** `ControlInv` says at which points of the code a task has a connection
or some to close. `OwnerInv` states `OneOwner` as disjointness of the places, which
the steps preserve; `OwnerCounts` turns it into cardinalities. `CaInv`: whoever is
past the check has seen the flag, the flag means a whole bundle, and one task at most
scans. `CleanInv` follows a connection through a task (`UseOK` at each point) and the
pool: what is given back is `closing` or has nothing left on it. Its two hypotheses
are about servers: `NothingLeft` (no 1xx, no body with a Location that is rejected)
and `LastRefused` (no last answer after which `fetch` fails without closing). Without
them the statements are false of the code: `client_bad_redirect` refutes the first,
section 3 lists the others. The run's answers satisfy both.

**WebSocket.** The holder of the mutex is the only task between the halves of a frame
(`WriterInv`); `WriteInv` adds what `closed` says about the end of the wire. Lengths
are any number, so `PeerReads` is about every boundary. `PongInv` counts the pong
that is owed while the receiver waits for the mutex; `MessageInv` says that the
fragment buffer is the concatenation of the frames read since the message began.

**Session.** `CorsInv`: until Cors has run, first in the chain, the response is blank, so
there is a slot for its header; from then on every step leaves the header there, the
application's calls because they only add, the pages because they remove two others; the
reset between requests makes the response blank again. `CarryInv` says that the cookie a
user holds brings back what was left (`Brings`, stable while time passes), and that the
cookie in the running response, if this request has saved, will bring back `saved`. The
second part is what makes the first survive `EndRequest`. `RoundTrip` is the lemma that
loading undoes signing for any entries within the limit. `OneSession`: the chain has one
`Session`; two would load into the same `SessionData`.

**Router.** `RouteInv` says what a tree is in terms of what was registered for its
method (`Recorded`): its nodes are those on the way to a pattern, each has the name
that one of these patterns gives it, and the node a pattern leads to has the last
route registered for it. The rest is about one search in such a tree, for paths of
any length. Induction goes through sets of numbers: `LeastNat` gets the least element
of a set from the library's theorem that `<` is well founded, `NatSetInduction` turns
it into induction, and `MatchUnfolds` shows that the recursive function has
the value its definition says. With them, for the segments left,

* `FindsFrom`: a call at a node returns the first, by precedence, of the nodes below it
  that have a route and lie along the path (`Targets`), and a miss only if there is
  none; `BestOf` is then compared with it pattern by pattern;
* `LimitsFrom`: it never holds more than `MaxParams` names, and fails only where a
  node of some pattern lies deeper than that many captures;
* `ExactFrom`: a miss leaves the parameters as they were, a hit adds exactly the
  captures of the node's own way (`CapturedAt`).

The two hypotheses are about the application's patterns, and `insertRoute` checks
neither: `WildcardsLast` (a wildcard is the last part) and `NamesOnce` (no pattern uses
a name twice). Section 3 has a counterexample for each. That names agree between
patterns is part of the properties: with `/:x/*w`, registering `/:y/:x/c` makes a
request for `/1/2/3`, which it does not describe, lose its `x`. The run's patterns
satisfy both hypotheses (an ASSUME of `MCRouter`).

`EntriesProofs` holds the lemmas on `EntriesAt` (type, order, append, injectivity)
that five of the proof modules need: `SelectSeq` is recursive in the library and beyond
the prover.

Only model-checked:

* liveness (`CancelLeadsToReturn`, `StallInterrupted`, `ReadingEnds`, `WritesEnd`,
  `CloseAnswered`, `EveryFetchEnds`): its proof needs fairness and ENABLED, which
  the prover does not handle;
* what `Parser` computes (`BodyExact`, `BoundaryExact`, `RefusesExactly`,
  `KeepAliveAgrees`): a fold of llhttp's states over the bytes of whole messages,
  compared with a reference over the messages. Induction over the input is possible
  as in `RouterProofs`, but it needs an invariant that says for every state of the
  automaton which part of which message it has read.

## 6. Not modelled

* Forms, multipart, cookies, query unescaping, header lookup and the content type
  tables: sequential character-level code without state between calls.
* Which headers and method the next hop of a redirect uses, and request formatting.
* The merging of group and global middlewares in the router.
* In `Session`: changes of the session by anything but the handler; a value that
  `validateHeaderValue` refuses; in `StartStream`, a stream that fails for want of a slot
  after it has decided its framing (`Response` has it); a drain that is canceled
  between the handler and the write (`RequestLoop` has it; for a user it is a response
  that is lost).
* Lifetimes of memory: arenas, and slices into the read buffer (but for
  `SlicesContinue`).
* `ConnectionPool.deinit` (it runs when no task uses the client).
* llhttp's lenient modes, the validity of characters in methods, targets and
  header values, and its `CONNECT`/`PRI` special cases beyond the framing.
* TLS (third-party) and nghttp2: HTTP/2 is off by default, only
  `nghttp2_version` is called, and a connection that negotiates it ends with
  `error.Http2NotImplemented`. nghttp2 and its headers are most of the C in the
  repository; none of it takes part in what the program does.

## 7. Plan

Done: the lifecycle, the connection, responses, the client, the upgrade, the CA
bundle, `WebSocket`, `Parser`, `Router`, `Session`, the refinement of `HttpExchange`,
and proofs of every safety invariant and action property but those of `Parser`. Left:

1. `Parser`: the invariant of its states against the messages' encoding, proved by
   induction over the bytes; before it, that what is left of a body never grows and
   that a parser which has refused a message stays refused.
2. The redirect's stripping rules as a function of the hops; middleware merging.
