# module_main, the API gateway: specification and proofs

`module_main` is an HTTP/JSON gateway in C++ (`src/src`). It listens on one
port, gives each client connection a thread of its own, reads one request,
limits the rate per address, checks a JWT and its scopes, and forwards the
request to an upstream module. This directory holds TLA+ models of that program,
TLC configurations that check them on small instances, and TLAPS proofs for all
instances. Line numbers below are those of the files under `src/src/`.

To check a module: `tlc -config <run>.cfg <module>.tla`; to check the proofs:
`tlapm <module>Proofs.tla`.

## 1. The system

| component | state | operations | talks to |
|---|---|---|---|
| start-up, accept loop and shutdown (`main.cpp`) | `cfg`, `g_running`, the listener, `activeClients`, `connSeq` | load, set up, bind, listen; select, accept, refuse, count in, start a worker; a signal; close, drain, return | starts one detached thread per connection, which borrows `cfg`, `limiter` and `activeClients` from main's frame |
| connection handler (`HandleClient.cpp`) | the socket, `head`, `body`, `req`, `auth` of one connection | read the head, cut and parse it, read the body, limit, route, authenticate, authorise, forward, answer, close | every other component, by calls |
| request head parser (`Http.cpp`) | position and header map of one call | request line, header lines, end of head | called by the handler with the head it has cut |
| rate limiter (`RateLimiter.h`) | a table of buckets under a mutex | `allow`, `purge` | called by all workers at once |
| router and scopes (`Router.cpp`, `Router.h`) | none | `matchRoute`, `hasScope`, `granularPrefix` | reads the configuration |
| token verification (`CheckToken.cpp`) | none | `verifyJwt`, `extractStringList` | jwt-cpp, the system clock |
| configuration (`Config.h`) | read once, then constant | `loadConfig`, `envInt`, `upstreamFor` | the environment |
| upstream proxy (`Proxy.cpp`) | one socket of one call | `parseUpstream`, `connectWithTimeout`, `forwardRequest` | DNS and the upstream module |
| logging, sockets, helpers (`Logger.h`, `NetCompat.h`, `getAddress.cpp`, `SimpleFunctions.h`, `FindToken.h`) | a log level, a log mutex | one-liners | everybody |

What is hard about it:

- **Concurrency.** Workers are detached and share three objects of main's frame.
  The limit on clients is a load, an increment and a thread start, three steps
  with other threads in between. `allow` reads the clock before it locks.
- **Ordering and shutdown.** A signal can arrive between any two statements of the
  accept loop; the drain looks at a counter that workers decrement last.
- **Framing.** TCP cuts a request anywhere. Limits are tested between reads, so an
  answer can depend on where the cuts fall. The head is cut in one file and parsed
  in another.
- **Failure.** Clients that vanish or never read, upstreams that refuse, hang, reset
  or send too much, sockets to be closed on every early return, a system without
  threads or descriptors, a start-up that fails half way.
- **Timeouts.** Each call of an exchange with an upstream has its own; which of
  them is reported as one, and how many can add up, is spread over four functions.

What makes each component correct, and where that is stated: section 3. The full
list of hazards, each at its line and with the properties that watch it, is
`"hazards"` in `PROJECT.json`.

## 2. Modules

| module | stands for | role |
|---|---|---|
| `HeadParser` | `HandleClient.cpp:93-97`, `Http.cpp:69-113` | the cut and the parser, on lines and fields |
| `MCHeadParser` | | the heads TLC tries |
| `HeadParserProofs` | | proofs |
| `WindowQuota` | `RateLimiter.h:2` | what a fixed-window limiter promises (abstract) |
| `RateLimiter` | `RateLimiter.h:11-54` | `allow` by several threads; implements `WindowQuota` |
| `RateLimiterHistory` | | adds a record of the latest grants in real time |
| `MCRateLimiter` | | symmetry |
| `RateLimiterProofs` | | proofs |
| `RateLimiterHistoryProofs` | | proofs of the bounds on 60 seconds |
| `Config` | `Config.h:67-103` | `loadConfig` and `envInt`, as operators |
| `Pool` | `MAX_CLIENTS` | a pool of places (abstract) |
| `Server` | `main.cpp:18-167` | start-up, accept loop, workers, signal, shutdown; implements `Pool` |
| `MCServer` | | the environments TLC starts it in |
| `ServerProofs` | | proofs |
| `Router` | `Router.cpp`, `Router.h`, `Config.h:50-58` | operators |
| `Token` | `CheckToken.cpp:12-90` | operators; jwt-cpp is external |
| `Service` | `docs/API_CONTRACT.md` | the answers one connection may get, and when (abstract) |
| `Connection` | `HandleClient.cpp:18-250` | one connection, uses `Router` and `Token`; implements `Service` |
| `MCConnection` | | the requests TLC tries |
| `ConnectionProofs` | | proofs about sizes, framing and answers |
| `AuthorisationProofs` | | proofs about routes, tokens and scopes |
| `Exchange` | the caller of `forwardRequest` | what asking an upstream promises (abstract) |
| `Proxy` | `Proxy.cpp:40-298` | `forwardRequest`; implements `Exchange` |
| `MCProxy` | | the base URLs and responses TLC tries |
| `ProxyProofs` | | proofs |
| `Gateway` | the process | `Server` and `RateLimiter` composed, with the stages of each worker |
| `MCGateway` | | its environments |
| `GatewayProofs` | | proofs, from those of its two parts |

`Gateway` instantiates `Server` and `RateLimiter` and synchronises their actions;
`Server` extends `Config`; `Connection` extends `Router` and `Token`. `Connection`
and `Proxy` meet at `forwardRequest`: the verdicts `Proxy` ends with are the ones
`Connection` starts from. They are not composed action by action, since one shares
nothing with the other but the call.

`PROJECT.json` maps every definition to the lines it stands for. Operators whose
name starts with `Mut` are deliberately wrong variants of the definition that
follows them; nothing uses them, they serve to test that each property can fail.

### HeadParser

A head is a sequence of tokens: CRLF, or the text between two CRLFs tagged with
what the parser finds in it (a request line, a header line with its name and
value, junk). `CutHead` is handleClient's `substr`, the other actions are the
returns and the loop of `parseHttpRequest`. `separatorKept` chooses between the
expression the code has, `head.substr(0, eoh)`, and the same with `eoh + 2`. The
second is not in the code; it is there to show that the one expression is the
whole cause of what the first does.

### RateLimiter

One thread is in `allow` per value of `pc`: it reads the clock (`Call`), waits,
takes the mutex, sweeps and looks its bucket up (`Lock`), and decides
(`OpenWindow`, `Admit`, `Deny`). Reading and writing the table are separate
steps, so that it is the mutex, and not the model, that makes them atomic. Time
is in seconds and moves at any point (`Tick`). `ledger` is a history variable:
the latest window of each address and what it granted, which survives a sweep of
the table. `RateLimiterHistory` watches one address, `Watched`, and adds `recent`, its
grants of the last `Window` seconds: when each returned, which thread it went to, at
which reading of the clock, how many windows ago, and as which of its window. The
bounds use only their number; the rest is what the proof of the bounds needs.

### Server

The start-up loads an environment (`LoadConfig` turns it into settings that are in
range or missing), and goes through Winsock, addresses, socket, bind and listen,
each of which may fail; `up` is what has been set up and not been given back,
`left` the addresses bind has not tried. A signal that comes before its handler
does ends the process.

`main` is the statement main() is at. Every step at which another thread, a
client or a signal can come in between is an action. `worker[c]` is "handling"
until handleClient has closed the socket and "handled" until `fetch_sub`.
`Counted`, the workers that have not counted themselves out, are those that
still use main's frame. A client whose connection is over may connect again, so
four clients are any number of them. `late` is a history variable. `BrokenPipe` is
SIGPIPE: `send` is called without `MSG_NOSIGNAL` and nobody ignores the signal, so
a peer that is gone may end the process (`NoThread`, an uncaught
`std::system_error`, is the other way).

### Connection

Bytes are counted: a request is a head of `headLen` bytes, what the client sends
after it, a Content-Length, and the fields the decisions look at. `ReadHead(n)`
and `ReadBody(n)` take any piece of up to `Buf` bytes, so every way of cutting a
request is a behaviour. The sections 3 to 6 of handleClient are one action per
outcome. The two readings of the clock in `verifyJwt` are any two values, since the
system's clock may be set in between; the history variable `clock` keeps them. Answers
are named by status and code.

`Service` sees the connection as one request with at most one answer, given by the
stage that may give it.

Whether a head parses is a field of the request here. That is deliberate: with
the cut the code ships no head parses (finding 1), and everything behind the
parser would be unreachable. `Connection` says what the handler does with the
heads the parser accepts, `HeadParser` says which those are.

### Proxy

Bytes are counted here too: a request of `Wire` bytes, and a response that has its
first empty line at a byte, a status, and a length. Each action is one call of the
socket layer with one way it ends: no socket, refused, timed out, a part sent, a
part read, end, reset, nothing within `timeoutMs`, too much. A path is the sequence
of what stands behind each `/`, so the joining of base URL and path (lines 50-53
and 202) is done as the code does it. `waits` and `slow` are history variables: how
many calls may have blocked for a whole timeout, and which one did.

### Gateway

The composition adds two variables to those of `Server` and `RateLimiter`: the stage
of each worker, and `upstream`, the workers that hold a socket to an upstream. The threads of the limiter are the workers; `Answer` and
`Leave`, the end of handleClient, are `Handle` of `Server`. What a stage decides is
a free choice here, since `Connection` and `Proxy` say it; what remains is who
waits for whom, who holds what, and what happens when main ends meanwhile.

## 3. Properties and runs

| run | module | instance | distinct states |
|---|---|---|---|
| `head_parser` | MCHeadParser | all heads of up to 4 lines over 8 texts, 3 continuations, both cuts, `MaxFields` 1 | 90 393 |
| `limiter` | MCRateLimiter | 2 threads, 2 addresses, one of them watched, limit 0 or 2, window of 2 s, 5 s | 1.3 M |
| `limiter_purge` | MCRateLimiter | 2 threads, 2 addresses, one of them watched, limit 1 or 2, window of 3 s, 6 s, swept above one address; symmetric in the threads | 5.1 M |
| `server` | MCServer | 6 environments, 2 addresses, 4 clients, 2 places (or 128, or 4096), backlog 2, 2 polls | 25 468 |
| `connection` | MCConnection | heads of 1 to 7 bytes with a cap of 4, reads of 3, bodies around a limit of 3, 13 paths, 3 methods, 32 combinations of claims, 2 to 3 values of every token field | 46 897 |
| `proxy` | MCProxy | 480 base URLs and paths, 180 responses around a cap of 5, 2 addresses, a request of 2 bytes, reads of 3 | 32 000 |
| `gateway` | MCGateway | 3 clients, 2 places, backlog 1, 1 poll, limit 0 or 1, window of 1 s, 2 s | 132 203 |

**head_parser.** `ShippedCutRejectsAll`: the code as it is accepts no head.
`RepairedCutAcceptsWellFormed`: with the last CRLF kept it accepts exactly the
well-formed heads, the definition of which is written independently of the loop.
`LastValueWins`: a repeated header has the value of its last line, the one that
framing and authentication then use. `ParserReturns`: the loop ends.

**limiter.** `QuotaSpec`: the limiter implements `WindowQuota` when the table is
not swept: windows of one address are disjoint and grant at most the limit.
`RollingBound`: in any window's length of real time an address gets at most
`2 * limit + threads - 1` grants; the bound is exact, one less is violated.

**limiter_purge.** `TallyExact`: what a bucket says is what was granted; a lost
update or a sweep of a running window would break it. `WindowWithinLimit`: swept or
not, no window grants more than the limit. `DenyOnlyWhenSpent`: a
refusal happens in a window that has granted everything and is not over at the call's
own reading of the clock, which may be older than the refusal.
`SweptRollingBound`: once sweeping comes in, a delayed caller is worth a window of
its own, and the bound is `limit * (threads + 1)`. It is reached on this instance,
where `RollingBound` is violated.

**server.** `StartIsAllOrNothing`: whatever fails, the gateway serves with a complete
configuration and a listener, or it serves nobody; and what it had set up is given
back. `PoolSpec`: the detached workers implement a pool of
`MAX_CLIENTS` places although check, count and start are three steps.
`SocketsOwned`: every open socket has exactly one owner that will close it.
`EarlyStopIsClean`: a drain that ends before its polls are used up leaves nobody in
main's frame. `AtMostOneLate`: one worker at most starts after the signal.
`ShutdownCompletes`: main ends after a signal, whatever the workers and the clients
do. `QueueDrains`: a queued connection does not wait for ever, even when all workers
hang.

**connection.** `BuffersBounded`, `HeadCapSound`, `ForwardedBodyExact`: what the limits
mean when they are tested between reads. A head that exceeds `kMaxHeaderBytes` by less
than a read is read or refused depending on its cuts; one within it is never refused.
`HonestSenderFairlyJudged`: of a head that is read, the declared length alone decides,
however the bytes are cut, if the client sends no more than it declares. Up to
`MAX_BODY_BYTES` the body is accepted, up to 64 MiB the answer is `body_too_large`, and
beyond, `bad_request` (finding 2). `ForwardedVetted`: what reaches an upstream has a
token that is signed, of the right issuer, not expired at either of the two readings of
the clock, and grants the scope of the area of that upstream, written from
`API_CONTRACT.md` section 3 and not from the code's order of tests.
`EntitledNotForbidden`: the converse for 403. `ServiceSpec`: one answer at most, from
a stage that may give it, and an upstream is asked once at most and only behind
the limiter. `ConnectionEnds`: the worker comes to the end of its connection.

**proxy.** `SocketsReturned`: every way out of `forwardRequest` gives its socket back.
`RelayedIffProper`: for an exchange that ran to its end the verdict depends on the
response alone and not on the reads it came in. `TargetJoined`: the path the
upstream sees is that of the base URL, without the slashes at its end, followed by the
rest of the request's, if the base has anything but slashes behind its host (finding 7
is about those that have not).
`WaitsBounded`: a timeout bounds a call, not the exchange; a worker may spend
`addresses + bytes sent + bytes allowed` timeouts in one exchange. `ExchangeSpec`: a
request goes out once, only an upstream that has all of it is quoted, and a timeout
is reported only of a request of which nothing was sent. `ForwardReturns`: it
returns, whatever the upstream does.

**gateway.** `DescriptorsBounded`: `2 * MAX_CLIENTS + 2` descriptors at most, over all
threads. `EarlyStopReleasesAll`: when the drain ends early, nobody is in the limiter
or waits for it, and no upstream is being asked. `PlacesComeBack`: if no client
refuses to read for ever, a full gateway gets a place back; in particular the mutex
always comes back and no worker waits for it for ever.

### Findings

Findings 3 to 7 are runs in which TLC violates what a comment or the contract says. The
first two are properties that hold and are proved, and that say the opposite of it.

1. `head_parser`, `ShippedCutRejectsAll`. `HandleClient.cpp:94` cuts the CRLF of the
   last head line off, `Http.cpp:72` and `:100` refuse a line without one: every
   request is answered 400. `Http.h:36` promises to return false "on bad format".
   `eoh + 2` instead of `eoh` repairs it (`RepairedCutAcceptsWellFormed`).
2. `connection`, `HonestSenderFairlyJudged`. `parseContentLength` gives up beyond 64 MiB
   (`HandleClient.cpp:43`), so that a larger body is answered 400 "Bad Content-Length."
   (line 117) and not 413, which `API_CONTRACT.md:22` says of every body that is
   larger than `MAX_BODY_BYTES`. The property states both answers and the length at which
   one gives way to the other.
3. `body_413`, `OnlyLargeBodiesRefused`. `HandleClient.cpp:139` counts the bytes
   behind the body as well when they arrive in the body loop, and not when they
   arrive with the head. `API_CONTRACT.md:22` reserves 413 for large bodies.
4. `limiter_overlap`, `WindowsDisjoint`. The clock is read before the lock
   (`RateLimiter.h:20-24`). A caller delayed in between, after a sweep with a later
   reading has dropped its address, opens a window over the end of the dropped
   one. `RateLimiter.h:2` promises N requests per window.
5. `shutdown_frame`, `FrameOutlivesWorkers`. main waits 5 s at most
   (`main.cpp:161`) and returns; a worker may need 30 s for one recv, and goes on
   with references to destroyed locals until the process is gone. `main.cpp:124`
   calls this a graceful shutdown.
6. `proxy_504`, `TimeoutsAnswered504`. Only connect reports a timeout. An upstream
   that accepts and then takes nothing in time makes send fail (`Proxy.cpp:139`, the
   trace of the run), one that takes the request and then says nothing makes recv fail
   (`Proxy.cpp:230`); both are answered 502. `API_CONTRACT.md:63` says that
   `UPSTREAM_TIMEOUT_MS` is answered 504.
7. `proxy_slash`, `PrefixTrimmed`. The trimming of the prefix stops at one character
   (`Proxy.cpp:52`): `http://users:8081/` keeps `/`, and the upstream is asked for `//5`.
   `Proxy.cpp:51` says that a trailing slash is trimmed, `Proxy.cpp:36` that a prefix is
   "" or "/v1", `API_CONTRACT.md:54-57` that it is put in front of the rest.

Seen while reading and not expressible in a run: `kInvalidSock` is declared only
in the Windows half of `NetCompat.h` and used in all builds. No text contradicts
these two, which are part of the models: SIGPIPE may end the process (`BrokenPipe`),
and a client that does not read keeps its place (`Answer` has no fairness). Not
modelled: with more than `FD_SETSIZE` descriptors `FD_SET` writes out of its set;
`DescriptorsBounded` says that `MAX_CLIENTS` up to 510 stays below 1024, a little less
with the descriptors the process starts with; the default is 128.

### Why the bounds are enough

- *head_parser*: a rejection or a stored value depends on one line, on the number
  of names and on repetition. Four lines hold a request line, a repeated name and
  two further names, which with `MaxFields` 1 is below, at and above the limit. The
  proofs remove all bounds but the one of `ParserReturns`.
- *limiter*: two threads are enough for a race and for a stale reading; 5 and 6
  seconds are two windows or more. `PurgeAbove` 2 is never exceeded by two
  addresses, `PurgeAbove` 1 is. Liveness is checked without symmetry. The proofs
  remove all these bounds.
- *server*: two places and four clients: one connection more than the pool
  and one more in the queue. Two polls instead of 100: running out of polls and
  not running out of them both happen. Each environment lets one step of the
  start-up fail or one number fall back to its default; `EnvInt` treats the numbers
  alike, and `ServerProofs` has all environments.
- *connection*: every size goes from below its limit to beyond it by more than one
  read, and reads of 1 to 3 bytes give all cuts. Token and route are varied
  separately from the sizes: no branch looks at both. The proofs remove all bounds
  but the one of `ConnectionEnds`.
- *proxy*: a response below, at and above the cap by up to a read; its empty line
  missing, inside it, and beyond what is read; a status at and beyond both ends. A
  second address is enough to go on, to stop and to run out. The proofs remove all
  bounds but the one of `ForwardReturns`.
- *gateway*: three clients on two places: a full gateway with one to refuse. One
  address and limit 1 make two workers meet at one bucket, with a grant, a refusal
  and a new window. The proofs remove all bounds but the one of `PlacesComeBack`.

### Fairness

- `HeadParser`, `Connection`: the thread of a function keeps running (weak
  fairness of its steps). Every recv ends, at the latest at the timeout that
  `main.cpp:145` sets.
- `RateLimiter`: a thread that holds the mutex keeps running. Nothing is assumed
  about who gets it, as `std::mutex` promises nothing.
- `Server`: main's thread keeps running, and accept() does not fail for ever while
  connections are queued (strong fairness of `Accept`). **Nothing** is assumed
  about workers: a send to a client that does not read has no timeout. So
  `ShutdownCompletes` and `QueueDrains` hold with all workers hanging. Assumed of
  the platform: accept() after a successful select does not block, see the comment
  at `AcceptFails`.
- `Proxy`: the thread keeps running; connect, send and recv end at `timeoutMs` at the
  latest (lines 110 and 191-200), getaddrinfo at the resolver's own.
- `Gateway`: main and every worker keep running, except in `Answer`; of the threads
  that wait for the mutex some one gets it, and nobody says which. That is enough
  for `PlacesComeBack`: a worker may be overtaken only by workers that leave their
  place soon after. That clients read is a condition inside the property, not a fairness.

Deadlock checking is off where the program really ends: a parser that returned,
a closed connection, a call that returned, an exited process. The limiter is checked for deadlock.

## 4. Proofs

All theorems hold for every value of the constants that meets the named ASSUMEs:
sizes are positive, special values are not members of the sets they are special
to, the head was read up to an empty line, the first reading of the clock is not
0, a path is a sequence of texts, times are numbers, a claim that is neither a list nor a string has no
strings in it (`TextsAssumption`). TLC evaluates each ASSUME in the runs. One further
hypothesis occurs, `FewAddresses`: at most `PurgeAbove` (20000) addresses, so that the
table is never swept. `ImplementsQuota`, `ProcessKeepsQuota`, `WindowsApart` and
`RollingBoundHolds` state it, because without it they are false: the run
`limiter_overlap` shows it of the first three, and `SweptRollingBoundHolds` is what
remains of the last.

**HeadParserProofs.** `TypeCorrect`; `ShippedCutRejects`. With the shipped cut,
what is in front of the first empty line has no two CRLFs in a row and none at
its end (`NoEmptyLine`), and the parser always stands right behind a CRLF. So it
stands neither at the end of the head nor at an empty line, and the loop can only
end in a rejection.

`RepairedCutAccepts`, `LastValueIsKept`: with `eoh + 2` the parser accepts exactly the
heads the reference definition `WellFormed` accepts, and stores what `LastValues` says.
Neither definition looks at the loop: they speak of the positions of texts in front of
the first empty line (`FieldsOf`). In front of it texts and CRLFs alternate (`HeadShape`:
it is the first empty line, and texts are whole lines), so that a line is one text and
the next starts two further (`LineAt`). The invariant `ReadUpTo` says what the parser
knows at a position: all lines before are header lines, the names of all but the last
of them are at most `MaxFields`, since `HasRoom` looks before the insertion, and the map
holds the last value of each. Both directions come from it, an acceptance at the end
of the head (`AllRead`) and a refusal at the first line the reference refuses
(`FieldRefused`).

**RateLimiterProofs.** `TypeCorrect`, `TallyIsExact`, `LimitHolds`,
`RefusalsAreEarned` follow from one inductive invariant. None of these properties
is inductive alone; what is missing is that the bucket a thread has read is still
the one in the table while it holds the mutex (`CallOK`), and that a window that
was opened has a start and a grant (`LedgerOK`). `ImplementsQuota` is the
refinement; it assumes `FewAddresses`, at most `PurgeAbove` addresses, and needs
the additional invariant that an address is then never forgotten (`Remembered`).
`WindowsApart` (`WindowsDisjoint` under `FewAddresses`) says that, for the same reason, a
window only opens when the one before it is over, whatever reading it is opened with.

**RateLimiterHistoryProofs.** `RollingBoundHolds`, `SweptRollingBoundHolds`. The
difficulty is that a grant is made at a reading of the clock that may be any number of
seconds old. The invariant (`HistoryInv`) keeps the grants of the last `Window` seconds
apart by their window and their place in it (`ToldApart`), in the order they were made,
with each thread reading the clock anew after its own (`InOrder`), every window still
represented by the grant that opened it (`Openers`), and says that the opener of a
window that has a successor was a stale reading, one of `Window` seconds ago or more
(`StaleOpeners`, from `Kept`: the table keeps a window for as long as it lasts). A
thread makes one grant with a stale reading at most, since its next reading is recent.
So at most as many windows as there are threads were succeeded, and with the latest
that makes `threads + 1` windows of `limit` grants. When nothing is swept, windows do not
overlap (`Apart`), all grants but those of the latest two windows are stale themselves,
one for each thread, and the thread that opened the earlier of the two, with a stale
reading, has none of them: `2 * limit + threads - 1`. Both
counts are injections into a product of intervals (`SweptBound`, `ApartBound`).

**ServerProofs.** `TypeCorrect`, `StartsWholeOrNotAtAll`, `NoSocketLost`,
`SocketsAreBounded`, `EarlyStopLeavesNobody`, `OneLateWorker`, `ImplementsPool`. The
invariant says that a connection is in one place at a time (`PlacesOK`), that
`activeClients` is the number of counted workers, plus one between the count and the
thread (`CountOK`), that the room found at line 140 is still there when the worker
starts because only main adds one (`RoomOK`), that a late worker sends main back to
the flag (`LateOK`), and, for each statement of the start-up, what is set up by then
(`StartOK`). `TypeCorrect` includes that the counter is never negative, which is why
it needs `CountOK`. `LoadedInRange` is about `Config`: whatever the environment says,
every setting is in its range; `MAX_CLIENTS` above 0 is what makes the pool a pool.
`SocketsAreBounded` (`MAX_CLIENTS + 1` clients) is not checked by a run of its own:
`DescriptorsBounded` of `gateway` includes it.

**ConnectionProofs.** `TypeCorrect`, `BuffersStayBounded`, `HeadCapIsSound`,
`BodyIsExact`, `HonestSenderJudged`, `ImplementsService`. The invariant says, for each
section of the handler, what has been received in terms of head and body: in the
body loop `received = headLen + body`, which is what turns "sent no more than
declared" into "no overrun". That what comes with the head is less than one read
(`HeadRead`) bounds the body buffer.

**AuthorisationProofs.** `OnlyVettedForwarded`, `NoEntitledRequestForbidden`. The five
decisions (parser, router, token, scope, upstream) are in five functions; `StagesOK`
says what each stage of the handler may rely on from the ones before: the head was
parsed, the path is one of an area, the token is signed, unexpired at both readings of
the clock and of the right issuer, and `auth` holds exactly the strings of its claims. The lemmas
about `ExtractStringList`, `VerifyJwt`, `MatchRoute` and `HasScope` connect these with
`Entitled`, which is written from the contract: a path cut behind its area continues it
(`Remainder`), a base is that of the area or, for three areas, that of tests.

**ProxyProofs.** `TypeCorrect`, `NoSocketKept`, `RelayDependsOnResponse`,
`TargetIsJoined`, `WaitsAreBounded`, `ImplementsExchange`. The invariant gives, for each
value of `pc`, the sockets held, what has been sent and read, and what `waits` may be:
every address tried has cost one, every byte sent or read at most one. `judge` is
reached with the whole response read and below the cap, which is why the cut into
reads does not show. That the trimmed prefix is a prefix with no slash to trim
(`CutIndex`, `PrefixCut`) needs the last segment that is not empty, which `Last`
gets from the well-foundedness of the naturals.

**GatewayProofs.** `PartsAreImplemented`, `TypeCorrect`, `DescriptorsAreBounded`,
`EarlyStopIsClean`, `PartsKeepTheirPromises`, `ProcessIsPool`, `ProcessKeepsQuota`. `PartsAreImplemented` says that each step of the process is a step of
main or leaves its variables alone, and likewise for the limiter; so the invariants of
`ServerProofs` and `RateLimiterProofs` hold of the whole. `PartsKeepTheirPromises` states
the safety properties that follow, `ProcessIsPool` and `ProcessKeepsQuota` (under
`FewAddresses`) that the process implements both abstract specifications at once. What relates the two parts is added (`Agree`): the stage of a worker
against its place in the pool and its call of the limiter, an upstream socket only
while it asks. The descriptors are then counted: client sockets are at most
`MAX_CLIENTS + 1`, workers that ask are workers that handle, and of `socket` and
`listener` main has one.

### Only model-checked

Every safety invariant that a passing run checks is proved. Liveness (`ParserReturns`,
`ShutdownCompletes`, `QueueDrains`, `ConnectionEnds`, `ForwardReturns`,
`PlacesComeBack`) is out of the prover's reach and stays with TLC, as do the five
properties that the violation runs refute (`WindowsDisjoint` is refuted in general and
proved under `FewAddresses`). That the bounds on the grants of 60 seconds
cannot be lowered is shown by TLC on the instances of the runs.

## 5. Not modelled

- `buildResponse`, `jsonError`, `Logger.h`, `getAddress.cpp`: formatting and output.
- `CheckToken` (the legacy wrapper), `FindToken.h`: nothing calls them.
- `NetCompat.h`: wrappers, part of the actions that call them.
- jwt-cpp, picojson and OpenSSL are external. The query of a target, the values of
  headers other than those that decide, and the log are abstracted away.
- The sending of an answer: `Connection` ends where it starts. In `Gateway` it is one
  step that need never happen.
- `src/lib/include` holds the headers of OpenSSL, jwt-cpp and picojson, some 48 700
  of the 50 200 lines of the tree. They are third-party code; `Token` models what
  `verifyJwt` relies on. The gateway's own code is about 1 670 lines, of which the
  modules map every line that changes state or decides something; what is left is
  includes, declarations, formatting, logging and the items above.

## 6. Plan

The modules of the system are all there, and every safety invariant of the runs has a
proof. What would add to it:

1. The findings as theorems with a condition, as `WindowsApart` is for `limiter_overlap` and
   `TargetIsJoined` for `proxy_slash`:
   `FrameOutlivesWorkers` when the polls do not run out, from `EarlyStopIsClean`, and
   `TimeoutsAnswered504` for a timeout of connect.
2. `Connection` with `Proxy` in the place of its three outcomes, refining the composition
   of `Service` and `Exchange`.
