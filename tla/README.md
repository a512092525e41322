# statsproxy in TLA+

statsproxy sits between memcached and the people and scripts that watch it. For
each `proxy-mapping` of its configuration it polls one memcached, keeps the
replies, and serves them on its own port to telnet clients (`stats <uri>`) and
browsers (`GET /<uri>`). This directory holds a model of it, the model-checking
runs, and machine-checked proofs. Line numbers refer to `src/`.

## The system

| component | state it keeps | operations | who calls it |
|---|---|---|---|
| memcached connection, `statsmc.c` | `bep->fd`, `bep->last_error`, the read buffer of a reply | connect (70), write a command (171), read (245), parse (360), read replies (404), disconnect (457) | the poller thread of the backend, nobody else |
| backend poller, `statsproxy.c` 822-1020 | `bep->state`, the cached lists `uri_entry->stats`, `lastpoll`, `rwlock` | `runBackend`, `checkAndConnect`, `getStat`, `getHealth` | one thread per backend, started by `startProxies` |
| delivery of cached stats, 432-558 | reads state and lists under the read lock, `last_error` also without the writer's help | `statsCallback`, `clntError`, `rawPrintStats`, `htmlPrintStats` | one thread per client connection |
| front end, 297-429 and 692-763 | the listening socket, `proxyclient_t` of each connection | accept loop, request line, `setClientType`, `findCallback`, dispatch | one accepting thread per backend, which starts the client threads |
| reporter client, `mcr_web.c` and 561-676 | a static address (516), lists built per request, one socket per query | show instances, top keys, top clients, add and del | client threads, on system uris |
| configuration, `settings_parser.y`, 1023-1239 | global, local and system settings, the list of proxies | grammar actions, `addProxy`, `backend_new`, `startProxies` | `main`, before any thread |
| uri strings, `uristrings.c` | none | `uri_encode`, `uri_decode` | client threads |
| HTML, images, log, queue macros | none that matters | formatting | everybody |

The threads of a backend meet in three places: the read-write lock of the
backend, which covers `state` and the lists; `last_error`, which the poller
assigns with no lock and `clntError` reads twice, under the read lock in one of its six
callers and with no lock in the others; and the
table of file descriptors of the process. The threads of all proxies share static
buffers without a lock: the address in `mcr_getAddr`, the name in `addr2host`, and
what `gethostbyname` and `gethostbyaddr` return.

What is hard here: a list is freed and rebuilt while clients print it; a client
prints under the read lock, so a slow client is a long reader; every error path
of the connection has to leave command and reply in step, over a byte stream
that may block, break, stall or end anywhere, and whose replies may be longer than the
buffer they are read into, and so be torn in mid line; the health probe shares that
stream and reads only eight bytes of whatever comes; a failed connection is
retried and restarts the round; all waiting is measured with a clock that may be set;
numbers of the configuration change width on their way; the reporter's pages
change what they show.

What makes each component correct:

- connection: a reply is credited to the command it answers; an error is
  reported as one; after an error nothing of the old reply can be read.
- poller: lists change only as a whole and only under the lock; rounds go on.
- delivery: a page is one published list; a refusal happens only while the
  backend is not serving; the error it names is real, when it is told under the lock; who
  asks is answered.
- front end: a request is answered once, in the format of its sender, and a
  connection's descriptor is closed once.
- reporter client: each page is made from one consistent address and leaves no
  descriptor behind.
- configuration: each proxy has the settings written for it, and ones it can run with;
  a proxy accepts or the process ends.
- clocks: no wait is longer than the timeout allows, whatever the wall clock does, and
  rounds keep their interval.
- uri strings: a link leads to what it was made for.

## The modules

| module | models | state and actions |
|---|---|---|
| `StatsMc` | `statsmc.c` | `sock` is `bep->fd` with what the kernel holds for it: unread lines and whether the peer closed. `buf`, `done`, `new_stats` are the locals of `sp_memcache_read_replies`. One action per system call with the branch taken on its result: `Connect`, `Disconnect`, `Write` (`Sent`, `NotSent`), the reads of a reply (`ReadMore`, `ReadBuffer`, `ReadErrorReply`, `ReadEof`, `ReadFails`), a full buffer being cut in mid line (`Arrivals`, `Torn`), the line loop (`ParseLine`, `ParseMore`, `ParseEnd`), the read of the probe (`ReadProbe`). |
| `Backend` | the poller, and the clients in `statsCallback` | `ppc`, `idx`, `tries` are the poller's position; `state`, `readers`, `writer`, `stats` the shared part; `cpc`, `ctype`, `cpos`, `page`, `told` a client. A section that only assigns `bep->state` under the write lock is one step. `RemoveOldStats` and `AddNewStats` are two steps under the lock, `PrintEntry` is one turn of the printing loop. `clntError` reads `last_error` twice: `RefuseNamed` and `Explain` are its caller under the lock, `RefuseOtherNamed` and `NameError` the others. |
| `BufferedStats` | the promise of `README.txt`, "a fast, buffered telnet view" | lists are published whole, an answer is one instant's list or a refusal, and a request for what is not listed is refused. `Backend` refines it: `BufferedView`. |
| `Frontend` | the accept loop, `handleFrontendRequest`, the callbacks' choice of answer, the sockets of a query to the reporter | `fd` is the descriptor table of the process: what each number stands for; the kernel gives out the lowest free one. `backlog` is the queue of the listening socket. Per connection, `inbox`, `outbox`, `gone` are the client's side; `tpc`, `tfd`, `ttype`, `treq`, `tans`, `qfd` the thread's locals. `Accept` and `AcceptFails` are one turn of `runFrontend`; `ReadRequest` is the request line with `setClientType`; one action per callback, and one per system call of a query (`FirstSocket`, `Socket`, `Connect`, `Exchange`, `FcloseQuery`, `CloseQuery`); `Flush` and `End` finish an answer and a session. Where `fdopen` fails on the socket of a query (`mcr_web.c:147`) the error is lost, the query is printed to a `FILE` that is `NULL`, and the process ends: `Connect` goes to `crashed`, from where nothing happens (`Up`, `Crashed`). `PollerSocket`, `PollerClose` are what a poller does to the table. |
| `Sessions` | what the front end promises | every connection is a conversation of its own: phases, requests, answers; no thread, no number. `Frontend` refines it: `SessionsView`. |
| `PollTimer` | the clocks of a poller: `runBackend`'s pause, `checkAndConnect`'s retries, the budget of `sp_memcache_write` and `sp_memcache_read` | `pc`, `uri`, `tries`, `open` are the poller's place; `left` is what remains of the call it blocks in. Every measurement is kept twice: `start` and `then` as `gettimeofday` tells them, `waited` and `round` as time passed. `Tick` is time, `SetClock` somebody setting the clock, `ReadFlood` a memcached that sends without a pause and without END, until `FloodEnds`, if ever; the other actions are the poller's and take no time. |
| `Settings` | the actions of the grammar in `settings_parser.y`, the lexer's numbers, `addProxy`, `backend_new` | `local` is `settings->local`, one record for all mappings; one action per statement, `CloseMapping` the end of a mapping with `addProxy`, which looks up both hosts. `Address` has the answers a lookup may give, and each lookup takes one anew. `at` is where the parser is or how it ended: at the end, by `YYABORT`/`YYERROR` (`failed`), or by `exit(1)`. |
| `Startup` | `main`, `startProxies`, `runFrontend` until it accepts; extends `Settings` | `fpc`, `saddr` are each front end's thread, `hostent` the static result of `gethostbyname` they share. The lookup of the thread (318) is another one than that of `addProxy` (1043), and may have another answer. `heard` is a history: whose answers a thread may find there. `Taken` and `CanBind` are the kernel's rules of `bind` and `listen` with `SO_REUSEADDR`. |
| `UriCodec` | `uri_encode`, `uri_decode`, `key_href`, and how `reporterCallback` finds parameters in a decoded uri | operators; `Parsed(u)` is what `reporterCallback` makes of `u` |
| `Reporter` | `reporterCallback` and the queries of `mcr_web.c`, one thread per client | `mcr`, `hostent`, `hostname` are the static buffers; `reporting` is what memcache reporter reports on; per thread its request, its copy `dest` of the address, the list it goes through (`todo`) and the list it makes (`rows`). `mcr_getAddr` is five steps (`ClearMcr`, `TestMcr`, `FamilyOfMcr`, `PortOfMcr`, `CopyMcr`), `addr2host` three (`LookUp`, `TrimName`, `DupName`). What is printed of a list is the set of its rows with their places. |
| `MCBackend`, `MCFrontend`, `MCPollTimer`, `MCStartup`, `MCReporter` | | values of the constants for TLC |
| `Drift` | what brings commands and replies out of step; extends `Backend` | a history variable: `drift` is set when a command that went out is given up, or when the probe took a part of an answer, and cleared by a new connection |
| `MCWire` | | values of the constants of `Drift` for TLC, without clients |
| `BackendProofs`, `WireProofs`, `FrontendProofs`, `PollTimerProofs`, `StartupProofs`, `CodecProofs`, `ReporterProofs` | | theorems about `Backend`, `Drift`, `Frontend`, `PollTimer`, `Startup`, `UriCodec` and `Reporter` |
| `Induction` | | induction along the natural numbers, for `StartupProofs` and `CodecProofs` |

`Backend` and `Frontend` meet in `statsCallback`: whether the backend is `POLLING`
is a choice in `Frontend` and the subject of `Backend`, where in turn a client is
only what it does under the lock. `Frontend` and `Reporter` meet in the same way in
`reporterCallback`: `Frontend` has the sockets of a query and takes its result as a
choice, `Reporter` has its data. `PollTimer` has the waits of the actions that `Backend`
leaves untimed.

A definition whose name ends like a bug (`EndRoundConnected`, `BailOpen`,
`SetStateUnlocked`, ...) and whose comment says "mutant" stands before the
definition it spoils. It is used by no specification; put in the other's place
it shows that a property notices.

Abstractions. A line is a record of what it is (`STAT`, `END`, `STORED`, `ERROR`,
`SERVER_ERROR`, or the rest of a line whose first bytes the probe took), which uri's
command it answers, which snapshot of the counters it reports, and its place in the reply. A
packet boundary inside a line is not modelled: the reader only looks for END and ERROR,
which it would find one `read` later, and parses when it has END or a full buffer. A full buffer
(`BufLines` lines) is cut at any byte, as `read` cuts it: its last line, END included, may be torn, and then
each half is parsed by itself. A half is the line with another value (`CUT`), the whole line if the cut falls
in `STAT ` or behind the value, or something else (`FRAG`), of which the parser makes an entry
or none. No 0 ends a full buffer of `MAXSTATSZ` bytes, so `strstr` and `strtok_r` go on into what is in memory behind
it: undefined behaviour, of which the model has the outcome that one more piece is found, and not what
`strtok_r` may overwrite there. A close in mid reply may cut the last value, too. The
clock is a choice: a read that waits may always reach its limit, when `"slow"` is
admitted even with data on the way. Sleeping is stuttering. The list of entries
that `getHealth` makes is cut to the age and the verdict.

In `Frontend` a request is its method, its uri and the names of its parameters; an
answer is its kind and its format, printed and flushed in one step though HTTP is
line buffered. One read may take more lines than the one it is for: the `FILE` of a
session is opened `"a+"` and used both ways, and printing the answer throws away
what it had buffered. A thread that reads from a number somebody else closed sees the end of
the file, and what it does to a number that now stands for another socket is followed
only for client connections: `double_close` stops at the first such close. A reset of the
connection, and an answer lost because of it, are not modelled, nor is `exit(1)` when
a client's thread cannot be created (351).

In `PollTimer` a command or a reply travels in `Parts` pieces, or in no end of them (`ReadFlood`), the three timeouts are one
constant, as the grammar assigns them together, and the times are small numbers.
`usleep` counts microseconds in 32 bits; in the model's unit that is `UsecSpan`.

In `Settings` the spans of the integers are scaled down (a second is 10 ms, an `int` has 64
values, a port 8), so that the wraps of `$3 * 1000` and of `strtoul` happen with one-digit
numbers; the digits of a number are read as the lexer reads them. In `Startup` the
pollers' threads and the clients' are left out, as they do not meet the front ends' there, and so are the sockets
of other processes.

In `UriCodec` a word that none of the functions looks into (`addr`, a dotted address) is one
character, and only the characters that mean something stand for themselves. In `Reporter` a
copy of a name is one step, although `strncpy` may be overtaken half way; what is asked about
a key, the columns of the tables and the version line are left out. A thread is done with
its locals when it has answered.

`Fault` names what may go wrong, so that each run can say what it relies on. In `Frontend`:
`fdopen` (of a connection), `nofile` (`fdopen` of a query), `noname` (the reporter's host name is not resolved), `noreporter` (it does not
accept), `error` (it answers `ERROR`). In `Reporter`: `noreporter`, `error`, `eof` (it breaks
off). In `Startup`: `nosocket`, `nothread` (`pthread_create`); a lookup that may fail has `none`
among its answers. In `Backend`:
`refuse`, `nosocket` (`socket()` or `fcntl()` fails), `block` (the send buffer is
full), `broken`, `slow`, `eof` (memcached closes, perhaps in mid reply), `error`,
`long` (`SERVER_ERROR ...` to the probe).

## The runs

| run | question | bounds and why they are enough |
|---|---|---|
| `locks` | Can a client see a torn page, or the state change while it is answered? Can a refusal under the lock (538) name no error (`ErrorNamed`)? Is it answered (`Answered`), do rounds go on when clients leave the lock (`PollsWhenUnread`)? Does the backend implement `BufferedStats`? | 2 clients (one reads while the other comes and goes), 2 snapshots (old and new list differ), 2 entries per list (a page can be half done), one uri, refused connections, one retry; the safety properties are proved for every fault |
| `wire` | What still holds when everything can go wrong? `FirstListTrue`: the first uri of a round is read from a fresh connection. `HealthHonest`: no liveness 1 is about to be published without a stored probe. `ListsInStep`: every list is the reply of its own uri from one snapshot, except on a connection on which a command that went out was given up or the probe read a part of an answer. Of a reply that fits the buffer the list has every line, in its place and up to where the reply or the list breaks off; of a longer one, lines in order, none twice, none of another reply, and pieces. `LostAtCuts`: a full buffer costs no more than the line it cuts. | every fault; 3 uris, the probe in the middle so that it can eat from one reply and leave to another; a buffer of 4 lines for replies of 3 (which leaves room), 4 (END may be torn) and 8 lines (a second full buffer begins with half a line); no clients, the poller does not depend on them except to wait. `VIEW` leaves out what the poller writes and never reads back: the lists but for whether the first is true, and `last_error`; the state and the writer's lock follow from `ppc` |
| `timer` | How long does the poller wait for memcached (`ReadBudget`, `WriteBudget`) and between rounds (`SleepBounded`, `IntervalKept`), when the clock may be set? Does it go round, if no reply is without end (`RoundsGoOn`)? | 2 uris, one of them the probe with its longer session; 2 pieces; the clock set once a round by more and by less than a timeout, either way |
| `config` | `Usable`, `OwnTimes`: is whatever is started fit to run, with its own times? `BoundAsLookedUp`: what can a front end bind to, with threads that share the result of `gethostbyname`, and names whose address changes? It is an answer to its own lookup, or to one made between that and the copy; never an older one, never none. `Settled`: does each front end come to accept, or the process end? | 2 mappings with 5 statements between them (one complete, one that relies on what is left of it, in any order and with any statement repeated), one uri statement; numbers that are octal, that wrap to positive and to negative, and that are none; a port that wraps to 0; two names, of which one fails at times and the other has two addresses, a dotted address, and an unknown name |
| `pages` | `AddressWhole`, `NamesRight`: what of the shared buffers can be relied on? `RedirectHonest`, `PageTrue`: do answers say what the reporter did and has? `LinkFollowed`, `CodecInverse`: do links lead where they say? | 2 threads and 2 requests, one crossing the other or following it; 3 back ends, two of them at one address; all keys of up to two of four characters (a plain one, `%`, `&`, `+`), and three more: an escape, `ops`, a name of a parameter |
| `old_list` | violated: the comment at 861, "nuke old ones on error" | |
| `desync` | violated: `ListsTrue` with a full send buffer | |
| `no_socket` | violated: `sp_memcache_connect` returns 0 without a socket | |
| `starved` | violated: polling goes on whatever clients do | 2 clients, no faults |
| `front` | Do connections mix? Is a number closed by whom it belongs to, though numbers go round and a poller opens and closes (`ClosedByOwner`)? Does the front end implement `Sessions`? Is a waiting request answered (`Served`), does a descriptor come back (`Reclaimed`), is a connection that meets a full table accepted in the end (`Admitted`)? | 2 connections (one comes while the other is served, and takes over its number), 1 poller that opens and closes at will, a table of 2 numbers for 3 sockets so that it is full at times, 2 requests per connection (the second may be sent ahead), a request that keeps the session and one that ends it |
| `reports` | With every kind of request and every failure of a query: is a socket left behind other than the known one (`Accounted`)? Does the conversation go on as `Sessions` says? | 1 connection at a time and no poller, so that the second `close` hits nothing; 3 numbers, so that the sockets `mcr_updateInstances` leaves fill the table and `socket` and `accept` fail |
| `double_close` | violated: `ClosedByOwner` with two connections and queries to the reporter | |

The "violated" runs check one property each, which a comment or a document of the
repository states.

`Retries` is 0 or 1 instead of 5: a retry differs from the next only by its count. Two runs
let the system stop (`CHECK_DEADLOCK FALSE`): a process that has exited, or whose threads
all accept, does nothing more in `config`, and in `pages` the bound on requests is used up.

Fairness. `FairSpec`: the poller and a client in the middle of an answer take a
step when they can go on doing so (threads are scheduled, `poll` times out), and
a client that waits for the lock gets it if it is free of writers again and
again; glibc's default lock lets a reader in whenever no writer holds it, and the
poller holds it only for two list operations. Nothing makes a client ask.
`LockFairSpec`, for the run that refutes `PollsForEver`, is even kinder to the poller: it gets
the write lock if it is free again and again.

In `Frontend`, `FairSpec`: the accept loop and the threads are scheduled, and a
client hangs up eventually; nothing makes one ask. `Admitted` is stated under
the premise that the pollers leave the table alone from some time on, since a poller
may otherwise take every number that comes free before the accept loop wakes up.

In `PollTimer`, `FairSpec`: time passes, and the poller's thread takes a step once
the call it is in has reached its limit; nothing makes memcached act earlier. In `Startup`,
`FairSpec`: threads are scheduled and `startProxies` goes on; nothing makes the file end or
anybody send SIGHUP. `Settled` is stated from the time the thread of a front end exists.

### What the violation runs show

- `desync`: `sp_memcache_write` sets `err` to `EWOULDBLOCK`, waits, writes the rest,
  and returns that `err`. `getStat` skips the reply, which stays in the socket and is
  parsed as the reply to the next uri. The round's end closes the connection, which
  is why `FirstListTrue` holds all the same.
- `old_list`: `getStat` does not touch the list when the command cannot be sent.
- `no_socket`: `err` is still 0 when `socket()` fails.
- `starved`: readers that overlap leave the lock never free, and it prefers readers.

- `double_close`: `mcr_connectRemote` opens a `FILE` on the number of the socket; at the
  end of each query `fclose(fp)` closes the number and `close(fd)` closes it again (293 and
  its siblings). In between, the accept loop or a poller may be given that number. The
  comment at 757, "close the socket and exit this thread", tells who closes a connection.

More disagreements are visible in the models and have no run of their own. A
reply longer than `MAXSTATSZ` that times out after its first buffer is published
in part (`ListsTrue` therefore allows a list to lack its end), and so is one cut by
a close, which `read` returning 0 at 305 takes for the end. A reply longer than `MAXSTATSZ` has a line
changed or lost, or garbage, at each cut (`LostAtCuts` is how much), and one whose END is torn is read until
the timeout. For the reason of
`desync`, the health list can say liveness 0 for a probe memcached stored. And
`checkAndConnect` sets `CONNECTING` at every uri even while connected, so a client
that comes at that moment is refused by a healthy backend, for HTTP with the text
"Error getting stats from remote memcached: Success". A memcache client that is refused without
the lock (532, 673, 686, 723, 749) may be told "ERROR (host:port - Success)" as well, since the poller may clear
`last_error` (442) between the two reads of it; `ErrorNamed` is about the caller at 538 only.
The probe is served once: of two `health` uris, which `addGlobalUri` takes, the second is never found;
the model has one.
`mcr_updateInstances` opens a socket (169) that `mcr_connectRemote` replaces by its own
(140), so each page of the configuration loses a descriptor; `Accounted` excepts it by name. The uris
`reporter`, `top-keys` and `top-clients-key` are registered for `reporterCallback`, which
answers 404; `top-clients-keys` has a page and is not registered. `statsCallback` and
`imageCallback` compare the whole uri, so one with parameters is found and then refused.
An unknown method is refused in the format of the request before it, in memcache
format at the start; `Sessions` leaves the format of such an answer open. A telnet client is disconnected
by any refusal. A failing `fdopen` leaves `clnt` allocated.

In the clocks: `poll` in `sp_memcache_write` waits for the whole timeout each time, so a
write may take nearly twice as long as `README.txt:112` says (`WriteBudget`). `usleep` is given
32 bits of microseconds: with a poll interval above 4294 seconds the poller sleeps for the rest
of a division, 500 seconds for a day, and `IntervalKept` fails. `sp_memcache_read` asks for the time only when
there is nothing to read, so a reply without an end is read for ever, and no round begins
again: that none comes is the premise of `RoundsGoOn`.

In the configuration: `front-end`, `back-end` and `memcache-reporter` of a mapping stay in
`settings->local`, so that "Missing front-end" and "Missing back-end" are said of the first mapping only; a later
one silently takes what it lacks from the one before. `yyparse` giving up is reported, and what
was read until then is started. Two front ends at one end may both bind, and the one that listens
second is never heard of again, nor is one whose thread was not created. Front ends with different names that
start together may bind to each other's address, since `gethostbyname` is shared: `BoundAsLookedUp` says to
whose. A front end binds to what its name leads to when the thread starts, not to what `addProxy` was told.
`Settled` excepts a front end that lost its end to another between `bind` and `listen`, since nothing notices it.

On the reporter's pages: `mcr_getAddr` clears its cache before it looks at it, so it is never used, and
while one thread clears it another may copy it half filled (`AddressWhole` is about threads
that are not crossed). `addr2host` says "single threaded!" and is called by the threads of all
clients; `NamesRight` is about a thread in whose lookup no other wrote there. Instances are compared by address only, so a second memcached on a machine is
not shown as off once the first one is on, and cannot be enabled there. `ERROR` and a connection that breaks off
count as the end of the list of instances: a page then shows as off what is on (`PageTrue` asks for the
whole list); top keys and top clients that break off (241, 327) are printed as if complete. `key_href` encodes the key, throws that away and prints the key itself, so a key with `%`, `+`,
`&` or `?`, or with the name of a parameter in it, leads elsewhere (`LinkFollowed` is about the others).
A browser would cut the link at a `#` or a quote in a key as well; the model has the uri that the program is sent.
A key that is called `ops` asks for the clients of all keys.

## The proofs

`BackendProofs` proves, from `StatsMcAssumption` and `BackendAssumption` only (a
non-empty list of uris with the probe at most once, positive sizes, any set of
faults, any set of clients):

- `TypeCorrect`: `Spec => []TypeOK`. The lemmas before it state what each operation
  of `StatsMc` returns; the poller's step is split by action.
- `InvHolds`: `Spec => []Inv`. The properties are not inductive by themselves: that a
  page is not disturbed needs to know that the poller writes only between `LockForUpdate` and
  `AddNewStats`, that it holds the lock there, and that nobody reads then. `LockInv`
  says so by the positions of the threads; `UpdateInv` says the backend is `POLLING`
  while it updates and that the list is empty before it is filled; `UnprintedInv` that
  a page starts empty.
- `PagesIntact`, `StateHeld`: from `Inv`.
- `ErrorsNamed`: under the read lock, if `socket()` does not fail. The poller clears `last_error` only while
  `POLLING`, and cannot get there while a client reads; `no_socket` is the exception, and the callers of
  `clntError` that hold no lock are another, of which nothing is claimed.
- `ImplementsBuffered`: `Spec => BufferedView`. `RemoveOldStats` is the abstract
  publication, `PrintEnd` the abstract delivery; both ask for `Inv`.

`FrontendProofs` proves, from `FrontendAssumption` only (a size of the table, a bound on
requests, requests that are records):

- `FrontTypeCorrect`: `Spec => []FrontTypeOK`, with any requests and faults. The types of
  `treq` and `tans` are not inductive alone: `ThreadInv` adds that a thread that
  serves has its request, and one that is past the callback its answer.

- `SocketsAccounted`: `Spec => []Accounted`, with any requests, faults, pollers and number of
  connections. It survives the second `close` of a number: that only frees a socket more. With `Lined`,
  that a connection is queued once and has no thread while it is, it is inductive.

The next three are about `CalmSpec`, which is `Spec` without the steps that give away a number between the two closes
of a query (`Reused`). Without that premise they are false, as `double_close` shows; with it they hold for any number of
connections, pollers and queries, so the second `close` is the only way in which connections come to mix.

- `DescriptorsOwned`: `CalmSpec => []Owned`. Inductive with `Lined`, with its converse (`Held`: no number
  stands for the connection of a thread that does not hold it, or a close would free one
  number of two), and with what the number of a query stands for until its last close: the query's socket, or nothing.
- `OwnersClose`: `CalmSpec => ClosedByOwner`, from the same invariant.
- `ImplementsSessions`: `CalmSpec => SessionsView`. `Talk` adds what each place in a thread knows of
  the conversation: nothing was said before the first read, no ending answer was given while the
  thread goes on, one was (or the client left) when it closes, and the answer in hand is to the
  request in hand, in its format. Each action then maps to one of `Sessions` or to
  a stutter; `Head`, `Tail` and concatenation of the inbox take lemmas of their own.
  Each step of a query is a stutter, and leaves its thread on the way to one answer (`TalkByQuery`).
- `NeverReused`: `Undisturbed => (Spec => CalmSpec)`. The premise is met if no request is for a page of the reporter, as in
  `front`, or if there is one connection and no poller, as in `reports`; so there `UndisturbedHolds` has the
  three results of `Spec` itself.

`PollTimerProofs` proves, from `PollTimerAssumption` only (positive times and counts, any
set of amounts by which the clock is set):

- `TimerTypeCorrect`, `ReadsInTime`, `WritesInTime`, `PauseBounded`: from `TimerInv`, which is
  inductive. The budgets alone are not: what a wait may take depends on what the session thinks
  remains. `SessionInv` says that the session's clock is ahead of the time waited but for what it
  was set (`start >= waited - drift`), so that what is thought to remain is no more than what does,
  and that both are zero outside a session. The step is split by action, four times: types, session,
  round, budgets.
- `IntervalIsKept`: `Spec => []IntervalKept` if `PollFreq < UsecSpan`, with `RoundInv`: while nobody sets
  the clock it tells how long the round is. Without the assumption it is false, see above.

`WireProofs` proves, from the assumptions of `Backend` only, what the lists hold, with replies of any
length and a buffer of any size. The properties
speak of a list just before it is published; what makes them true is the state of the stream
before, line by line:

- `ListsStayInStep`: `DriftSpec => []ListsInStep`. `LinesInStep` says by the poller's position what is
  unread: between two commands nothing; during a command, that what was parsed, what is in the
  buffer and what is unread come from a single reply to this uri from one snapshot
  (`InStep`), or are an answer of one line (`Refused`). `DriftInv` is that this holds while `drift` is
  not set. `InStep` has two parts. `Stream`, for any reply: the lines are in order, from the list through the buffer to
  the socket, and whatever is between them is a piece. `Whole`, for one that fits the buffer: the three
  are consecutive parts of what memcached said (`Said`, `Follows`). That a full buffer is only parsed with a second one to come if
  it began with a stat (`Begins`) is needed for the case that the parser gives up, which must leave nothing
  unread. Each system call, and each turn of the line loop, is a lemma; that a torn line keeps its place among the others is
  `TornLine`, `Divided` and `ArrivalsInStep`.
- `FirstListIsTrue`: `Spec => []FirstListTrue`, without the history variable. The end of a round closes the
  connection, so at the first uri `LinesInStep` holds whatever happened before (`FirstInv`).
- `ProbesHonest`: `Spec => []HealthHonest`, also out of step. A `STORED` can only be unread after the one
  probe of the connection (`StoredInv`), which needs that the list of uris has the probe once, and
  no line of a reply becomes an entry of liveness (`BuildingInv`).

`Induction` makes induction possible without a theorem that takes an operator: the hypothesis is a set.
That `<` is well-founded on the natural numbers (`NatLessThanWellFounded`, `WFMin`) is a fact about sets, so a set of
them has a least element (`LeastOf`), and a set that has 0 and with each number the next has all up to a bound
(`Along`), or the other way down (`Back`). A recursive function is then first shown to exist
(`ValueExists`, `JoinedExists`, `DecodedExists`), after which its equation can be used.

`StartupProofs` proves, from `SettingsAssumption` only (hosts, spans of integers
and numbers of any size, a number being a text; the defaults are ints above zero). That what the lexer takes for
a number has a value that is a natural number is `ValueType`, by induction over its digits:

- `StartupTypeCorrect`, `ProxiesUsable`, `TimesAreOwn`: `[]StartupTypeOK`, `[]Usable`, `[]OwnTimes`. A
  proxy is made of `settings->local`, so the properties of the list are inductive only with `MappingInv`: inside
  a mapping each time of that record is above zero, and is what this mapping wrote, or the default if it wrote
  none. A time that is not above zero takes the parser out of the mapping, and a port of zero fails
  `Missing`. The step is split by statement of the grammar.
- `BindsAsLookedUp`: `[]BoundAsLookedUp`, for any number of threads, names and answers, with `ThreadInv`: what a thread between its
  lookup and its copy finds in the shared result is an answer to one of those it has `heard`.

`CodecProofs` proves, without an assumption, what the functions of `UriCodec` do to texts of any length:

- `RoundTrip`: `uri_decode(uri_encode(s)) = s` for every sequence `s`. The code of the text is made of the codes of its
  characters, each at its place (`EncodeSteps`, `CodePlace`); `uri_decode`, from the last of these places to the
  first, gives back the rest of the text (`DecodeSteps`, `EscapedBack`, `Back`).
- `InstanceLinkRead`, `KeyLinkRead`: what `reporterCallback` reads from the link to a page of an instance, or of one of its
  keys if the key is plain, is what the link was made of. A parameter is searched for anywhere in the uri and the last one
  counts, so the proof has to know all places where one is found (`FoundIn`, `KeyNamed`) and where its text ends
  (`StringUpTo`, `DigitsAll`). The names and addresses only have to be none of the characters and words these functions look for
  (`Unmarked`). `AnyKeyLink` is what remains for any key that holds no `addr`: the page and the address (`DecodeTail`).

`ReporterProofs` proves, from `ReporterAssumption` only (back ends that have an address and a port, finitely many
instances, any texts as keys, any number of threads and requests; an address, as `inet_ntoa` prints it, is none of
the characters that mean something in a uri). An address that is read from a link may
be anything, since a key may hold `addr=`; lists are therefore sequences of whatever they hold
(`Shape`), and the first four theorems assume nothing of what comes out of `Parsed`.

- `RedirectsHonest`: `[]RedirectHonest`, inductive with `Shape`.
- `AddressesWhole`: `[]AddressWhole`. `GetAddrInv` says which fields `mcr` has at each step of `mcr_getAddr`
  for a thread that was not crossed; a step of another thread either leaves `mcr` alone or crosses it.
- `NamesAreRight`: `[]NamesRight`, likewise: `NameInv` follows the name from `hostent` to `hostname` to the row.
- `PagesTrue`: `[]PageTrue`. A page is right when it is printed, and the two loops that make its list have an
  invariant each: while the reporter's list is gone through, each of its entries is in a row that is on or still
  to come (`ReplyInv`); while the back ends are, each of their addresses is in a row or still to come, and one
  that has a row that is off has no other (`ProxiesInv`), because `isInList` was asked before.
  That the page has one row off if none is on follows from the address of the proxy being that of a back end.
- `LinksFollowed`, `KeysComeBack`: `[]LinkFollowed`, `[]CodecInverse`. `LinkInv` is about the threads that asked: the key is a
  text, and the uri, decoded, is read as it was meant if the key is plain. Each kind of click keeps it by a theorem
  of `CodecProofs` (`ConfigRead`, `AboutRead`, `ClientsRead`), and no other action makes a thread ask.
- `TypesHold`: `[]ReporterTypeOK`, if no key holds `addr`. Then what a thread works on makes sense (`Sensible`): the page about
  an instance, or about an address of the program's, even if the port is one that the key gives. Without the
  premise it is false, since a key with `addr=` makes the page look up any text.

Only model-checked: the liveness properties (`Answered`, `PollsWhenUnread`, `RoundsGoOn`, `Settled`, `Served`,
`Reclaimed`, `Admitted`), which are beyond the prover, and `LostAtCuts`, for which an
inductive invariant would have to count what each cut may cost. Every other invariant and every action property of a passing run
is a theorem; where one has a premise (`CalmSpec`, `PollFreq < UsecSpan`, no key that holds `addr`), it is said above why.

## Plan

1. Done: `StatsMc`, `Backend`, `BufferedStats`, with proofs.
2. Done: `Frontend`, `Sessions`, with proofs.
3. Done: `Reporter`, `UriCodec`.
4. Done: `Settings`, `Startup`.
5. Done: `PollTimer`, with proofs; `MCWire`.
6. Done: `StartupProofs`, `WireProofs`, `ReporterProofs`, `Accounted` in `FrontendProofs`.
7. Done: the theorems of `FrontendProofs` with queries to the reporter, in `CalmSpec`.
8. Done: `Induction`, `CodecProofs`, and with them the theorems on links and on types in `ReporterProofs`; the value of a
   number in `StartupProofs`.
9. Left: nothing that the prover can reach is known to be missing; what is model-checked only is listed above.

## Not modelled

HTML layout, the image, `syslog`, the `TAILQ` macros (sequences here), the wording of
answers, allocation failure (`alloc_fail_check` exits), `exit(1)` when a client's thread
cannot be created. `FAULT`, a value of `backend_state` that nothing assigns; `del-all` and
`addLocalUri`, which nothing calls. `statsAge` and `respTimeMs`, which are printed and decide
nothing. What `main` does without a configuration file.
