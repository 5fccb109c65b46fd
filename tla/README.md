# Verification of fty-discovery-ng

fty-discovery-ng discovers power devices (UPS, ePDU, ATS). A REST module in tntnet sends
a request over the Malamute bus to an agent; the agent runs one of three jobs on a pool
of threads and replies. This directory holds TLA+ models of that program, the TLC
configurations that check them, and TLAPS proofs about each of them.
Paths below are relative to the repository's root.

## 1. Inventory

| part | code | state it keeps | operations | what makes it correct |
|---|---|---|---|---|
| bus wrapper | `common/message-bus.{h,cpp}` | `m_mutex`, the bus handle, `m_actorName` | `init`, `send` (request and wait 10 s), `reply`, `subsribe`, `recieve` (never called) | a caller gets its own answer, once, or a failure, and always returns |
| messages | `common/message.{h,cpp}` | `meta` (to, from, subject, correlation id, status), `userData` | conversion from and to `messagebus::Message` | what one end writes the other reads: addresses, status and payload |
| REST handlers | `rest/src/{asset,mibs,protocols}.cpp` | none; a bus of its own per request, all named `discovery_rest` | permission check, decoding, `send` | as for the bus wrapper, though the name is shared |
| dispatcher | `server/src/discovery.{h,cpp}`, `main.cpp` | `m_pool`, `m_bus`, `stopEvent`, `Config` | `loadConfig`, `init`, `run`, `discover`, `shutdown` | every request becomes at most one task; none is there when `m_bus` goes |
| tasks | `common/discovery-task.h` | the request, a pointer to `m_bus` | `operator()`: decode, `run`, one reply, also for an `Error` | one reply, which fits the request |
| daemon | `common/daemon.{h,cpp}`, `main.cpp` | the signal handlers, two events | SIGINT (once), SIGHUP, `daemonize` | a SIGINT ends the service; the daemon still serves; nothing is left in /tmp |
| configuration | `server/src/config.h`, `discovery.cpp` | `Config::instance()`, shared by all workers | `loadConfig`, at start and on SIGHUP | all the file has a key for is of one version; one job sees one of them |
| protocols job | `server/src/jobs/protocols.cpp`, `impl/ping.h` | the list being made | three probes: XML_PDC, SNMP, GenApi | lists what the device speaks, all of it, in order |
| HTTP and XML | `impl/neon.{h,cpp}`, `impl/xml-pdc.{h,cpp}` | the tree of `NeonNode`s, `m_current` | `get`, `Parser`, `NeonDeserializer` | a body cut short confuses nobody; no dangling pointer is followed |
| MIBs job | `server/src/jobs/mibs.cpp`, `impl/mibs.cpp` | the MIB set, `m_isOpen` | `readName`, `read`, `sortMibs` | the list is the device's; a silent device is given up early |
| SNMP session | `impl/snmp.{h,cpp}` | `m_sess`, `m_handle` | credentials, `open`, `read`, `walk` | opened once; a walk ends; it asks as the driver does |
| assets job | `server/src/jobs/assets.cpp` | `m_params` | reads the MIBs, runs the driver; `parse`, `enrichAsset` | the answer is whole, each device has its own values, and its uuid is its own |
| NUT driver | `impl/nut/process.cpp` | `m_root` in /tmp, the child process | `init`, credentials, `run`, destructor | directories are private and removed; drivers do not hang the others |
| mapping | `impl/nut/mapper.cpp` | a static table | `mapKey`, `mapping` | complete whenever it is used |
| asset ids | `impl/uuid.cpp` | none | a name-based UUID, or a random one | the same device is the same asset |
| command documents | `common/commands.h` | none | none: declarations of fields | (nothing) |

**How they interact.** REST handler -> (bus message) -> Malamute mailbox -> the bus
library's listener thread calls `Discovery::discover` -> `ThreadPool::pushWorker` ->
a worker calls `Task::operator()` -> the job -> `MessageBus::reply` -> Malamute ->
the handler blocked in `MessageBus::send`. The jobs call SNMP, HTTP, UDP, the
security wallet's socket and a child process, all of them blocking their worker.
What workers share: `m_bus`, `Config::instance()`, the static of
`Mapper::mapping()`, and /tmp.

**What is hard.** Late replies and shared actor names; stopping while requests still
arrive; crashes and restarts (`Restart=always`) with requests in every place;
exceptions that are not `Error`; waits longer than the caller's ten seconds;
walks whose end depends on the SNMP version; ICMP errors racing four writes; HTTP
bodies cut short; drivers that fill a pipe nobody reads; a lazily filled static;
a configuration rewritten by a signal handler under its readers; signals before anybody
listens; forks that lose threads; keys of device 10 that start as those of device 1;
vectors that move what is pointed to. `PROJECT.json` lists these hazards at their
lines, each with the properties that cover it or the reason why none does.

Not ours, and modelled only by how this code uses them: Malamute and
`messagebus::MessageBus`, `fty::ThreadPool`, `fty::Process`, `pack`, net-snmp, neon
and expat, the wallet, the NUT drivers, the kernel. Such definitions are marked
`external` in the map.

## 2. Modules

| module | role |
|---|---|
| `RequestReply` | abstract: what the service promises a caller |
| `DiscoMessage` | pure: a message on its way through the bus library |
| `Discovery` | the request path end to end, implements `RequestReply` |
| `DiscoveryProofs` | theorems about `Discovery` |
| `Lifecycle` | the process: main, signals, the configuration and who reads it |
| `LifecycleProofs` | theorems about `Lifecycle` |
| `MibsReader` | MIBs job and SNMP session, and the assets job up to its MIB |
| `MibsReaderProofs` | theorems about `MibsReader` |
| `ProbeJob` | abstract: what a job that looks a device over in several ways promises |
| `Protocols` | the protocols job, implements `ProbeJob` |
| `ProtocolsProofs` | theorems about `Protocols` |
| `SnmpCredentials` | pure: the two translations of a wallet document |
| `AssetAttributes` | pure: from a driver's output to the assets of an answer |
| `AssetsJob` | the assets job after its MIB: directory, driver, mapping, answer |
| `AssetsJobProofs` | theorems about `AssetsJob`, `AssetAttributes` and `SnmpCredentials` |
| `NeonParser` | the XML parser, down to the memory its nodes live in |
| `NeonParserProofs` | theorems about `NeonParser` and its memory |
| `FlatSequences` | lemmas: what `FlattenSeq` makes of sequences of any length |
| `NeonTreeProofs` | theorems about the tree that is read back |
| `MCDiscovery`, `MCLifecycle`, `MCMibsReader`, `MCProtocols`, `MCAssetsJob`, `MCNeonParser` | instances for TLC |

`Discovery` leaves open what a job computes (`Outcomes`): any result, an error, or an
escaping exception. The three job modules open that up, each for the part of the
program a job runs in. `AssetsJob` in turn leaves open how MIBs are read
(`ReadMibs`), which is what `MibsReader` models with `job = "assets"`. `Lifecycle`
sees of a job only what it reads of the configuration, and of the request path only
that a request waits. `Discovery`, in turn, has the process as five phases.

### 2.1 Discovery

A *call* is one call of `MessageBus::send` and everything it causes, so one
identifier follows a request from its caller through mailbox, queue, worker, reply
and back; what a name or an id can confuse is kept apart: `BusOf` says which bus
object a call goes through, `NameOf` the actor name of a bus, `MessageOf` the
`Message` object that is sent. The correlation id is made once per object
(`message-bus.cpp:53`), so the object stands for it.

| state | in the code |
|---|---|
| `phase`, `starts` | where `main` is: not running, `run()`, `shutdown()`, returned from it, `m_pool` destroyed |
| `mailbox`, `replies` | messages in the broker |
| `queue`, `exec` | tasks of `m_pool`: waiting, and taken by a worker |
| `verdict` | what `Task::operator()` made of a request: a response, or an exception that escaped |
| `sent` | attempts of `sendReply` |
| `stage`, `input`, `got` | the caller: where it is, what it asked, what it was told |

`Call`/`Reject`/`ConnectFails`/`Send`/`SendFails`/`Accept`/`Timeout` are the calling
side; `BusFree` is `m_mutex`, held during the whole wait. `LoseRequest` and
`DropReply` are the broker's. `Start`, `StartFails`, `Stop` (SIGINT), `Joined`
(`m_pool.stop()` has joined), `DestroyPool`, `Exit` (`m_bus` goes, main returns) and
`Crash` are the process. `Discover` is `Discovery::discover`, which looks at the
subject only and also runs after the stop event, because the subscription lasts as
long as `m_bus`. What it pushes to a pool that stops or has stopped may be run, kept
or forgotten; members are destroyed from the last to the first, so the pool goes
before the bus, and what is pushed to it after that is undefined: the task is gone,
or (`Crash`) the process is. `Take`, `Run`, `Escape`, `ReplyTo`,
`ReplyFails` are a worker's. `Escape` either frees the worker (a pool that catches)
or ends the process (one that does not): the pool is not in this repository.

A reply is in the broker as `DiscoMessage` writes it: the status is a word
(`StatusText`) that `Message`'s constructor reads back (`StatusOf`; an unknown word is
Ok), the payload the only element of a list. `Accept` reads it.

Restarting is `Crash` or `Exit`, then `Start`. Nothing is persisted, so queue and
running tasks are gone; mailbox and replies survive in the broker.

### 2.2 Lifecycle

| state | in the code |
|---|---|
| `pc`, `ended` | where `main` is, and how the process ended |
| `config`, `load` | the fields of `Config::instance()`, by the version of the file they are of, 0 for a default; the calls of `deserializeFile` under way, in main or in a handler, and the field each is at |
| `handled`, `fired`, `resetting` | signals with a handler; the stop event; handlers that have fired it and not yet put SIGINT back to its default |
| `pool`, `pending`, `job` | the pool's threads, a request, what each worker's job does |
| `database`, `seen` | what SNMP was initialised with; what a job has read of the `Config` |
| `tangled`, `latest`, `apart`, `reloaded`, `swallowed`, `litter` | history the properties speak of |

`Construct` is the `Discovery` object: its pool, and `Daemon`, which installs the
handlers; `Connect` connects the events, so a signal between the two is handled for
nobody. `LoadStep` is `loadConfig` in main, `InitSnmp` `Snmp::init`, `InitBus` is
`Discovery::init`, `Wait`/`Wake` are `run`, `Shutdown` is `shutdown` and the return.
A signal is handled on any thread there is, main's, a worker's, or the `Listener` of
the bus library once `InitBus` has connected, between any two of its steps; the thread
goes on when the handler is done (a `Request` waits for one on the listener's). A handler of SIGHUP is a load of its own
(`ReloadStep`), field by field in the order of `META(Config, ...)`; two of them may
overlap, and one of a file in `Bad`, half saved, say, may fail anywhere. A version of the file need not have a
key for each field (`Holds`): `try-all` is in neither `server/conf/discovery.conf.in` nor
`test/conf/discovery.conf`, and a load leaves such a field as it was (`Writes`), at its
default or at what an earlier load made of it. Reading a field that is being
written yields anything (`Torn`). `Daemonize` keeps the thread that forks and no
other: whether `fty::ThreadPool` makes its threads at once or for the first task, and
whether `fty::Event` remembers that it was fired, is not in this repository, so both
are allowed. SIGTERM has no handler.

### 2.3 MibsReader

One job on one worker against one device. Every SNMP request is two steps, sending
it (`AskGet`, `AskNext`) and hearing of it (`Hear`) or not (`Miss`), since anything
may fail in between. `pc` follows `readName` (`name`), `read` (`oid`, then `known`
or `walk` depending on `Config::tryAll`) and what the jobs do with the list
(`chosen`). A device is an object id or none, the known entries it answers, and the
MIBs of its objects in the order of GETNEXT. `version` is what the credentials made
of `m_sess.version`.

`*mibs->begin()` in the assets job is any element of the set: which one is first
depends on spelling only. The driver is told NUT's name of it, `MapMibToLegacy`, over
the whole table of 33 rows (`LegacyRows`), of which only the first of two equal keys
counts.

### 2.4 Protocols

One job against one device. A device is described by what its web server and its
port 161 do; answers may be lost (`ProductLost`, `PropsLost`, `PowercomLost`) or cut
(`ProductCut`). A body that is truncated, or whose read times out, is a success for
`Neon::get`; if it ends before the summary page's address it still names the card, and
the home page is read instead; if it ends later it is as good as a whole one. So every
request may stall, whatever comes of it (`MayStall`). Writing to UDP is modelled with the kernel's rule: an ICMP error becomes
pending on the socket, the next write returns it and clears it. `found` is the list
in order, `lost` remembers whose probe was disturbed, `stalls` how many requests
have waited for one of neon's timeouts.

`ProbeJob` is the job without pages and datagrams: ways that are tried once each, in any
order, and one answer made of those that worked. A protocol counts as tried (`triedBar`)
once `pc` is past its probe, and as working if it is listed by then; the answer is `found`
once it is told.

### 2.5 AssetsJob, SnmpCredentials, AssetAttributes

Several jobs on several workers. `root` and `dirs` are /tmp; `reader` is the session
the MIBs are read with, `given` what the driver is told of credentials and port;
`driver`, `output`, `pipe` are the child process, what it prints and the pipe it
writes to, which holds `PipeSize`; `mapping` is the static of `Mapper::mapping()`.
Filling it takes two steps, because `hasValue()` is true from the first of the two
fields on. A data race on it is a free choice of outcomes (`Loaded`, `Names`).
`Cleanup` is the destructor, which runs on every way out.

`SnmpCredentials` has both translations of a wallet document side by side:
`snmp.cpp`'s into net-snmp's numbers and protocols, `process.cpp`'s into the driver's
arguments, with what each does for values neither knows. Ports are cut to 16 bits
where the code casts them (`Narrow`), and have their defaults where the code has them
(`Port`, `DriverPort`).

`AssetAttributes` is `parse` and `enrichAsset` as operators: an output is a sequence
of lines, a key its chain number, its name and the number in the name, all as
digits, so that 1 and 10 share a prefix as they do in text. Several names may make one
attribute; the code takes the first of their entries in the order of the keys, which
`ext` does not keep, so `Find` takes a fixed one. `Parse` splits a chain,
looks each key up and enriches each asset: type, uuid, power, endpoint, daisy chain.
The SHA-1 of a uuid is replaced by its argument. The uuid is a field of its own in an
asset, since `enrichAsset` always adds exactly one and nothing looks it up again.

### 2.6 NeonParser

`heap` maps blocks of memory to the nodes in them; a node is addressed by block and
index, as a C++ pointer is. `EmplaceBack` is `std::vector::emplace_back` with
libstdc++'s growth: at sizes 1, 2, 4, ... the nodes move to a fresh block (the move
constructor keeps their own vectors) and the old block is gone. The actions are
expat's callbacks; `Parsed` may come at any time. `doc` is a history of what was read.
The attributes of a new element (`AddAttrs`) come in one vector at once: nothing points
into it while it grows, so only its last block can matter. `Reading(h)` is what is read
of the blocks `h`, a node and then what is below it, as `NeonNode::dump` and
`NeonDeserializer::visit` go; it is a recursive function of the levels left (`Levels`,
one more than `MaxDepth` for the attributes), so that it can be proved about.
`FoundField` and `ItemsOf` are how a field and a list are looked up.

## 3. What the runs check

`tlc -config <cfg> <module>` in this directory; all within a few minutes.
Expected violations are disagreements between the code and what is said of it.

| run | bounds | result |
|---|---|---|
| `discovery_safety` | 2 REST calls sharing a name, 1 direct user; 2 workers; 2 starts; good, bad and foreign requests | holds, 622 000 states |
| `discovery_live` | 1 REST call, 2 calls on one bus; 1 worker; 1 start | holds, 65 000 states |
| `discovery_resend` | 2 sends of one `Message` object | `AnswerIsOwn` violated |
| `discovery_stop` | 2 calls, 1 worker | `StopStopsDispatcher` violated |
| `mibs` | 2 jobs, 5 devices, 5 sets of credentials, a MIB asked for or not, try-all or not, 3 known entries, the whole table of names | holds, 6 000 states |
| `mibs_endless` | the same | `JobEnds` violated |
| `protocols` | all 512 devices, `__fake__` or not | holds, 77 000 states |
| `protocols_late` | the same | `ClosedPortIsRejected` violated |
| `protocols_order` | the same | `XmlPdcIsPreferred` violated |
| `assets` | 2 jobs, 6 requests with their drivers' outputs: a single device, chains of 2 and of 10, and one that fills its pipe | holds, 362 000 states |
| `lifecycle` | 1 worker, 2 signals, 2 versions of the file: a whole one, and one without `try-all` that may fail to load | holds, 233 000 states |
| `neon` | documents of up to 7 nodes, 3 deep, 2 tags, up to 2 attributes | holds, 540 000 states |

**discovery_safety.** `AnswerIsOwn`: whoever is told a result is told that of its own
request, in spite of shared names, late replies and restarts, so only the three subjects
are answered. `ServedAtMostOnce`: a request is in one place, never served twice and
never replied to twice. `NoTaskWithoutBus`: tasks point to `m_bus`, requests are pushed
to the pool until it goes, and yet none waits or runs then, because `m_pool` is declared
after `m_bus`. `ResultIsFinal` (action property): a reply after the timeout changes
nothing. `ImplementsRequestReply`: all of it together is what `RequestReply` allows,
which it also is of the words a status becomes. Two calls of one name and one of another
are enough for every confusion of two replies; a third party that shares neither is the
direct user; two workers give every overlap of tasks, two starts a crash or stop with
leftovers from before it.

**discovery_live.** `EveryCallReturns`, also behind a held mutex; `QueuedIsServed`;
`StopCompletes`: the process ends though requests keep being dispatched (finitely many:
each call is made once), and whatever a stopped pool does with them.

**mibs.** `OpenedOnce`: `readName` and `read` share one session. `GetBudget`: how often
a device is asked, whatever is lost, and that a silent one is given up after the first
request. `ListFitsDevice`: something is listed, since both jobs take the first of the list
without looking, and nothing the device did not name, with one exception the code has:
when SNMPv3 walks a device with nothing to walk, the root of the walk is listed.
`DriverMibIsExact`: a driver is told a name only for the very MIB the device, or the
request, names. `JobEndsWithoutV3Walk`.

**protocols.** `WebServerIsNotMistaken`, `ClosedLocalPortIsRejected`,
`NothingIsMissed` (the probes are independent), `StallsAreBounded`: a
stalling web server holds a worker for three requests at most, and for two unless it has
said that it is a supported card. `ImplementsProbeJob`: no way through the probes skips one, makes one twice or
takes back what one found, and the answer is told once, is made of all that was found,
and is by rank.

**assets.** `DirectoriesAreOwn`; `DriverSpeaksAsReader`: two pieces of code choose
version, level, protocols and port from one request, and agree; `EndpointIsReached`:
the answer names the port the driver asked at, with the exceptions it states, and an
epdu knows its place in the chain. `AnswerIsWhole`: an answer has all the driver
printed for a device, unless workers met in an unfilled mapping, and nothing else, in
a chain too. `IdentityIsStable`: two jobs never give one device two uuids, whatever
they saw of the mapping, provided the device has one manufacturer, one model and one
serial number, under however many names it prints them (the instance has a device that
prints two manufacturers, for which it fails). `OthersEnd`: a hanging driver holds only
its own worker. Two jobs are enough for every race on a static that is filled once
and for every clash of directories; ten devices for two numbers with one prefix.

**lifecycle.** `QuietConfigIsWhole`: after a load that met no other and did not fail,
every field its version of the file has a key for is of that version. `JobSeesOneConfig`:
a job no load met reads one version in both places, as far as that has the keys.
`OneDatabase`: reader and driver use one MIB database until the first SIGHUP.
`OnlyKillsLitter`: only a process that is killed leaves directories.
`InterruptsGetThrough`: however stuck, the process survives no more SIGINTs than it has
had threads. `InterruptEndsService`, `RequestIsTaken`, with the exceptions the code has.
Two versions give every mixture of two loads; a field may be of no load, of an earlier one
that failed on the way or did not, or of the last, since the last version leaves
`try-all` as it was. Two signals give two overlapping loads, one after the other, or two
interrupts before the pool's threads and after, beside main's load; one worker, main and
the listener give every pair of threads a handler may run on against a job. More signals,
versions and workers are for the proofs, which have no bounds.

**neon.** `OpenPathIsAlive` (and so the assertion in `endEl`), `TreeIsDocument` (no node
lost, doubled or out of place after vectors moved), `ListIsWhole` (a list's items are
found through a parent pointer, of nodes whose parent may have moved).

CHECK_DEADLOCK is off in every cfg because all of them come to rest rightly: calls,
starts, jobs and documents are finite in number. What must not stop too early is
stated as liveness.

### Disagreements found

* `discovery_resend`: a `Message` sent again keeps its first correlation id, and a late
  reply to the first request is the answer to the second. `test/protocols.cpp:92`
  sends one object twice.
* `discovery_stop`: `discovery.h:48` calls the event one "to stop discovery message
  dispatcher"; requests are dispatched after it.
* `mibs_endless`: an SNMPv3 walk never ends on a device that keeps answering; the worker is lost.
  `WalkEndV3` loops because `break` leaves only the inner loop of `Session::walk`.
* `protocols_late`: a closed remote port is listed as SNMP when the ICMP errors come
  later than the fourth write.
* `protocols_order`: "Just prefer XML_PDC" sorts GenApi first.

Not contradicted by any document, but visible in the models and worth knowing: a timeout
in the middle of a walk reports what was met so far as the whole list (`WalkTimeout`);
the root of a walk may be listed as a MIB; a job that cannot make a directory shares
/tmp/nut with others and removes it under them (`Create`); a lookup that races the first
filling of the mapping yields assets without their attributes (`Lookup`); a driver that
fills its pipe hangs its worker; for XML_PDC and GenApi a community given without a
credential id is an error (`CredentialsFit`), while a timeout or MIB is ignored;
GenApi's driver is given two accounts when both the wallet and the request have one.

A request that arrives between the destruction of `m_pool` and that of `m_bus` is pushed to
a pool that is no more (`Put`).

In `Lifecycle`: a reload that fails halfway, or two that overlap, leave a mixture of
versions until the next one that does neither, and a field that one has no key for (with
the shipped file, `tryAll`) keeps its part of the mixture even then; after a reload a job may take `tryAll`
from one version and `mibDatabase` from another, and SNMP keeps the database of the
start; a SIGINT before `Connect` is swallowed, and the next one kills; a pool that
makes its threads at once has none in the daemon, so nothing is ever served. The
handlers do what POSIX does not allow in a handler (locks, allocation, files); that is
undefined and left out. SIGTERM, with which systemd stops the service, kills it with
its directories left behind.

In the table of MIBs: `MG-SNMP-UPS-MIB::upsmg` is in it twice (`mibs.cpp:84`, `:94`) and
only the first row counts; no row matches what the known entries and the walk yield,
which are modules, so a driver is then told no MIB at all; XUPS-MIB has no row.

In `AssetAttributes`: the uuid hashes three strings in a row without a separator, so
different devices may share one; a device that prints an empty serial number gets a new
random uuid every time; in a chain, keys of no device are dropped. For XML_PDC without
a port the answer says port 0 while the driver asks at 80, and a port above 65535 is
answered as it came (`EndpointIsReached` states both). A port that is a multiple of
65536 is none once it is cut to 16 bits: the MIBs are then read at port 0, while the
driver takes 161 (`DriverSpeaksAsReader` states that). A `Message` that arrives with an
unknown status counts as Ok (`StatusOf`). neon's read timeout is for each block, so a
server that sends a byte at a time is not bounded by `StallsAreBounded`, and one request may
wait both to connect and to read. A device that prints two serial numbers under two names
of one attribute gets another uuid when a job sees half of the mapping (`OneOfEach`).

## 4. Fairness

*Discovery*: weak fairness of a caller's way out of `called` and of its timeout (the
clock of `request`), of each worker's taking while the service is up, running and
replying (the operating system schedules threads), and of main's steps from the end of
joining to its return. Nothing is assumed of a pool that was told to stop, of the broker, of signals, of starts, or of callers that have not called; `Accept` needs no
fairness since the timeout ends the wait. That a running task ends is an assumption,
and `mibs_endless` shows when it fails. *MibsReader*: weak fairness of the whole
job: net-snmp ends every wait. *AssetsJob*: of each job and each driver; a driver
whose output is written ends, since its own timeouts end its wait for the device.
*Lifecycle*: of main, of the handlers on each thread, and of each worker: the operating
system runs threads. Nobody has to send a signal, edit the file or send a request, and
a job may hang (`EndJob`).

Durations are not modelled: a timeout may come at any time while a call waits.

## 5. What is proved

### 5.1 The request path

`tlapm DiscoveryProofs.tla`, for all values of the constants that satisfy
`ConstantsAssumption` (the shapes of `BusOf`, `NameOf`, `MessageOf`, `RestCalls`;
payloads are good or bad; `BadInput` is an error) and `NoneAssumption` (`None` is
none of the values it stands aside from). Any number of callers, buses, workers and
restarts.

| theorem | states |
|---|---|
| `TypeCorrect` | `[]TypeOK` |
| `Invariance` | `[]IInv` |
| `ServedOnce` | `[]ServedAtMostOnce` |
| `ShutdownIsClean` | `[]NoTaskWithoutBus` |
| `Finality` | `ResultIsFinal` |
| `OwnAnswers` | `FreshMessages => []AnswerIsOwn` |
| `AnswersFit` | `FreshMessages => []AnswerFitsRequest` |
| `Refinement` | `FreshMessages => ImplementsRequestReply` |

`FreshMessages` (no object is sent twice) is what every REST handler does, and is
needed: `discovery_resend` refutes `AnswerIsOwn` without it.

**The argument.** `IInv` is `TypeOK`, the three service invariants and four more parts.
`OneTaskPerRequest` alone is not inductive: a request may enter the mailbox only because
it is nowhere else, which needs `PlaceInv` (what is in the service was sent; what waits
is undecided; an unsent call has no verdict and no reply). `NoTaskWithoutBus` rests on the
order of destruction: until `DestroyPool` anything may be pushed, after it nothing is kept.
`VerdictInv` relates a verdict to its request,
which is what `AnswerFitsRequest` transfers to the caller; `ReplyInv` says that every
reply in the broker is `AnswerTo(c)` of some decided call; that it reads back as the
verdict is lemma `RoundTrip`, on the two conversions of a message. So an accepted reply
with my correlation id is, by `FreshMessages`, mine. `ToldInv` ties `got` to `stage`. A
task decides only when nothing is decided, which gives finality; and a worker that has
decided still holds its request, so it is never put back. The proof of preservation has
a lemma per kind of part and a case per action. `Refinement` maps `asked` to the calls
no longer idle and `result` to the verdicts that are responses; a caller's `Accept` is
`Return`, any failure is `Fail`, a verdict is `Serve`, and everything else stutters.

### 5.2 The process

`tlapm LifecycleProofs.tla`, from `LifecycleAssumption`: main, the workers and the bus
library's thread are different threads, the workers are finite in number, there is at
least one version of the file, each has some of the keys, and the marks `Torn` and `None`
are no versions. Any number of workers, signals and versions, and any keys in each.

| theorem | states |
|---|---|
| `Invariance` | `[]IInv` |
| `TypeCorrect` | `[]TypeOK` |
| `WholeConfig` | `[]QuietConfigIsWhole` |
| `OneConfig` | `[]JobSeesOneConfig` |
| `SameDatabase` | `[]OneDatabase` |
| `CleanEnd` | `[]OnlyKillsLitter` |
| `InterruptsCount` | `[]InterruptsGetThrough` |

**The argument.** None of the five properties is inductive. `LoadInv`: while nothing is
tangled there is at most one load, which is the latest, and what it was to write so far is
of its version; when it ends it has been at every field of `Fields`, which are all there
are (lemma `FieldsFacts`), so all it has a key for is. `OrderInv` is what main must have done before
anything else can happen: no handler before `Construct`, no load before `Connect`, no
job before `InitBus`. `ReadInv`: a job not in `apart` reads while there is no load, so its
second field is of the version its first one was. `DatabaseInv`: without a SIGHUP only
main loads, and does so before it initialises SNMP. `SwallowInv`: as long as SIGINT has
its handler, each swallowed one keeps a thread inside it, where a second cannot be
handled; a handler that finishes ends that for good. The listener comes to the threads
with the bus, and stays (`BusStays`), the workers with the pool. The one exception is `Daemonize`,
which loses the workers and their handlers, and is counted apart. `TypeOK` includes that
only threads that exist handle signals, which the cardinality argument needs.

### 5.3 The MIBs job

`tlapm MibsReaderProofs.tla`, from `AgentAssumption` (a device answers known entries
only, and what a walk names are modules, which no key of the table is) and
`NoneAssumption`. Any devices, requests and losses, and the whole table of names.

| theorem | states |
|---|---|
| `Invariance` | `[]IInv` |
| `TypeCorrect` | `[]TypeOK` |
| `OneSession` | `[]OpenedOnce` |
| `BoundedGets` | `[]GetBudget` |
| `OwnMibs` | `[]ListFitsDevice` |
| `ExactDriverMib` | `[]DriverMibIsExact` |

**The argument.** `SessionInv` ties `isOpen` to the sessions opened, and says that
nothing is out without one: `readName` and `read` test the same flag. `BudgetInv` counts
GETs by place: one for the name, one for the object id, one for each known entry, and
the one that is out; the bound of `GetBudget` is that of the last place. `OriginInv` is
where the names in the list come from, by the way that was taken: it keeps the known
entries and the walk apart, which `ListFitsDevice` of the end alone does not.
`DriverMibIsExact` needs that nothing the known entries or a walk yield is a key of the
table, which is checked row by row.

### 5.4 The protocols job

`tlapm ProtocolsProofs.tla`, from `DeviceAssumption` (what a device may be).

| theorem | states |
|---|---|
| `Invariance` | `[]IInv` |
| `TypeCorrect` | `[]TypeOK` |
| `WebIsTold` | `[]WebServerIsNotMistaken` |
| `ClosedPortIsTold` | `[]ClosedLocalPortIsRejected` |
| `ProbesAreIndependent` | `[]NothingIsMissed` |
| `WaitIsBounded` | `[]StallsAreBounded` |
| `Refinement` | `ImplementsProbeJob` |

**The argument.** `ListInv`: the list holds the protocols found so far, in the order of
the probes, each once. `XmlInv`, `SnmpInv` and `PowercomInv` say of each probe that is
over that its protocol is listed, or was lost, or is not the device's. `WriteInv` is the
kernel's rule over the four writes: an error at once makes every second write fail, so
the last one does. `StallInv` counts the requests made so far, and only a supported card is
asked for a page, which is `XmlInv`'s. All of
them are about the list being made; lemma `SortFacts` says that `SortProtocols`, which
is any ascending permutation, keeps what is in it, and carries them over to the answer.
`Refinement` goes action by action: one that leaves `Probed` and the list as they were is a
stutter (`Stutters`), one that ends a probe is `Try` (`Tries`), and `Answer` is `Report`,
since a permutation of a list without repetitions has none (`SortedRanks`).

### 5.5 The assets job

`tlapm AssetsJobProofs.tla`, from

* `InventoryAssumption`: no name of the mapping makes `port` or `daisy_chain`, which
  `enrichAsset` adds itself (several names may make one attribute);
* `NumberAssumption`: a chain has fewer than a hundred devices (two digits), and no
  number is written as the empty string;
* `InputAssumption`: requests have the types of `commands.h`, drivers print lines;
  `/tmp/nut` is no name `mkdtemp` makes;
* `NoneAssumption`.

Any number of jobs, any requests and documents, any text of a driver, any mapping and
any part of it a race leaves behind.

| theorem | states |
|---|---|
| `Invariance` | `[]IInv` |
| `TypeCorrect` | `[]TypeOK` |
| `OwnDirectories` | `[]DirectoriesAreOwn` |
| `SameSession` | `[]DriverSpeaksAsReader` |
| `WholeAnswers` | `[]AnswerIsWhole` |
| `StableIdentity` | `[]IdentityIsStable` |
| `ReachedEndpoint` | `[]EndpointIsReached` |

**The argument.** `DirectoriesAreOwn` is inductive with `TypeOK`, because `mkdtemp` makes
only what there is not. `GivenInv` and `SpeakInv` follow the driver's arguments through
the steps that make them, next to the reader's session; that the two then agree is lemma
`SameCredentials`, by cases on the document. `DriverInv`: a job maps what its driver
printed only when that ended well, with all of it in the pipe. `MapInv`: while no two
workers met in `mapping()` there is at most one in it, and a worker that looks up finds
the table full. `AnswerInv` says that an answer is `Parse` of the driver's lines with the
names known at the lookup, all of them when nobody raced. The three last theorems are
then about `Parse` alone, for every text: `DictionaryFacts` (of two lines with one key
the first counts), `ExtFacts` (the entries of a device are those of its own first
lines), `ExtGrows` (fewer names give fewer entries, and no other ones), `OneIdentity`
(a device with one manufacturer, model and serial number by the whole mapping has the
same by any part of it), and
`EnrichedFacts` (what `enrichAsset` adds is told apart from what was printed).

**What proving found.** `DriverSpeaksAsReader` said that ports are equal; that is false
for a port that is a multiple of 65536, which no instance had asked for. It now says what
the code does, and the instance asks for port 65536. The other changes the proofs called
for are of form: two arms of `DriverPort`'s choice overlapped, and a printed number is
now read from the key as the chain has it.

### 5.6 The XML parser

`tlapm NeonParserProofs.tla`, from `BoundsAssumption` and `NamesAssumption` (an element's
attributes are a sequence). Any document, of any size and depth, cut off anywhere.

| theorem | states |
|---|---|
| `Invariance` | `[]IInv` |
| `TypeCorrect` | `[]TypeOK`, with `m_current` alive |
| `AlivePath` | `[]OpenPathIsAlive` |

**The argument.** Why does a parser that keeps pointers into vectors that grow not follow
one that dangles? `PathInv`: there is a path from the root to `m_current`, each element of
which points back to the one before it, and is in the vector that one owns now, which was
made after the vector the owner is in. `KidsInv`: so was the vector of `m_current`'s own
children. Hence the only vector that ever moves, that one, is younger than all the path
runs through (`Emplaced`), and the path stays (`Added`) when `startEl` makes it longer
or `valueEl` adds text. `endEl` drops the last of it, and what was last becomes the
vector of the new `m_current`'s children, so `KidsInv` comes back. `UpIsThePath` says that
following parents is going back along the path; `OpenPathIsAlive` is that, and with it
the assertion in `endEl`. Pointers that do dangle, of elements already closed, are nowhere
on the path.

`tlapm FlatSequences.tla` and `tlapm NeonTreeProofs.tla`, from the same assumptions:

| theorem | states |
|---|---|
| `TreeInvariance` | `[]TreeInv` |
| `WholeTree` | `[]TreeIsDocument` |
| `WholeList` | `[]ListIsWhole` |

**The argument.** `TreeIsDocument` is not inductive: were a vector the children of two
nodes, adding to it would add to the document twice. `TreeInv` adds to it `Owned` (every
vector is alive and has one owner) and `TopInv` (one outermost element, to which its
children point), relative to `IInv`, whose path also says that each element open is the
last of its vector. `Grown` says what a step does to the heap, whether the vector moves or
not: one node, with its attributes, after the children of `m_current`, all other blocks as
they were. `Inheritance` follows the owners, hence `OwnedStill`. For the document: blocks
off the path read as they did (`OffReads`, by counting levels); the vector of `m_current`'s
children reads as it did and then the new node (`NewReads`); and if a vector on the path
reads as it did with something new at its end, so does the one above, since the element it
belongs to is the last there (`ReadsAbove`, with `FlatLastLonger`). Up to the root
(`RootReads`) that is what `startEl` and `valueEl` append to `doc` (`LineIs`).
`WholeList`: the document is the outermost element and then what is read of its children's
vector (`DocIs`); entries deeper than those have another depth, so counting in the document
is counting children (`Counted`, `FlatCount`), and those are what `ItemsOf` finds, as
`TopInv` keeps the parent pointer of each alive (`AllItems`).

The induction over levels is by the least counterexample (`Counting`): the induction
theorems of the library have an operator as parameter. `Recursion` gives in the same way
that the functions `Reading` and `FlattenSeq` are defined by exist, on which all else rests.

All six `IInv`s, and `TreeInv`, hold in every state TLC reaches in the instances of
section 3, which is how they were found (for `PathInv`, with the path that the parents
make); the runs check the properties they imply.

**Only model-checked.** Liveness (`EveryCallReturns`, `QueuedIsServed`,
`StopCompletes`, `JobEndsWithoutV3Walk`, `OthersEnd`, `InterruptEndsService`,
`RequestIsTaken`), which TLAPS does not reach. Every invariant and action property of the
passing runs is proved.

## 6. What is not modelled

`MessageBus::recieve` (never called), logging, the wording of errors, the keys SNMPv3
makes of passwords (whose failures are only logged), formatting of values, the hash of
a uuid, permission details of REST, what `daemonize` does with files and directories.
`commands.h` declares fields and does nothing. UDP writes that fail for other reasons
than an ICMP error or a missing route. Re-entry of a signal handler into the
construction of `Daemon`. That the wallet's document changes between the two times it
is asked for. Names of the mapping with a number of their own (`outlet.1.name`), which
`mapKey` falls back to when the name with # is not mapped (`mapper.cpp:67`).

Three hazards have no property. A field the file has no key for keeps its value over
reloads: so it is, and no document says otherwise. Jobs that could not make a directory share /tmp/nut and
remove it under each other: it does go wrong, and nothing in the repository promises
otherwise. A timeout below one second becomes 0 for the driver: one division, which
nothing else depends on.

## 7. Plan

Done: all modules above; proofs of every safety property the runs check, and of both
refinements. Next: that `MibsReader` implements an abstract job too (a list that fits the
device, or an error), and that job and `ProbeJob` in the place of `Outcomes` in `Discovery`.
