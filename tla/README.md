# A formal model of javacard-rpc

TLA+ modules, TLC runs and TLAPS proofs kept beside the javacard-rpc repository.
Paths below are relative to the repository root, which `PROJECT.json` calls
`src/`. `PROJECT.json` holds the machine-readable side of this document: the
components, the runs with their properties, the map from definitions to source
lines, the hazards, the findings and the theorems.

## 1. The system and its parts

javacard-rpc turns a TOML contract into a JavaCard skeleton and Swift and Kotlin
clients (`jcrpc-gen`), and provides a TCP bridge that puts a simulated card
behind a socket, so that those clients can be tested without hardware.

| Part | Code | State it keeps | Operations |
|---|---|---|---|
| Connections and sessions | `bridge/.../server/ClientHandler.java`, `session/SimulatorSession.java`, the supplier in `server/TcpBridgeServer.java` | one thread per connection, the supplier's warm card and monitor, one monitor per session, the cards | accept, get a session, read a frame, dispatch it, enter and leave the simulator, write the reply, end |
| Frame protocol | `bridge/.../protocol/` | none | `readFrame`, `writeFrame`, message and error codes |
| Server lifecycle | `server/TcpBridgeServer.java` | `running`, `serverSocket` (volatile), the `bound` latch | `start`, `stop`, `awaitPort`, the shutdown hook, the accept loop |
| Command line, config, provider resolution | `Main.java`, `card/`, `config/` | local variables of one main thread | parse arguments, load the config file, parse the scope, find and instantiate the provider, create the first card, bind |
| Counter applet | `examples/counter/applet/.../CounterJCApplet.java`, `CounterApplet.java` | `counter`, `limit`, `storedData`, `storedDataLen`, the APDU buffer | `process()` and fourteen methods |
| Generated skeleton | `codegen/testdata/CounterSkeleton.java.golden` | none of its own | `dispatchTo`, handlers, pack/read/copy helpers over the caller's buffer |
| IDL parser and validator | `codegen/parser.go`, `validator.go`, `workspace_authenticated.go`, `message_size.go`, `pluginapi/model.go` | the schema being built, the INS bytes seen, the errors | `normalizeSchema`, `assignRequestLocations`, `Validate` |
| `jcrpc-gen` | `codegen/cmd/jcrpc-gen/` | the output tree on disk | flags, schema, selection, per target: generate, check the package, make directories, write |
| Code generation API and backends | `pluginapi/`, `codegen/generators.go` | none | `Generate` (the backends are modules outside this repository) |
| Stream protocol | `.spec/idl.md` | the stream sessions of runtimes outside this repository | open, write, read, commit, ... |
| `jcrpc-compat` | `codegen/cmd/jcrpc-compat/`, `codegen/internal/compat/` | checkouts of the runtimes, generated packages and consumer builds under one root; a toolchain directory | `Check`, bootstrap, `VerifyCheckout`, prepare, jvm, swift, offline, toolchain |
| `jcrpc-mutants` | `codegen/cmd/jcrpc-mutants/` | fixtures, logs and the table in one directory | select, copy, control, plant, test, report |
| `jcrpc-parity` | `codegen/cmd/jcrpc-parity/` | the report | run two CLIs over a matrix, compare, plant a byte, report |
| Wire fixtures | `codegen/internal/wirecompat/` | none | `probe`, `Observe`, `Compare` |
| Generated clients, end-to-end programs, scripts | golden files, `examples/counter`, `scripts/` | none / child processes | one exchange at a time |

How they interact. `Main` resolves the provider and calls `start()`, which makes
the first card *before* it binds the socket. Every accepted connection gets a
handler thread; the handler asks the shared session supplier for a session and
then alternates reading a frame and answering it. Under `shared` scope all
handlers use one session, under `connection` scope the supplier hands out the
warm card once and calls `provider.create()` under its own monitor for every
later connection. A session's monitor serialises everything inside the
simulator. Inside the simulator an applet decodes the APDU in the runtime's
buffer and answers into that same buffer. `jcrpc-gen` is a separate sequential
program that shares only the file system with its own earlier runs. So are the
release tools: `jcrpc-compat` drives git, `jcrpc-gen`, Gradle, Swift and tar under
one root, `jcrpc-mutants` drives `go test` in copies of the repository,
`jcrpc-parity` two builds of `jcrpc-gen`; the wire fixture compiles what
`jcrpc-gen` emitted for a schema the validator accepted.

What is hard here: interleavings of handler threads inside one simulator and
inside the supplier; a provider that throws or hangs while it holds a monitor;
an `Error` that unwinds a handler inside a monitor; clients that pipeline and
disappear; `stop()` racing `start()`, `accept()` and the shutdown hook; 16-bit
signed arithmetic and request and reply sharing one buffer; fragments of any
size; a generator run that is killed between truncating a file and writing it,
followed by another run; checks spread over parser and validator that have to
cover each other's gaps; clones, downloads, extractions, fixtures and reports that
an interrupted invocation leaves for the next one to trust or refuse. The hazards in `PROJECT.json` give the lines.

What makes each part correct:

* sessions: mutual exclusion inside a card, no lost update, private cards under
  connection scope, a disconnect is no reset, every frame answered in order
  whatever fails elsewhere, every connection resolved;
* lifecycle: nothing bound before a card exists, no null socket past the latch,
  `stop()` ends serving, `awaitPort()` returns, the port is released;
* startup: the documented outcome for every command line, and always one;
* applet: the integer counter of the contract, the last blob stored, answers for
  the request as it was sent;
* parser/validator: unambiguous dispatch, every request field has one place,
  streams that fit one-byte packet counters, an upload before every authenticated
  streamed reply;
* `jcrpc-gen`: success means complete output, a refusal touches nothing of its
  target, output never goes through a link;
* `jcrpc-compat`: consumer work only on signed, unmodified releases, a prepared
  consumer composes, no unverified bytes in the toolchain, success means all of it;
* `jcrpc-mutants`: a kill in the table is backed by the logs beside it, success
  attests every selected mutant;
* `jcrpc-parity`: a clean report of an invocation without a planted byte vouches for
  its candidate on the whole matrix, the
  negative control is noticed, success is reported;
* wire fixture: it passes what is right and fails what has a defect on the wire.

## 2. Modules

| Module | Models | Used by |
|---|---|---|
| `CardModel` | request kinds, replies, and what a request does to a card (external: jCardSim) | `Bridge`, `CardService` |
| `CardService` | abstract: a card per attachment, one atomic step per frame, replies in order | refinement target of `Bridge` |
| `Bridge` | handlers, supplier, session monitors, clients | `MCBridge`, `BridgeProofs` |
| `BridgeServer` | `start`/`stop`/`awaitPort`/hook | `MCBridgeServer`, `ServerProofs` |
| `Startup` | `Main` up to the bound socket | `MCStartup`, `StartupProofs` |
| `IdealCounter` | abstract: the counter of `counter.toml`, over integers | refinement target of `CounterApplet` |
| `CounterApplet` | `process()`, skeleton and applet over one buffer | `MCCounterApplet`, `CounterProofs` |
| `Schema` | parser and validator on decoded contracts | `MCSchema`, `SchemaProofs` |
| `WireProbe` | `probe`, `Observe`, `Compare` of the wire fixture, on the schemas `Schema` accepts | `MCSchema`, `SchemaProofs` |
| `GenCLI` | `runWithPlugins`, `validatePackageFiles`, the disk, kills and reruns | `MCGenCLI`, `GenProofs` |
| `Compat` | `jcrpc-compat` except its toolchain mode, git, the operator | `MCRelease`, `ReleaseProofs` |
| `Toolchain` | `jcrpc-compat --mode toolchain` | `MCRelease`, `ReleaseProofs` |
| `Mutants` | `jcrpc-mutants` | `MCRelease`, `ReleaseProofs` |
| `Parity` | `jcrpc-parity` | `MCRelease`, `ReleaseProofs` |
| `Induction` | no code: least numbers and induction over a set of numbers | `BridgeProofs`, `CounterProofs`, `SchemaProofs`, `StartupProofs` |

The `MC...` modules give finite sets to the constants, the `...Proofs` modules
hold theorems. In every module the *faulty variants* (`TakeWarmUnsynchronized`,
`IncrementNoWrapTest`, ...) are bugs the properties exclude: `PROJECT.json`
pairs each property with one of them, and TLC finds the property violated when
the variant replaces the definition. They are part of no specification.

### Bridge

`pc[c]` is where the handler thread of connection `c` is: `none` (not accepted),
`started` (before `sessions.get()`), `taking` (inside the supplier's `get()`, the
warm card read and not yet cleared) and `creating` (inside `provider.create()`),
both holding the supplier's monitor, `idle` (in `readFrame`), `dispatch` (in the
switch), `inside` (inside `SimulatorSession`), `reply` (in `writeFrame`),
`closed` (thread ended, socket closed). `Supplier.get` is `GetShared`, `TakeWarm`
followed by `GetWarm`, or `CreateBegin` followed by `CreateReturn` or `CreateFail`; `readFrame` is
`ReadFrame`, `ReadBroken` (zero length, or cut off) or `ReadEnd`; the switch is
`EnterSession` then `LeaveSession` or `DieInSession`, or `AnswerLocally`;
`writeFrame` is `WriteFrame` or `WriteLost`. A card access is split in two, a
read of the card into `view[c]` and a write of what was computed from it, so that
a missing monitor shows as a lost update and not only as a broken rule; so is
`get()`, between the read of `warm` and its clearing. A client
sends and leaves whenever it likes. Two ends of one failure are worth noting: an
`Exception` in the card is answered with `ERR_SIM_ERROR` and the loop goes on
(`LeaveSession` with `THROW`), an `Error` is caught by nobody, releases the
monitor on the way out and closes the connection (`DieInSession`). The handler's
`ERR_MALFORMED` branch for an empty payload does not appear: `readFrame` refuses
a zero length before it. Client numbers, used for log lines only, are left out.

### BridgeServer

`running` and `serverSocket` are volatile and `bound` is a latch, so each access
is a step: `Start`, `Prepare`/`Refuse`, `Bind`/`BindFail`, `Publish`, `CountDown`,
`AddShutdownHook`, `Loop`, `Accept`/`AcceptClosed`/`AcceptError`, `Spawn` on the
start thread; `StopCheck`, `StopClear`, `StopFetch`, `StopClose` for each caller
of `stop()`, of which the hook is one.

### Startup

One action per iteration or call of `Main.configure`, `loadConfig`,
`CardScope.parse`, `CardProviderLoader` and `createCard`. A class on the command
line or registered as a service is the *kind* of what loading and using it leads
to (`ClassKinds`), a config file the sequence of its `applet.i` entries.

### CounterApplet

`RejectCla`, `Receive`, `ReceiveMore`, `ReceiveNothing`, `RejectLength` are
`process()` up to the call of `dispatchTo()`; then one action per method covers
the generated `handle...()` and the applet's `on...()`. Numbers are Java shorts
(`ToShort`), bytes are 0..255, and methods write from offset 0 of the buffer in
which the request lies at offset 5; `echoMessage` runs `copyBytes` byte by byte.
A request of
256 bytes or more comes in an extended APDU, whose header carries a longer length
field; it is refused.

### Schema

`normalizeSchema` is one step (`Normalize`), which fails or yields methods with a
place for every request field; then `ValidateApplet`, one `ValidateMethod` per
method, and `ValidateStatusWords` collect *kinds* of errors as `Validate` does.
Go's map order is irrelevant there because methods are visited in sorted order;
the model's sequences are in that order. Text that is only matched against a
pattern (names of fields, methods and status words, AID, version) is a flag. Checks
of `Validate` that repeat one of the parser's (known types, places and lengths) are
not modelled twice, and names cannot be duplicate: they are keys of tables.

### GenCLI

Every system call is a step, may fail, and may be the last before a kill;
`os.WriteFile` is `Open` (truncate) then `Write`. A later run starts on what the
earlier ones left. A plugin returns one of a few packages: good, with a duplicate
name, with a file that is another's directory, with a name outside the package,
without data, empty, or an error.

### WireProbe

`WireProbe` extends `Schema`: in the states where the validator has accepted, the
calls that `probe()` derives are asked of a *corpus*, which is what the compiled
Java does with a call: its class byte, the routes of `dispatchTo` with the request
length and the response width each demands, the INS bytes of the stream adapter
and the class bytes it answers. `Emitted` is the corpus the fixture takes for
right, `Wrong` are corpora with one defect. `OrdinaryPasses` is `ordinary`,
`badRequest` and `shortOutput` of one method, whose lengths `RequestLength` and
`Width` add up over the fields (`Total`); the business status, scalar bytes
and the payload of the streamed flow are left out.

### Compat

One invocation at a time on one root: `Refuse`, or `Start` (with `Check`), then for
each target `Stat`, the three states a clone goes through (`CloneStep`,
`CloneFail`) and `Verify`; then `BuildGenerator`, `Generate`/`Generated` per input
and language and `WriteConsumer` for prepare, `Native` for jvm and swift. A
checkout is a record of what git says of it, so `VerifyCheckout` is the
conjunction of its five comparisons; an index hint blinds `git status` and not the
fresh index. `guarded` says that the invocation runs under `--mode offline`, whose
exit code `OfflineExit` computes. `settings.gradle` includes builds by their
directories, `build.gradle` by base names (`Base`). Every step may fail, `Kill` may come between any
two, and `Operator` edits, removes or hides things between invocations.

### Toolchain

`Get`, `Copy`, `Install` for each artifact, `TarOpen`, `TarWrite` for each file of
each archive. `ToolFail` is every early return with its deferred `Remove`;
`ToolKill` runs no deferred call. The root may hold an older verified toolchain.

### Mutants and Parity

`Mutants` has one action per step of the loop (`Mkdir`, `CopyTrees`, `RunControl`,
`Plant`, `RunTest`) and `WriteTable` for its end. A fixture remembers which
invocations copied into it, whether the text to replace occurs in it exactly once
(which is chosen when the copy is made, as it depends on the repository's files) and
whether it is planted, so that a log can say on what its test ran. The output of `go test -json` is a code and a set of events.
In `Parity`, `Compare` is one case of the matrix; the candidate is the baseline
with at most one difference, of seven kinds, at any case of the matrix. `Cases`
follows the nested loops of `verify()`, `CaseAt` is the case a place in them stands
for, `Finding` what `verify()` makes of its two results (with `compareFiles`); `Matrix` says what the loops should
produce.

## 3. Runs

Times are for two workers on a small machine.

| Run | Checks | Instance | States |
|---|---|---|---|
| `bridge_shared` | `TypeOK OneInsideCard NoLostIncrement OnlyResetDeselects ImplementsService EveryFrameAnswered` | shared scope, 2 clients, 2 frames each of SELECT, INC, RESET, throwing, fatal | 629 k, 130 s |
| `bridge_connection` | `CardsNotShared PrivateCard` | connection scope, 2 clients, 2 frames each of SELECT, INC, RESET, PING, unknown type, zero length | 1.98 M, 45 s |
| `bridge_provider` | `EveryFrameAnswered EveryConnectionResolved` | connection scope, 3 clients, 1 frame each of GET_ATR, cut short | 69 k, 40 s |
| `server` | `NothingBoundWithoutCard AwaitPortSeesSocket AtMostOneLateHandler StopEndsServing AwaitPortReturns ReturnReleasesPort` | 2 stop() callers, the hook, 1 awaiter, 3 connections | 46 k, 30 s |
| `startup` | `OutcomeAsDocumented RefusedUnbound EveryStartResolved` | all command lines of two flag/value pairs or of three words, 5 registrations, 10 classes of 9 kinds, 4 config files | 25 k, 9 s |
| `counter_arithmetic` | `NeverNegative ImplementsIdeal` | steps of 217 (which divides 0x7FFF), limits 217, 250, 0x7FFF, 0x8000, 0xFFFF | 667 k, 60 s |
| `counter_buffer` | `StagedIntact ImplementsIdeal` | buffer of 12 bytes, blobs of 1 to 3 bytes with room for 2, echoes longer than the header, every fragmentation | 225 k, 60 s |
| `schema` | `DispatchUnambiguous RequestsPlaced PacketsFitByte StreamedRepliesFollowUploads ProbeAdmits ProbeKills` | 2380 contracts at the edges of every check; for each accepted one every corpus with one defect | 12 k, 7 s |
| `gen_cli` | `SuccessIsComplete RefusalLeavesTarget NeverThroughLink` | 3 runs in a row, 11 invocations, 6 disks | 70 k, 4 s |
| `release` | `AdmittedIsReleased PreparedComposes NothingUnverified ToolchainComplete KillsBacked SuccessAttestsAll ReportVouches PlantNoticed` | `jcrpc-compat`: 13 repositories, 3 invocations, 1 kill, 1 edit; toolchain: 4 artifacts, 2 archives of 2 files, 3 invocations, 2 kills; mutants: 3 mutants, 12 test outcomes, 2 invocations, 1 kill; parity: 2 inputs, 5 policies, 2 selectors, 2 memory settings, every single difference, 2 invocations, 1 kill | 1.11 M, 45 s |
| `counter_high_limit` | `OverflowMeansOverLimit` | *violation* | |
| `startup_missing_scope` | `MissingScopeRefused` | *violation* | |

Outside `Bridge`, a module's `TypeOK` is a conjunct of one of its invariants
(`NothingBoundWithoutCard`, `StagedIntact`, `RefusedUnbound`, `SuccessIsComplete`,
`RequestsPlaced`, `AdmittedIsReleased`) and checked with it.

Why the bounds are enough. Handlers interact pairwise, through one monitor or
the supplier; two clients reach every such pair, and two frames each let one
frame be in a card while the other's predecessor has been answered and its
successor is already in the stream. Three connections are needed for the
supplier: one takes the warm card, one is inside `create()`, one waits. In
`server`, two explicit callers and the hook reach every overlap of three `stop()`
calls; three connections leave one in the queue while one is being spawned after
another. In `counter_arithmetic` a step of 217 reaches 0x7FFF exactly and the next
one steps over it. In `counter_buffer` an echo of seven bytes overlaps its own
reply by two bytes and the request of eight bytes does not fit. In `gen_cli` the
third run sees what two failed or killed ones left.

In `release` the four tools share no state and each has a directory of its own, so
a behaviour has invocations of one of them (`Alone`); one run checks them all. Three
invocations of `jcrpc-compat` are a bootstrap that dies, one that succeeds or
refuses, and a mode that uses the runtimes; one edit by the operator may come
anywhere between them, an edited file hidden behind an index hint among them. Three invocations of the toolchain and two kills leave two archives
torn before the third completes. Two invocations of `jcrpc-mutants` are one that
writes a table and one that meets its fixtures; two of `jcrpc-parity` are one that
reports and one on another candidate that does not. The catalog has three mutants
that can be killed or survive, of different tests, so that an invocation on all of
them has its survivors before, between and after kills; in each copy the anchor
occurs once or not. (A mutant without an assertion, which `NamedFailure` provides
for, is none of the code's.) The
parity instance keeps two values of each axis of the matrix but the simulator
coordinate, which `verify()` treats like the stream memory, so that leaving out the
last value of an axis shows.

Deadlock checking is off where the system may stop: all clients gone, the server
stopped, the start resolved, the last run of a tool ended, a schema decided.

### Fairness

* `Bridge!FairSpec`: weak fairness of every handler thread's own steps. Java
  schedules runnable threads. Its monitors are not fair, but weak fairness is
  enough here: a handler waiting for a session can be overtaken only by frames,
  and clients send finitely many (`MaxFrames`). Clients and providers get no
  fairness; a provider may hang in `create()` for ever. `EveryConnectionResolved`
  therefore has as its premise that nobody stays in `create()`.
* `BridgeServer!Fairness`: the start thread, each `stop()` and `awaitPort()` in
  progress, and, once the JVM is exiting, the registered hook. Nobody is obliged
  to call anything, to connect or to exit.
* `Startup!FairSpec`: the single main thread runs; a provider's constructor and
  `create()` are taken to return or throw.

### Refinements

`Bridge` implements `CardService` (`ImplementsService`): `started`, `taking` and
`creating` are "new", `dispatch` and `inside` are still "ready" with the frame not taken, and
the one visible step of a frame is the one that leaves the monitor.
`CounterApplet` implements `IdealCounter` (`ImplementsIdeal`): the cap is the
limit read as an unsigned number, the blob is the first `storedDataLen` bytes of
`storedData`, and every step of reception is invisible. Limits above 0x7FFF are
where the applet departs from the contract; there the abstract counter allows an
increment to be refused, and nothing worse.

### What the violations show

* `counter_high_limit`: `setLimit(0x8000)` is accepted, stored as a negative short,
  and from then on every increment is answered `SW_OVERFLOW`, "Counter would
  exceed limit", also that of 0 by 1.
* `startup_missing_scope`: `--card-scope` as the last word ends in an
  `ArrayIndexOutOfBoundsException` and exit code 1; a test comment and a message
  in `CardScope.parse` say that a missing value is refused as `INVALID_SCOPE`.

### Observations without a run

* The warm card goes to the first handler *thread* that reaches the supplier,
  which need not be the first connection's (`TcpBridgeServer.java:94` says "to the
  first connection"). Both are fresh cards, so no client can tell.
* A `stop()` that runs before the assignment of `serverSocket` closes nothing;
  `start()` then ends without serving anybody (`StopEndsServing`) but with the port
  open. Only an API caller can do that: the hook is registered later
  (`ReturnReleasesPort`).
* An `awaitPort()` on a server whose `start()` was refused never returns, as "Blocks
  until the socket is bound" (`TcpBridgeServer.java:71`) says. `AwaitPortReturns` is
  about the other starts; `BridgeHarness.java:38` shows what a caller has to do, ask
  `isBound()` and watch the thread of `start()` first.
* `jcrpc-compat`: a killed or failed clone can leave a directory that every later
  bootstrap takes for a clone and `VerifyCheckout` refuses, until someone removes it
  (`AdmittedIsReleased` is safety only; there is no recovery to be live).
* `jcrpc-compat prepare`: packages lie under positional directories. When the
  examples change under a reused root, directories of the old order stay, are
  included and share base names with current ones, so that a name in `build.gradle`
  may mean two builds; `PreparedComposes` therefore compares the two files by base
  names, and asks for exactly the current builds, with unambiguous names, only while
  the inputs are the first ones.
* Toolchain: tar writes over what is there, so files of an older archive that the
  pinned one does not have stay in the unpacked tree.
* `jcrpc-parity --plant-byte-change` on a candidate whose only difference is the
  flipped bit cancels it and exits 0; the report does not record the planting, so a reader cannot
  tell this report from a clean one. `ReportVouches` excepts planted invocations. The
  binaries are hashed at the start and run later.
* `jcrpc-mutants -only`, after a fixture was removed by hand, writes new logs beside
  the rows of an older table. `KillsBacked` is about directories nobody edits.
* The wire fixture presumes that ordinary messages fit one short APDU, that no stream
  family reaches INS 0xFF (it probes 0xFF as an unknown INS, `wire.go:329`) and
  that streams take chunks of three bytes. The validator accepts contracts without
  these; on them a right corpus fails the probe. `Probeable` names the first two.
* A provider class that is on the classpath but fails to link is refused as
  `PROVIDER_NOT_FOUND`.
* Parser and validator accept a variable-length field before another field, which
  `.spec/idl.md` section 6.4 excludes; a backend may still refuse it.
* The skeleton golden is generated from another contract than the example applet
  (its `getInfo` is five bytes, the applet's seven). The model takes the methods
  from the applet and the shape of dispatch and helpers from the golden.

## 4. Proofs

Every safety property of a passing run is also a theorem, which holds for every
value of the constants under the assumptions named: what section 3's runs show on
a small instance, these show of every one.

`Induction` proves two facts about numbers, that a nonempty set of them has a
least one and that a set with 0 and all successors is all of them (`SetInduction`).
With these the recursive *functions* of the models can be reasoned about: each
proof states the equation such a function satisfies as a predicate (`IsSoloRun`,
`IsForward`, `IsTotal`), shows by induction that a function with it exists, and
uses it for the `CHOOSE` behind the definition.

### Bridge

`BridgeProofs`, from `BridgeAssumption`: the names are distinct, the scope is one
of the two, the requests are some of the modelled kinds, `MaxFrames` is a number;
any number of connections.

* `TypeCorrect` and `MutualExclusion`. `OneInsideCard` is not inductive: it does
  not say why a monitor that is free means an empty card. `BaseInv` adds that a
  handler past `get()` has a session and one before it has none (`Attached`), that
  reading never passes sending (`WireOK`), and that whoever is inside a card owns
  its monitor (`MonitorHeld`); two owners of one monitor are then equal.
* `Isolation` (`CardsNotShared`). `Supplied` adds where cards can come from: a
  handler holds the warm card or the one named after itself, while `warm` is
  set nobody holds the warm card, and a handler inside `get()` owns the supplier's
  monitor, so `warm` is still set when it comes to clear it.
* `IncrementsKept` (`NoLostIncrement`). `CountInv` says that a handler inside a
  card has an up-to-date `view` (this is where the monitor is needed), that no
  value given out, written or pending, exceeds the card's counter, and that
  values given out for one card are pairwise different; a new value is one above
  the counter and so differs from all of them.
* `PrivateToClient` (`PrivateCard`): under connection scope the replies of a client
  are those of a card that runs its frames alone. `SoloInv` says so of every
  moment: the card is where the frames executed so far bring it (`CardIsSolo`), the
  reply being written and those written are the ones of that run, and a frame that
  was read is answered or at work as long as the client is there (`RepliesCounted`).
* `ResetAloneDeselects` (`OnlyResetDeselects`), from `ViewFresh`: only the end of a
  RESET takes a selection away.
* `RefinesService` (`ImplementsService`): the initial state maps to an initial state
  of `CardService`, and every step to a step of it or a stutter. `ServiceInv` has
  what the mapped steps need: a fresh view, a session for each frame read, a request
  for the card before the monitor, and `create()` under connection scope only. This
  is the safety of the service; that frames are answered is `EveryFrameAnswered`.

### Server lifecycle

`ServerProofs`, from `ServerAssumption` (the hook is not one of the callers); any
number of threads that call `stop()` or `awaitPort()`, any number of clients:
`BoundWithCard` (`NothingBoundWithoutCard`), `AwaitSafe` (`AwaitPortSeesSocket`),
`OneLateHandler` (`AtMostOneLateHandler`) and `OvertakingStopKept`. `ServerInv` orders
what `start()` does: a card before a socket (`CardFirst`), the socket before the field,
the field before the latch or any close (`SocketFirst`). A handler that starts after
`running` was cleared ends the loop, so `start()` is not at `accept()` any more
(`LateIsLast`). `OvertakingStopKept` is the safety of a `stop()` that overtakes
`start()`: once `running` is cleared before the socket field is assigned, nobody is
ever served.

### Startup

`StartupProofs`, from `InputsAssumption` (classes are of the modelled kinds,
registrations and config files are sequences): `StartsAsDocumented`
(`OutcomeAsDocumented`) and `NothingBoundIfRefused` (`RefusedUnbound`), for all
command lines of any length. The property says what a *finished* start should have
done; `StartupInv` says for each stage which part of that is settled. `ArgsRead`:
after the pairs before `i` every option has the value of its last occurrence among
them (`Told`). `ConfigRead`: the entries before `i` are read and none is a gap.
`Settled`: behind each stage the applets, the scope, the provider are the ones asked
for, and no cause of a refusal that belongs to an earlier stage holds. `Open`: until
the end there is no outcome and nothing is bound.

### Counter applet

`CounterProofs`, from `RequestsAssumption` (commands are APDUs), `SizesAssumption` (the
array sizes are non-negative, a buffer holds a header and a small answer, a stored
blob fits it) and `FixedAssumption` (constant answers are bytes that fit):

* `NeverWraps` (`NeverNegative`). `CounterInv` bounds the counter by 0x7FFF and
  says the amount being added is a byte; with `ToShortBounded` and `ToShortSame` an
  increment is kept only if it did not wrap.
* `StagedAsSent` (`StagedIntact`): for every fragmentation, the data behind the header
  is what was sent. `Staged`, the part of `AppletInv` that does it, says so of the
  part received so far; what is dispatched was received to the end.
* `RefinesIdeal` (`ImplementsIdeal`), one lemma per method. The counter's methods need
  that a sum cut to 16 bits is negative exactly if it was too large, and that the
  wire bytes of a short are those of the number it stands for. `echoMessage` needs
  `CopyMoves`: the copy loop, forward or backward as `copyBytes` chooses, leaves the
  source window as it was at the target and every other byte alone, for all offsets
  and lengths; `Moved` says which part is moved after `i` iterations.

### Contracts and the wire fixture

`SchemaProofs`, from `RawAssumption` (the shape of decoded contracts, with fields that
have integer lengths) and `NilAssumption` (nil is no number and no trace):

* `AcceptedDispatch` (`DispatchUnambiguous`). `DispatchInv` is the loop invariant of
  `validateMethods`: as long as no INS error is recorded, the bytes seen are those of
  the methods visited, and these are pairwise disjoint, below 256 and outside the
  reserved ranges.
* `AcceptedRequestsPlaced` (`RequestsPlaced`), `AcceptedPacketsFit` (`PacketsFitByte`)
  and `AcceptedRepliesFollowUploads` (`StreamedRepliesFollowUploads`). `VisitedInv` adds that the
  errors of every method visited are recorded and that the parser left no request
  field without a place; a method of an accepted contract then has none of the
  errors, and the properties follow from parser and validator together.
* `RightCorpusPasses` (`ProbeAdmits`) and `WireDefectsCaught` (`ProbeKills`).
  `MeasuredInv` keeps what the parser checked of bytes and lengths; with it an
  accepted contract has sizes that are numbers, sums of them that are no less than
  any term (`TotalBounds`), and one method to an INS (`Ready`). `Call` then answers as
  the single route at the INS does, and the probe of a method holds of a route only
  if it has the method's result, width and length test and tests the capacity first
  (`RouteProbed`); each kind of defect in `Wrong` breaks one of these, the class byte,
  the family or the sweep.

### `jcrpc-gen`

`GenProofs`, from `RunsAssumption`, `NamesAssumption`, `InvocationsAssumption` (targets
are named by names), `PackagesAssumption` (what a plugin returns is a slice of files,
and a local name is not empty) and `DisksAssumption` (no path is both a file and a
directory); any packages and disks, any number of runs: `SuccessWritesAll`
(`SuccessIsComplete`), `RefusalTouchesNothing` (`RefusalLeavesTarget`),
`LinksNotFollowed` (`NeverThroughLink`). `GenInv`: the package being written passed the
checks, has no link on its paths and the file being written was opened (`Accepted`);
the files before the current one and those of the targets before are on disk
(`Written`), which later writes keep because paths of one accepted package and of
different targets differ; targets not reached, or not past the checks, are as the run
found them (`Untouched`).

### Release tools

`ReleaseProofs`, each tool from its own assumptions:

* `jcrpc-compat`, from `CompatAssumption` (the set of known targets is finite and not
  empty, a manifest is a sequence, there is an example contract; that a signed commit
  is no nil and 137 no exit code of the tool): `OnlyReleasedAdmitted`
  (`AdmittedIsReleased`) and `PrepareComposes` (`PreparedComposes`). `Check` compares the
  length of the manifest only with the number of known targets; that distinct known
  targets of that number are all of them needs cardinalities. `CompatInv` is the loop:
  the targets before the current one are verified releases, and cloning a later one
  does not touch them. `PrepareInv` adds that inputs before the current one are
  generated to the end, that no package directory is foreign as long as the inputs are
  the first ones, and that both Gradle files are written from the same directories.
* toolchain, from `ToolchainAssumption` (some artifacts and archives, the archives
  different and among the artifacts, at least one file each): `DigestsBeforeUse`
  (`NothingUnverified`), `SuccessComplete` (`ToolchainComplete`) and `StraysBounded`
  (temporary files are left by killed invocations only; no run checks it). `ToolInv`
  adds what holds on the way: while an invocation fetches, the artifacts before the
  current one are pinned (`Fetched`); while it unpacks, all of them are, the archives
  before the current one are unpacked whole and of the current one the files before
  `piece` (`Extracted`); after a success nothing changes until the next start. A kill or
  a failure leaves these premises, which is why nothing has to be remembered across
  invocations. That archives are pairwise different is needed: unpacking one must not
  undo another.
* `jcrpc-mutants`, from `CatalogAssumption` (names identify mutants) and
  `OutcomesAssumption` (only an output event has output; the missing log is no log):
  `KillsAreBacked` (`KillsBacked`) and `AttestsAllSelected` (`SuccessAttestsAll`).
  `MutantsInv`: every row of the table and of the invocation is backed by its logs, and
  its mutant has a fixture, so `os.Mkdir` keeps every later invocation out; the mutant
  at hand has no row yet; the rows are those of the selected mutants so far.
* `jcrpc-parity`, from `ParityAssumption` (no axis of the matrix is empty, the invocations
  without output are no selectors): `ReportsVouch` (`ReportVouches`) and `PlantsNoticed`
  (`PlantNoticed`).
  `ParityInv`: no case compared so far is one where the candidate differs (`Searched`),
  and until the byte is planted only cases without output were run (`Planting`). That
  the loops reach every case is `MatrixCovered`: each member of `Matrix` is the case at
  some place, which is where the flattened index of `FullCase` is divided out.

### Only model-checked

Liveness, which is outside the prover's reach: `EveryFrameAnswered`,
`EveryConnectionResolved`, `StopEndsServing`, `AwaitPortReturns`, `ReturnReleasesPort`,
`EveryStartResolved`. `StopEndsServing` has a theorem for its safety only
(`OvertakingStopKept`). The two violations of section 3 are counterexamples, which
need no proof.

## 5. Not modelled, and the plan

Not modelled: TOML decoding, name patterns and diagnostics; the bytes of frames
and install parameters; jCardSim, class loading, git, tar, Gradle, Swift, `go test`
and the code generation backends, which are not in this repository and appear as
constants or external actions. `codegen/generators.go` only forwards to those
backends. The stream runtime, with its sessions, is in the backends' repositories;
what this repository has of it is the contract (`Schema`) and the probe
(`WireProbe`). Generated clients are stateless encoders, emitted by those backends.
The scripts are glue around builds, links and child processes, and the end-to-end
programs are straight-line clients of the bridge. The network sandbox of `--mode
offline` is the operating system's. Of the golden skeleton `setCount`, `setEnabled`
and `getHash`, which the example applet does not have, are left out.

The order of the work: (1) `Bridge`, with `CardService` as its promise; (2)
`BridgeServer`; (3) `CounterApplet` and `IdealCounter`; (4) `Startup`; (5)
`Schema`; (6) `GenCLI`; (7) `Compat` and `Toolchain`; (8) `Mutants` and `Parity`;
(9) `WireProbe`; each with its run and its variants, and then the proofs of section
4. All of this is done. Next:

* the safety cores of the liveness properties, as action properties: that a frame
  being answered is not put back, that `start()` enters `accept()` at most once
  after a `stop()` has cleared `running`, that no step of `Main` returns to an earlier
  stage;
* a composition of `BridgeServer` with `Bridge` (a `stop()` while handlers work).
