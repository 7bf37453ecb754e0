# yandex-bridge, specified in TLA+

yandex-bridge is a Go process that shows the devices of a Yandex smart home to
Apple HomeKit. It polls Yandex, builds one HAP accessory per device, serves
them, forwards HomeKit writes, and keeps two files: the accessory numbers
(`aids.json`) and the OAuth token (`token.json`). This directory holds TLA+
modules of the parts that carry its logic, the TLC configurations that check
them and the TLAPS proofs about them. Source paths below are relative to `src/`;
`PROJECT.json` maps every definition to the lines it was translated from.

## The system

### Components

| component | source | state | operations | specified in |
|---|---|---|---|---|
| accessory id registry | `internal/bridge/registry.go`, `internal/atomicfile` | `next`, `assigned`, the file and its directory entry | LoadRegistry, Assign, Forget, save | `Registry`, `AccessoryIds` |
| topology supervisor | `internal/bridge/supervisor.go` | `current`, `candidate`, `candidateSeen`, channel `rebuild`, Run's `specs` | observePoll, Run, initialSpecs, serve | `Supervisor` |
| poll loop, reachability | `internal/bridge/sync.go` | `reachable`, `failures`, `accessories`, `confirm`, `confirming`, each accessory's `offline` | pollOnce, Apply, markReachable, markUnreachable, SetAccessories, confirmLoop, confirmDevice | `Link` (link and marks), `Health` (news), `Confirmations` (queue and windows) |
| accessory write path | `internal/bridge/accessory.go` | characteristics, `writeDirty`, `writeSched`, `expect` | setters, queueWrite, flush, send, Apply | `WritePath`, `WriteBuffer` |
| accessory construction, conversions | `internal/bridge/accessory.go` | none | BuildAccessory and its services, percent, kelvin and mired | `Mapping`, `Conversions` |
| device mapping | `internal/bridge/spec.go` | none; a poll's report in, a Spec out | BuildSpec, ShapeHash, describeMapping | `Mapping` |
| Bridge Health | `internal/bridge/health.go` | `problems`, the contact sensor | PollSucceeded, PollFailed, Report, Clear, Refresh, Rebuild | `Health` |
| token source | `internal/auth/source.go` | `current`, `status` | Token, ForceRefresh, Authorize, EnsureAuthorized, the watcher, RunRefresher | `TokenSource` |
| token store | `internal/auth/store.go`, `internal/atomicfile` | `token.json`, its backup, their directory entries | Load, Save | `TokenFile`, `TokenStore` |
| device flow | `internal/auth/deviceflow.go` | none that outlives a call | RequestCode, Poll, Authorize | `DeviceFlow`, run by `Process` |
| Yandex client | `internal/yandex/client.go`, `retry.go`, `errors.go` | none that outlives a call | UserInfo, Device, Act, retries, refresh on 401 | `YandexClient`, `Request` |
| Yandex data model | `internal/yandex/model.go`, `capability.go` | none | lookups, ActionResponse.Err | `Mapping`, `YandexClient` |
| process | `cmd/yandex-bridge/main.go` | none | order of start and stop, exit status | `Process` |
| status server, configuration, logging | `internal/status`, `config`, `logging` | none of their own | read only | not modelled |

### How they interact

```
  Yandex <--- client <--- Syncer.Run (polls) ----> Supervisor.observePoll --chan--> Supervisor.Run
                ^            |      |                                                 |    |
                |            |      +--> Health.PollSucceeded / PollFailed            |    +--> Registry.Assign
   TokenSource -+            v                                                        v
        ^               Accessory.Apply <-- confirmation windows <-- flush <-- HomeKit writes
        |                                                              (hap's goroutines)
   reauth watcher, RunRefresher, Health's switch
```

The goroutines are: the poll loop, one confirmation window per device at most,
one flush per accessory at most, hap's request handlers, `Supervisor.Run`,
Health's ticker, the token refresher and the reauth watcher. They share
`Syncer.mu`, `Supervisor.mu`, `Health.mu`, `Source.mu` and the accessories'
locks, and almost every one of them acts once more after it has released its
lock. That is where the models put their steps: one step per critical section,
one per loop iteration outside it, one per request.

### What is hard here, and what each part owes

* **Registry.** A HomeKit number means a device for ever, through failed saves,
  crashes between any two system calls, and power cuts that undo renames.
* **Supervisor.** HomeKit must not be rebuilt for a partial answer, must be
  rebuilt for a lasting change, must get the newest set, and the one-slot
  channel is filled while a lock is held.
* **Reachability.** Counting happens under a lock and marking after it; a
  recovery and a failure from two goroutines interleave accessory by accessory.
* **Write path.** hap commits a value after the setter has returned; the flush
  timer, a slow request and a poll of lagging state all read or write the same
  characteristic.
* **Health.** The news of several goroutines arrive in any order and the sensor
  is painted from a value that may be out of date.
* **Confirmations.** A bounded queue drops, a window ends on its first error or
  at its deadline, a rebuild takes its accessory away: somebody must still read
  what a write has done.
* **Token.** Yandex rotates the refresh token: whoever loses the new one has
  lost the grant. Refresh and Authorize save concurrently; status is shared;
  two files are replaced by two renames and a directory sync.
* **Client.** A request may be carried out although its answer is lost, in part,
  or later; every attempt may meet a 401 and refresh.
* **Mapping.** Services are numbered by position and rebuilt only when a
  fingerprint changes, so the fingerprint must not miss anything and must not
  react to the order of a list.
* **Device flow, process.** A code may live shorter than its polling interval, or
  die confirmed; a signal or a failure comes during any of it, and the exit
  status decides whether Docker starts the bridge again.

`PROJECT.json` lists the hazards at their lines with the properties that watch
over them.

## The modules

The models keep every guard, early return and error path that changes state.
Data is abstract: a device set is a value (its TopologyHash), a device's shape
is a value (its ShapeHash), a refresh token is a number. Definitions
preceded by "mutant:" are deliberately wrong variants of the next definition;
no specification uses them, they only show that a property notices the mistake.

### AccessoryIds, Registry

`AccessoryIds` is the promise: `issued` (bindings of number, device and shape
ever shown) and `live`. A step shows a set of bindings, each either shown before
or under a fresh number.

`Registry` is registry.go: `mem` is `Registry.next` and `assigned`, `disk` what
reading `aids.json` gives, `survivors` what a power cut may leave of it. `Assign`
is AssignUnchanged or AssignStage (memory changed, new file written and fsynced
under its temporary name), Rename, SyncDir, then Publish by the supervisor;
SaveFails is a failure of any of those calls with the rollback of registry.go:228.
`ForgetStage` goes through the same save. Exit, PowerCut and Writeback can
happen at any point. `FirstDeviceAID` is 3 as in the code; version 1 files
(entries without a shape) are initial states. `Registry!ImplementsAccessoryIds`
is the refinement: the two variables of the abstract module are variables of
Registry, so the mapping is the identity and every internal step is a stutter.

### Supervisor

One action per outcome of `observePoll` (the answer equals current, is a
candidate, is confirmed, is sent) and per step of `Run`. `sending` stands for
the lines between the drain of the channel and the send, where s.mu is held.
`agreed`, `agreement` and `confirmed` are history: they count answers
independently of the candidate, so that a property can say "the set that enough
successive polls agreed on" without quoting the code's own counter.
Polls go on while `Run` still waits for its own first answer, and may confirm and
queue a set meanwhile, as in the code. The answer then overwrites current
(`SetCurrent`), and the queued set is served all the same. `overtaken` is history: the
last set that `current` held was overtaken in this way, and none was confirmed since.
It is what QueuedIsNewestConfirmed, CurrentIsServed, ServedIsConfirmed and
HomeKitConverges except; `CurrentIsAlwaysServed` excepts nothing and is refuted by
`MCSupervisorEarly.cfg`.

### Link, Health

Both model `markReachable` and `markUnreachable`, each for the part that
matters to it. `Link` follows the `offline` flags: the loops over the accessories
are one step per accessory, polls and writes run them concurrently, windows read
a device's own state, SetAccessories replaces everything. `Health` follows the
news: what each goroutine is about to tell Bridge Health, what it counted in
`refresh` and what it is about to paint. The supervisor's goroutine brings news as
well, the `Report` of an initialSpecs that gets no answer (DiscoveryFails); writers and
rebuilds come after its answer (`found`). `cloud` is up, down, or `refusing`: reads are
answered, and a write may get an HTTP error that counts as a lost link.

### WriteBuffer, WritePath

`WriteBuffer` is the promise of the coalescing buffer: one request at a time, each
with every group that waited, nothing left behind.

`WritePath` is one accessory. `Request`, `Setter`, `Commit` are hap handing over a
request one characteristic at a time; Take, Build, ActSucceeds or ActFails,
RecordExpectations or ClearExpectations, End are `flush` and `send`; Fetch,
Check, SetValue, ApplyEnds are `Apply`, run by one or two readers (the poll loop, a
confirmation window). `device` is what the device has, `reported` what Yandex says
of it, which follows later; `Operated` is the device's own button or the Yandex
app. A settle window is a flag of each characteristic that may lapse at any moment: a
request may take longer (15 s against 10 s). `KeyOf` and `Carries` are the write
groups: one switch, or a lamp whose colour and brightness travel together.
Five constants say what a configuration lets happen: `Racing` (goroutines meet
between any two steps), `Hasty` (users write a characteristic again before its last
write is confirmed), `Slow` (requests and answers outlast the window), `Failing`,
`Shared`. The runs set all that matter to what they ask; only the configurations
below, which look for the shortest way to lose a write, turn some off. Two things
are one step although the code has several: the comparison with `Value()` and the
SetValue after it (setting the value that is shown changes nothing), and reading the
characteristics in buildActions and recordExpectations. A request that succeeds has
set everything it carries, so an answer that leaves a capability out is not in this
module; it is in YandexClient. `ImplementsWriteBuffer` maps `dirty` and `batch` to the
two variables of the abstract module.

Some writes the code does lose, and some choices do jump back. `owed` and `held` are
history that says of which characteristics the user may rely on the code: a
characteristic is *owed* once hap has committed it while its group still waits, until
an answer takes it back on the screen, its request fails or somebody else operates the
device; it is *held* from its setter on, unless an answer has passed `suppressed` by
then, until an answer agrees with it, its window lapses, a request fails, or
recordExpectations runs before hap's commit. LastWriteArrives and
ChosenStaysShown are about those; FinalPositionArrives and ChoiceNeverJumps are what
the code's comments and tests say without any exception.

### Confirmations

The channel `confirm` with its capacity, `confirming`, the goroutines in
confirmDevice, and the poll loop, over accessories that SetAccessories replaces.
What a read says is abstract: the model knows whether it was begun after the
last write that Yandex accepted, and `unread` is the devices whose accessory has
not been shown such a read. Accepted is the tail of `Syncer.Apply`, with the
`select` that drops on a full channel; Begin and Leave are confirmLoop and
beginConfirm; LooksUp, Ask, Applied, Expires, ReadFails, EndConfirm are a window, whose
goroutine looks its accessory up some time after it was started.
SetAccessories is the supervisor's, at any moment. Init, Next, Spec and the like are
called SyncerInit, SyncerNext, SyncerSpec here, because SupervisorProofs extends this
module beside Supervisor.

### Request, YandexClient

`Request` is what a caller may rely on: effects happen while the request is out,
success means all of them that the answer names, failure says nothing, there is an
answer.
`YandexClient` is one caller making call after call: `RetryPolicy.Do` (Try, GiveUp,
Sleep, Wake, SleepCut), `do` with its one refresh per attempt (Rejected,
Refreshed, RefreshFails, RejectedAgain), `doOnce` (Answered, Declined, Lost),
`ActionResponse.Err` over per-capability results, which may be missing (`omitted`,
carried out or not; Err takes them for done), and `Retryable` as the two sets
of errors. `wire` holds requests Yandex may still carry out; with `Delayed` they
outlive their attempt. Expire is the caller's context at any moment.

### TokenSource

The process (`pc`), the refresh under s.mu (`refresher`, `fresh`), Authorize
(`auth`, `grant`) and the file (`stored`). A save is one step, its rename: earlier
calls write files that Load does not read, later ones can only fail, which
RefreshSaveFails and AuthorizeSaveFails allow after the rename as well as before
it; `TokenFile` is the detail behind it. `valid` is the set of refresh tokens
Yandex accepts; a refresh may be rejected even with one of them (fatalGrantError takes
objections to the client and every 400 for the end of the grant). How old an access
token is comes from the clock and is left open.

### TokenStore, TokenFile

`TokenStore` is the promise: one step from the old token to the new one, final once
Save has returned. `TokenFile` is WriteWithBackup: stage the new file, stage a copy
of the old one, rename it to the backup name, rename the new one, sync the
directory; each may fail, the process may be killed and the power cut in
between. `primaries` and `backups` are what a power cut may leave of each name.
`Stored` (what Load returns) is the refinement mapping. `Damage` adds initial states
whose `token.json` does not parse.

### DeviceFlow, Process

`DeviceFlow` has the actions of one authorization in discrete time, one unit being
the 5 s of slow_down: the code at Yandex (open, confirmed, denied, spent, dead), the
polls and their answers, the interval, the deadline, the backoff. `Process`
extends it: `main` is where `run` is, Authorizing(step) lets the flow go on while
EnsureAuthorized waits for it, and Supervisor.Run's main loop, the HAP server of a
round, the background tasks and the context they share follow. Cut is the flow
noticing that the context is done. `failed` is the error `run` is going to return.
`refreshing` is a `Source.Token` that has asked for a new token: it passes no context
on, has no timeout and holds the mutex of the Source, so while it is out nothing makes
the tasks that ask the Source end. What a write starts after every other caller has
returned is left out.

### Mapping, Conversions

`device` is what Yandex says of one device, `spec` what BuildSpec makes of it; the
actions change the report (a capability or a property comes, goes, changes its
parameters, the lists are reordered). kindFor, overrideKind, colorFor, sensorsFor,
togglesFor, brightnessFor and targetTemperatureFor keep their names, ShapeHash is
the tuple that is hashed, BuildAccessory the sequence of services with their
characteristics and limits. A lookup finds the first entry that matches (`First`);
`Only` is a SelectSeq that can be proved about. `Conversions` has the pure conversions both ways; the
round trips are checked on every range that a mapped control can convert with.

## The runs

| run | what it asks | bounds |
|---|---|---|
| `registry` | AidsNeverShared, IssuedIsDurable, SettledKeepsAid, refinement of AccessoryIds | 2 devices, 2 shapes, numbers up to 6, two version 1 files |
| `supervisor` | no blocking send, only confirmed and newest sets, HomeKit converges | 3 sets, 3 confirmations, polls before Run's first answer |
| `health` | outage, token trouble and recovery end up shown | one writer, failures up to 3, initialSpecs failing at will |
| `link` | a vanished device ends up Not Responding | 2 devices, 1 writer, threshold 2 |
| `writes` | one flush, no stranded write, refinement of WriteBuffer | lamp with 2 characteristics and 2 write groups, Racing, Hasty, Slow, Failing; no readers, which do not touch the buffer |
| `writes_read` | the last write arrives, what was chosen stays shown, HomeKit converges to the device | 1 switch, 2 readers, everything allowed: Racing, Hasty, Slow, Failing, Shared |
| `confirmations` | one window per device; in the end every write was read, the queue is empty and no window is open | 2 devices, queue of 1 |
| `client` | bounded load, a reported success is true of what the answer names, refinement of Request | 2 capabilities, 3 attempts, 2 calls told apart |
| `token` | a restart can refresh, a bridge that needs its user recovers | 5 tokens |
| `tokenfile` | a token can always be read, refinement of TokenStore | 3 tokens, all initial backups |
| `mapping` | no dead control, no lost reading, no drift, fingerprint and layout change together | 4 types, at most 3 of 11 capabilities and 2 of 5 properties, 3 config entries |
| `process` | exit status, the end comes; the flow's polling distance, no untried code, Authorize ends | intervals 5 and 10 s, lifetimes 5 and 20 s, backoff up to 20 s, 2 slow_downs per code, refreshes at will |

Why the bounds are enough for what the runs ask:

* *registry*: two devices are the fewest that can share a number, two shapes the
  fewest that reshape. Room for four numbers lets both devices be
  numbered, reshaped, forgotten and numbered again; only AssignStage is
  cut off by it (`MaxAID`), so the process can always go on.
* *supervisor*: the running set, a candidate and a third that interrupts it;
  three confirmations are the default and the fewest with a state between "first
  seen" and "confirmed". Nothing else is bounded.
* *health*, *link*: counters stop at the threshold, above which the code does not
  tell them apart (`FailureCap`, `UnhealthyAfter`). One writer races the poll
  loop, and two accessories are the fewest where a loop is half done.
* *writes*: the buffer, the timer and the flush are per accessory, do not look at
  values and do not know of readers. Two keys are the fewest of which one is added
  while the other is in a batch, and the lamp's colour carries the brightness.
* *writes_read*: one characteristic with two values shows a write, its opposite, a
  repetition and a stale answer. Two readers are what the code can have at once
  (the poll loop and the window that every accepted write opens), and let an older
  answer be applied after a newer one. That several characteristics in a request do
  not get in each other's way is proved (`WritesArrive`, `ChosenIsKept`, for any
  characteristics and groups).
* *confirmations*: the other device fills a queue of one, as 32 others fill the
  real one. Windows and their reads are unbounded in number.
* *client*: two capabilities are the fewest of which one succeeds and one fails,
  three attempts the fewest with a first, a middle and a last. Calls are
  numbered modulo two, so the run goes on for ever.
* *token*, *tokenfile*: memory, the refresh, Authorize and the file hold at most
  four tokens; the fifth is the new one. Tokens nobody holds are used again, so
  the runs are unbounded in time (`NewToken`).
* *mapping*: every decision of BuildSpec looks at no more than three capabilities
  (on/off, a range, a colour setting or a toggle); the spans have the cases that
  the code tells apart: missing, inverted, percent with and without 0, wider.
* *process*: a lifetime shorter than an interval and one of several polls; the
  backoff doubles twice before its cap; slow_down lengthens an interval twice.

Every run checks for deadlock: there is always a tick, a user or a cloud that can
go on (in `process`, a step that says that the process has exited).

### Configurations that show where the code departs from its text

These are not part of the runs; each is refuted by TLC within seconds
(`tlc -config <file> <module>`), and `PROJECT.json` describes what it shows under
`findings`.

| configuration | module | refuted |
|---|---|---|
| `MCRegistryPowerCut.cfg` | MCRegistry | AidsNeverShared, when a rename may be undone after the next process has read the file |
| `MCSupervisorEarly.cfg` | MCSupervisor | CurrentIsAlwaysServed: the first answer of Run overtakes a set that polls have queued |
| `MCLinkStuck.cfg` | MCLink | PresentRecovers: a mark made by a slow loop is never cleared |
| `MCWritePathPolled.cfg` | MCWritePath | FinalPositionArrives, with a request that outlasts the settle window |
| `MCWritePathToggle.cfg` | MCWritePath | FinalPositionArrives, with off, on, off within the cloud's delay |
| `MCWritePathJump.cfg` | MCWritePath | ChoiceNeverJumps, with two readers that overlap |
| `MCTokenSourceCode.cfg` | MCTokenSource | CodeIsShown: a failing refresh wipes the code from the status |
| `MCConfirmationsLeft.cfg` | MCConfirmations | WindowSeesNewerState: a window ends without reading a write left to it |
| `MCYandexClientBusy.cfg` | YandexClient | BusyIsRetried: only the first of several errors is looked at |
| `MCYandexClientLate.cfg` | YandexClient | SuccessStands, with requests that Yandex carries out late |
| `MCTokenFileDamaged.cfg` | MCTokenFile | AlwaysReadable, starting from a damaged `token.json` |
| `MCMappingReport.cfg` | MCMapping | ReportIsTrue: a brightness is reported as mapped without a characteristic |

### Fairness, and why the code justifies it

* Poll, health and minute tickers fire for ever; each is a Go ticker in a loop
  that only ends with the process. Weak fairness on the corresponding actions.
* Goroutines are scheduled: a loop, a `refresh`, a `flush` that has begun goes
  on. Weak fairness on the continuations.
* Requests end: writes after 15 s (`bridge.go:20`), reads and the device flow with the
  30 s of their HTTP client (`source.go:348`, `deviceflow.go:104`). Weak fairness on
  "succeeds or fails", never on "succeeds". One request has no deadline: the refresh
  that `Source.Token` makes under context.Background() with oauth2's default client
  (`source.go:166`). `process` does not assume that it ends; EndComes has it as its
  hypothesis, and `EndAlwaysComes`, without it, is false. The other liveness
  properties speak of a bridge whose refreshes end, one way or the other.
* `writes`: timers fire, a flush that has begun goes on, the vendor's cloud catches
  up and settle windows run out; nothing makes a request succeed.
* `confirmations`: the poll ticker fires and some poll is answered (strong fairness:
  a home that is never reached again shows nothing); confirmLoop runs, and every
  window's deadline passes.
* `client`: code runs, requests end, timers fire; nothing makes a request succeed.
* `tokenfile`: system calls return.
* `process`: time passes and goroutines run. A select that has both the context and
  another channel ready takes the context some time (strong fairness on StopServer
  and Cut), a server that was told to stop returns. A task that was told to stop
  returns, unless a refresh is out again and again that it may be waiting for (strong
  fairness on the tasks' ends while none is; the status server needs no token). For AuthorizeEnds the
  outside must work out some time as well: a code of each kind is issued, the user
  confirms one in time, its poll is answered (strong fairness, because expiry
  disables each of them in between).
* `token` also assumes that what can fail does not fail for ever: the service
  manager restarts the process, the user enters one of the codes, the disk takes
  one of the saves (strong fairness, because a crash may disable each of them
  in between). Without it no recovery can be promised.
* Nothing makes a user write, a device change or a rebuild happen.

## The proofs

TLAPS checks the eight `*Proofs` modules for every value of the constants. Every
safety invariant that a run checks is proved; so are the safety halves of the
three refinements and that of AccessoryIds, and every type invariant. Of seven of the
liveness properties the safety half is proved as well: a predicate says what it takes
for the promise to be kept for good (it is shown, and nothing older is on its way
that could undo it), and the theorem that no step leaves it while the occasion
lasts. That it is reached is left to fairness and to TLC. Some theorems assume one of
the constants that say what a configuration lets happen; each time the README names
the configuration that refutes the property without it.

What the constants are assumed to be is stated beside them: bounds are positive
numbers, there is a longest interval and a longest lifetime (`LongestAssumption`),
`None` and the marks a model uses are none of its values (`NoneAssumption`,
`CharsAssumption`), a capability's range is one of `Spans` (`SpansAssumption`),
toggles have names (`TogglesAssumption`). TLC evaluates all of them.

**RegistryProofs** assumes `WritebackBeforeRestart`: a renamed file reaches the
platter before the next process has read it (otherwise the property is false,
`MCRegistryPowerCut.cfg`). TypeOK, AidsNeverShared, IssuedIsDurable, SettledKeepsAid
and the refinement are proved from one inductive invariant. AidsNeverShared alone
says nothing of files; the invariant adds that *every* file a power cut may leave, the
memory and the rollback copy are `Sound`: distinct numbers below the watermark,
served numbers known and held only by their device, the numbers of settled
devices kept. It also says how files and memory relate in each stage of a save
(`FilesHoldMemory`, `RenamedIsMemory`), since Publish is only safe because every
surviving file already knows the numbers. The lemmas about `Rank` (bounded,
monotonic, injective) say that one Assign gives different numbers to different
devices, and `AssignEffect` what AfterAssign returns.

**SupervisorProofs** is about the supervisor and the components whose accessories it
replaces. Supervisor: nothing is assumed of the threshold but that it is positive, nor
of when polls come. The invariant ties the code's counter to the history's
(`CandidateIsAgreed`: the candidate is the last answer, seen as often as it was given in
a row), says that what is queued is current and was confirmed, and that Run builds from
current unless something newer is on its way, each unless `overtaken`. Proved from it: SendNeverBlocks, QueuedIsNewestConfirmed,
CurrentIsServed, ServedIsConfirmed. `ConvergedStays`: a server that was built from the
answer Yandex keeps giving is not replaced (`ConvergedOn`: current is that set, too, and
the channel holds no other).

Confirmations, for any devices and any capacity of the queue: SyncerTypeOK; OneWindow
(the windows are lists and there are as many as `confirming` says, which Begin and
EndConfirm change together and all other steps leave alone); and the two halves of
EveryWriteIsRead that fairness does not give. `NextPollCatchesUp`: a poll that is asked
once nobody writes or rebuilds any more, and is applied, leaves no write unread,
whatever the queue has dropped and the windows have missed, since what it reads is
newer than every write of a served device (`Undisturbed`). `ReadStaysRead`: nothing
makes one unread again.

Health (instance `Sensor`) and Link (instance `Flags`), under the assumptions of those
modules, for any writers, devices and thresholds: their types, and what becomes of
their promises once they are kept. `OutageStaysShown`, `TokenTroubleStaysShown` and
`RecoveryStaysShown` rest on `Alarmed` and `Calm`: the problem is recorded or gone, and no
goroutine is on its way with older news or about to paint an older value.
`VanishedStaysShown` and `PresentStaysResponding` rest on `Vanished` and `Present`: the
mark is there or not, and no loop, answer or rebuild from before is left that would
change it. TLC confirms that Alarmed, Calm and Vanished are reached for good whenever
their occasion lasts. Present is not: that is what `MCLinkStuck.cfg` shows, a device
that was marked by a slow loop after its recovery.

**WritePathProofs** proves TypeOK, OneFlush and DirtyIsScheduled for any
characteristics, keys, values and readers and with every interleaving allowed: the
last two imply each other's step, so the invariant is both of them with the buffer's
types. With `IdleIsEmpty` (a flush that is not running holds no batch) every step is
a step of WriteBuffer or a stutter: `BufferRefinement`, the safety half of
ImplementsWriteBuffer. LastWriteArrives (`WritesArrive`) and ChosenStaysShown
(`ChosenIsKept`) are proved under the module's assumptions alone, for any
characteristics, values, groups, readers and interleavings. Neither property is
inductive: `OwedInv` follows what is owed from the buffer over the batch and the
request to the device, `HeldInv` what is held to the expectation that protects it. What
`owed` and `held` let go of is what the code loses; `MCWritePathPolled.cfg`,
`MCWritePathToggle.cfg` and `MCWritePathJump.cfg` show that.
`ShownStays`: once HomeKit shows a characteristic as the device has
it, Yandex reports it and no reader holds an older answer (`ShownAsIs`), it goes on being
shown until somebody touches the device. That is the safety half of HomeKitShowsDevice.

**TokenSourceProofs** proves TypeOK and RestartCanRefresh for any number of tokens,
as long as no grant replaces an older one (`~GrantReplaces`). Its invariant says
where the only token Yandex accepts may be in each stage of a refresh and of
Authorize, that what is in hand is valid until Yandex takes it, and
`FileIsBehindRefresh`, which is stronger than the property: until a token is revoked
or lost in a crash, only a refresh whose answer has not been saved leaves a file
behind that cannot be refreshed, a grant never does.

**YandexClientProofs** proves TypeOK and BoundedLoad without any assumption about
Yandex: in each stage of a call, what it has sent and refreshed is bounded by the
attempt it is in. SuccessStands and `RefinesRequest`, the safety half of
ImplementsRequest, assume `~Delayed` (otherwise SuccessStands is false,
`MCYandexClientLate.cfg`): then an attempt that is over has left nothing on the wire
(`NothingLeftBehind`), and what an answer says of a capability is what the device did
(`ResultsAreTrue`). Of a capability it leaves out it says nothing; SuccessIsOfAll, which
is about those too, is false.

**ProcessProofs** covers Process and the DeviceFlow it extends: TypeOK,
OwnEndIsAnError, PollsKeepTheirDistance and EveryCodeIsTried, for any intervals,
lifetimes and backoff. The invariant of the flow says that the sleep that is left
and the time since the last poll together make up the interval (`Rested`), that the
bridge's interval is behind Yandex' own by no more than a slow_down that has not
arrived yet (`KeepsUp`), and that a code that has not been polled is still waiting
(`Tried`); the invariant of `run` says which stages have a
server and an authorization and what reason every end has. `WaitsForTheTold` is the
safety half of EndComes: `run` waits only for tasks that were told to stop and for a
server that is there, and a failure leads straight to the end. That those who were
told return is not proved, and not so while a refresh stays without an answer.

**MappingProofs** proves TypeOK and the five properties of Mapping for lists of any
length, any capabilities, properties and config; TypeOK needs overrides to have one of
the types that config.go accepts.

* SameShapeSameLayout: `HashFields` takes the fingerprint apart,
  `HashDeterminesLayout` says that every part of the layout is a function of what it
  holds: the services depend on the readings only as a set, because
  addSensorServices visits them in its own order.
* NoDeadControl, EveryReadingIsShown and ReorderKeepsShape need the invariant
  `MInv`: the lists hold what may be reported, nothing twice, and the spec is the one
  BuildSpec makes of them. "Nothing twice" is what makes the first match of a lookup
  independent of the order (`SameFirst`). TypeOK follows from it, too: a spec has the
  fields of its kind and names no reading twice (`SensorsDistinct`), which is why the
  fingerprint may take the readings as a set.
* NoDrift for every range of integers, where the run has only those of its `Spans`:
  rounding is taken by the inequalities that fix it (`QuotientIs`), after which the
  round trips of percent and mired are arithmetic (`BrightnessAlwaysAgrees`,
  `KelvinAlwaysAgrees`).
* `Only` is recursive, and what it returns is proved nevertheless (`OnlyIs`):
  the library's induction theorem is out of reach, but the smallest counterexample
  of a *set* of numbers is not (`SmallestNat`, `UpTo`).

**TokenFileProofs** assumes `~Damage`: the first process does not find a damaged
`token.json` (otherwise AlwaysReadable is false, `MCTokenFileDamaged.cfg`).
AlwaysReadable says too little of the stages of a save to be inductive. The
invariant adds that every `token.json` a power cut may leave is whole
(`PrimariesAreWhole`), that none of the pairs it may leave joins a missing
`token.json` with a damaged backup (`CutsAreReadable`), and that what is renamed over
the backup is what `token.json` holds (`SaveStages`). From the last one
`BackupIsHidden`: that rename changes nothing Load returns, now or after a power cut,
so only Replace is a step of TokenStore. TokenIsReadable and `StoreRefinement`, the
safety half of ImplementsTokenStore, follow.

Left to TLC: liveness and everything under fairness, which the prover cannot reach.
Of HomeKitConverges, the three properties of Health, VanishedIsShown,
HomeKitShowsDevice and EveryWriteIsRead that is only that the settled state of the
theorems above is reached at all, of EndComes that everybody who was told to stop
returns once refreshes do; RecoversOnItsOwn and AuthorizeEnds are model-checked only, and so are the fair
halves of the refinements.

## What the models found

`PROJECT.json` quotes the lines. The configurations above show twelve of them.
Stated in the modules with the remark that the code does not have them, and refuted
under the constants of the passing run: `BlipIsHidden` (Link),
`ContactShowsProblems` (Health), `EndAlwaysComes` (Process), `SuccessIsOfAll`
(YandexClient), `NextTickTriesAgain` and `FirstPollShowsState`
(Confirmations), `OnlyUnconfirmedIsReplaced` and `ReturnsOnlyOnSuccess`
(DeviceFlow), `ShapeChangeIsReal` (Mapping), and with `Actions = {}`
`TimeoutsAreRetried` (YandexClient). Without a formula of their own: an interleaving
of hap's commit and a flush loses a write (FinalPositionArrives with Racing and no readers); a
refresh and Authorize may save in the opposite order of their publication
(`TokenSource` with GrantReplaces); PollFailed's threshold ignores the setting; a
rollback after a failed SyncDir leaves memory behind the file; a failed request drops
the expectations of later writes; a rounded hue or clamped brightness is
never confirmed; the two modes of a thermostat can come apart.

## Not modelled

* The status server's endpoints: they copy snapshots of other components. That it
  starts, stops and may fail is in `Process`.
* Configuration: read and validated once at start; its thresholds are constants.
  Logging: output.
* Decoding of JSON answers; an unreadable span is a missing one. A file
  `aids.json` that does not parse stops the start.
* The current mode of a thermostat, which the setter of the target mirrors; the
  values of sensors and batteries, which are copied as they are; hue, saturation
  and the target temperature, which are rounded only.
* A write that waits for its coalescing timer when the process is told to stop: the
  timer's goroutine is not in the WaitGroup of main.go, so the write may be lost.
  The repository promises nothing of it.
* How long delays are (jitter, Retry-After): their number and order are kept.
* hap itself, except for the order in which it calls setters and commits values.
* Request and YandexClient are not substituted into WritePath: there, what a
  request does is decided in the step in which it ends, which `Request` allows, and a
  success is one of every action, which `Request` does not promise.
* A settle window of zero: the bridge then records no expectation. In WritePath all
  windows may lapse at once.

## What could follow

1. The thermostat in WritePath, as a characteristic that its setter moves along.
2. TokenSource over TokenStore, so that its one-step save is replaced by the promise
   that TokenFile is proved to keep.
3. Reading the configuration: defaults, environment and validation as operators.
