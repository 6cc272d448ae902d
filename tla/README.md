# Verification of the GizOS Runtime and H2Loader

TLA+ models of the concurrent core of GizOS and of its update procedure, the TLC configurations that check
them on small instances, and TLAPS proofs that hold for every instance. The
source is the reference: each definition that stands for code is listed with
its lines in `PROJECT.json` under `map`. Paths below are relative to the root
of the repository; `R/` is `libs/runtime/src/`, `L/` is
`projects/h2loader/libs/h2loader/src/`.

## 1. The system

GizOS is layered: applications, the Runtime and libraries, the Platform
Abstraction Layer (PAL), the platform providers, boards and SDKs. The Runtime
is where the threads meet. H2Loader installs applications and new versions of
itself, and is where a loss of power meets flash.

| Part | State | Operations | Runs on |
|---|---|---|---|
| State publication, `R/h2_runtime_state.c` | three banks, active index, one reader count per bank, dirty flag, generation | mark dirty, publish or defer, read begin, copy, read end | one writer (the input worker under the writer mutex), any reader |
| Event queue and wake slot, `R/h2_runtime_event.c` | bounded FIFO, one-token wake queue, 32-bit sequence, drop counters, report lock | enqueue, notify, poll, wait, report drops | any producer, one main loop |
| Custom events, `R/h2_runtime_custom_event.c` | closed flag, in-flight count | post, notify, close and drain | App tasks, deinit |
| Input worker, `R/h2_runtime_input.c` | sources, pending list, retained edges per button, publication flag | poll sources, consume push edges, requeue, publish, send, fault | input task |
| Worker lifecycle, `R/h2_runtime_input.c` | phase, stop request, result, two task handles | start, stop with joins, fault, destroy | owner, input task, NFC task |
| System events, `R/h2_runtime_system_event.c`, `R/h2_runtime_system_state.c` | subscriptions, active flag, station and modem state under a lock | start, handler, stop, release | platform threads, init and deinit |
| Construction and teardown, `R/h2_runtime.c` | the order of all of the above | init, destroy | owner |
| System Event provider, `libs/pal/providers/posix/pal_core/src/h2_posix_system_event.c` | slots with active, in-flight, waiters, generation | init, post, subscribe, unsubscribe, deinit | any thread |
| Saved Wi-Fi, volume, test control, component mapping | key-value entries, sessions, tables | see section 7 | App tasks |
| H2Loader, `L/h2_loader_boot.c`, `L/h2_loader_command.c`, `L/h2_loader_package.c`, `libs/bundle/src` | two partitions, their records, the Stage record, package files, data tree with `.checksum`, boot intent, OTA state of the ROM | startup, install, copy, finalize, stage, cancel, recover, reboot, reset | Loader or App, one at a time; the ROM |

How they interact: providers post platform events to handlers of the Runtime,
on the posting thread. The handler publishes the system state and queues an
event. The input worker turns samples into events, publishes the component
states, then sends the events. Each send leaves a token in the wake slot. The
main loop takes the token, drains the queue and reads states whenever it wants.
`h2_runtime_destroy` stops the workers, closes the queues, drains the posters
and takes back the subscriptions before it frees the memory they all share.

A package reaches the device as a Stage: a file and a record. The Loader in
Partition 1 installs the Stage into Partition 2 and the data tree and starts
Partition 2 on trial. An App confirms itself and drops the Stage; a Loader
confirms itself, copies itself over Partition 1 and reboots there, where startup
drops the Stage. A trial that is not confirmed ends with the ROM going back to
the other partition.

What is hard to test in this: a reader preempted between two loads while banks
are reused; a full queue in the middle of a batch of button edges; a poster
between its first look at the Runtime and its claim; a fault of one task while
the owner starts or stops; an unsubscribe that races a call, a nested post and
a reuse of its slot; a reset between any two of the writes that an update makes;
a reboot call that fails after it has selected the next partition.
`PROJECT.json` lists each as a hazard at its line with the
property that would catch it.

## 2. Modules

| Module | Models | Abstract specification | Proofs |
|---|---|---|---|
| `RuntimeState` | state publication | `StateSnapshot` | `RuntimeStateProofs` |
| `RuntimeEvent` | event queue, wake slot, custom events, tail of destroy | | `RuntimeEventProofs` |
| `RuntimeInput` | button pipeline of the input worker | | `RuntimeInputLists`, `RuntimeInputProofs` |
| `RuntimeInputWorkers` | start, stop, fault, destroy | | `RuntimeInputWorkersProofs` |
| `RuntimeSystemEvent` | system events, system state, drop reports | | `RuntimeSystemEventProofs` |
| `PosixSystemEvent` | POSIX System Event provider | `SystemEventContract` | `PosixSystemEventProofs` |
| `LoaderFlash` | what survives a reset, the ESP power provider, the boot ROM (external) | | |
| `LoaderStage` | stage commands, publish recovery | | |
| `LoaderInstall` | install into Partition 2 and the data tree | | |
| `LoaderBoot` | startup, copy, finalizer, reboot, faults; composes the three above | `BootContract` | `LoaderBootInv`, `LoaderBootProofs` |

Each `MC...` module gives the small sets of a TLC run. Definitions named
`Mutant...`, or commented as mutants, are plausible mistakes in the code (a dropped check, a forgotten
decrement); each property is violated when its mutant replaces the definition
it stands before.

### RuntimeState

Every atomic access of `read_begin`, `read_end` and `publish` is one step of a
reader or of the writer. A bank is two numbers: the generation that wrote its
header and the one that wrote its entries, which is what a torn copy would mix.
`Init`, `PublicationInit`, `MarkDirty` are the writer's setup; `PublishBegin`,
`ScanFree`, `ScanPinned`, `Defer`, `ClearBank`, `WriteHeader`, `FillEntries`,
`Switch`, `ClearDirty` are one publication; `ReadBegin`, `LoadActive`, `Pin`,
`CheckReady`, `CheckActive`, `Unpin`, `Retry`, `CopyHeader`, `CopyEntries`,
`ReadEndReady`, `ReadEnd` one read. `StateSnapshot` is an atomic register:
`Publish` stores the next generation, `Capture` takes the current one, `Return`
gives it to the caller.

### RuntimeEvent

Posters, the main loop and the destroyer are three kinds of processes. A post
is `PostCall`, `Claim`, `CheckDoor` (or `BackOut`), `TakeSequence`, a send,
`Notify`, `Leave`. The main loop is the one the header prescribes: wait, drain
events, drain the libraries' own work (`DispatchWork`, external), wait. The
destroyer is `DestroyBegin`, `CloseQueue`, `CloseWake`, `StoreDoor`,
`ReadInFlight` until it reads zero, then `TearDown`. Sequence numbers are
taken modulo `SequenceModulus` and skip 0, as `h2_runtime_next_sequence` does
with its separate store and retry. The PAL queue is its contract: FIFO,
bounded, closing refuses sends and wakes waiters, items already in it remain.

### RuntimeInput

A task holds the writer mutex for a whole poll, so what it does to its own
lists is one step; each publication and each send is another, because readers
and the main loop act in between. The list operations `AppendEvent`, `Spill`,
`Retain`, `Evict`, `KeepOrDrop`, `Requeue` are translated as operators on a
record of the lists (`Lists`, written back by `Store`). A loop of the code is a
recursive function of the number of rounds done: `Sifted` for the pass over the
pending list that `spill_source_pending_events` and `enqueue_pending_events`
make, `RequeuedEdges` and `RequeuedSources` for `requeue_retained_edges`,
`Taken` for the sources that take part in one reading. A retained edge is its
number and the set of what is owed of it, the flags `edge_owed` and
`action_owed`. `Take` is what one source emits, `Post` one event of it, which is
`outstanding` until it is received or counted as dropped. Time is abstracted to
edge numbers: edge 2n-1 is the n-th press of a source, 2n its release. `board`
is chosen in `Init` among single buttons, radio groups and push buttons.

`enqueue_pending_events` tells a full queue from every other error of a send. On
a full queue what is pending is kept or dropped and counted (`SendFull`,
`FaultSent`). On another error, and every send fails once the queue is closed,
it empties the pending list and counts nothing (`SendFails`, `FaultSendFails`,
with `Discard`); the events then are in `lost`.

Two tasks end in `input_worker_fault` when they cannot sleep: the input task
and, on the boards in `NfcBoards`, the NFC task (`Fault(t)`). `FaultPublish`,
`FaultRetry`, `FaultGiveUp`, `FaultSend`, `FaultSent`, `FaultSendFails` are
`release_held_buttons_locked` with its three attempts to publish; `FaultSkipped`
is a fault that cannot take the writer mutex and releases nothing. `CloseQueue`
is what follows in both cases, the stop request and the close of the event
queue. It waits for no mutex, so the fault of the NFC task may close the queue
under a poll, or before the input task's own fault sends its releases.

### RuntimeInputWorkers

One owner calls `h2_runtime_input_start`, `h2_runtime_input_stop` and
`h2_runtime_destroy` in series, as their contract asks; tasks run beside it. A
task is named by its entry function and the start that created it, so a task
that outlives its handle can be told from the next one. Every store of phase,
stop request and result by a task is a step. Starting and joining a task may
fail. `orphaned` records that `h2_runtime_input_start` ignored a failed join
while it took back a start; `skipped` that a fault could not take the mutex. A
poll and the release of a fault announce what they did (`Announce`): the wake
token comes only if the event queue takes an event. That a test-control session
owns the sources, and that a poll may fail because the input is not ready, are
left out.
`hasNfc` is chosen in `Init`.

### RuntimeSystemEvent

The published state is a set of `Cells`. A type always writes its `Own` cells
and writes those in `Optional` when its event knows them: all station types
write the one station snapshot, a modem type writes its field and, for four
types, the radio technology; other types write nothing. The n-th event
dispatched carries the number n. A handler call is `Dispatch` (external),
`CheckActive`, `Publish`, `PublishUnlocked` or `RejectPayload` (a payload that
cannot be mapped), `SendAccepted`, `SendFull` or `SendFails`, `NoteDropped`, and
the report: `TryReport`, `LoadTotal`, `WriteReport` or `SkipReport`,
`ClearLock`. `PublishUnlocked` is `publish_system_state` when the lock is
missing or cannot be taken: nothing is written, and the event is queued. The
history variable `missed` holds the cells this happened to last. The tick of the
input worker reports too. Init subscribes one type at a time and rolls back on a
failure; deinit takes the subscriptions back last first. `Serial` is the
constant that says whether the platform runs handlers of types that share a
cell one after the other.

### PosixSystemEvent

One action is one critical section of the provider's mutex. The place
`<<t, d>>` is the post of thread `t` at nesting depth `d`; handlers may post,
subscribe and unsubscribe themselves and others. Waiting on the condition
variable is `asleep`; a broadcast, or a spurious wake-up, empties it.
`SystemEventContract` states what `h2_pal_system_event.h` promises:
subscriptions are made once, a call starts only for a live subscription, an
external unsubscribe returns only when no call of it is running.

### LoaderFlash, LoaderStage, LoaderInstall, LoaderBoot

Each action is one durable write of the code, at the place `pc` of the call that
makes it, so that `Reset` can come between any two writes. `Fail` is a call that
fails before it has written anything and ends startup, command or finalizer;
failures that the code answers with writes of their own are actions
(`ReceiveFails`, `CommitFails`, `RecoverFails`, `InspectFails`, `SelectFails`,
`RebootFails`). Packages are opaque values with an image, a data tree and a
format. A record is an image and the package it came from. A partition being
written is `Torn`.

* ROM and provider (`LoaderFlash`): `SetNext` is `esp_ota_set_boot_partition`
  behind the test for the running partition
  (`native_component_src/esp-idf6.x/h2_pal_core/src/h2_esp_platform_power.c:140`).
  `GivenUp`, `Chosen` and `PowerOn` are the bootloader with rollback enabled: a
  new image starts on trial, an unconfirmed trial is aborted at the next boot.
* Staging: `BeginStage`, `BeginTemporary`, `BeginPackage`, `ReceiveOpen`,
  `Publish`, `CommitStage` are the two stage commands; `CancelStage`,
  `DropStage`, `DropFile` are cancel and `finish_stage`; `Recover`,
  `RecoverFile`, `RecoverStage` are `h2_loader_package_recover_publish`.
* Install: `Inspect` verifies and plans; `InvalidateTarget`, the data steps, the
  image steps (`WriteSegments` for format 2, `WriteApp` for format 1) and
  `RecordTarget` follow in the order of the package's format.
* Startup: `Seed`, `Confirm`, `Converge` and `ConvergeLoader`, `StayInLoader` or
  `Proceed`, `NoLaunch` or `Launch`. A Loader built with a factory
  session (`SessionImages`: its main sets `before_startup`) runs startup a second
  time when the session ends (`StartupAgain`). The manufacturing gate is a free choice.
* Copy: `InvalidateLoader` to `CopyDone`. Finalizer: `FinalRecord`,
  `FinalConfirm`, then `DropStage`. Reboot: `StartReboot`, `SelectNext`,
  `Restart`.

`rejected` and `doubt` are history variables for `NotRelaunched` and
`StageKept`. `cached` is the intent startup read, which the code restores when a
reboot fails, even if another was stored since.

`BootContract` says that the partition a reset would start is never written and
always holds a whole image. After a reboot call that failed (`undone`) the
selected partition may be written, while the other one is whole.

## 3. Runs

| Run | Checks | Size |
|---|---|---|
| `state` | no validated reader's bank is rewritten; a copy comes from one publication; reads never go backwards; the publication implements `StateSnapshot`; reads return; a dirty state is published | 2 readers, 3 banks, 3 generations |
| `event` | no admitted call when the drain ends; no lost wake-up, for events and for the libraries' work; sequences ordered over the wrap; accepted events are received; destroy ends; a blocked consumer is released | 2 posters with 2 calls each, queue of 2, modulus 17 starting at 16 |
| `input` | the level the main loop ends with is right; no overtaking; every event accounted for, except those a failing send discards; no event before its snapshot; a fault of the input task releases every button; the level is received | 4 boards with 3, 2, 1 and 1 presses per source, one of them with an NFC task and a failing send; queue of 1, pending 4, retained 2 |
| `workers` | no task when stopped; a fault of the input task releases the button; no start on a closed queue; a stop returns | 2 starts, 1 failing join, with and without NFC |
| `system` | state never behind an event, unless its publication found no lock; no handler after the lock is gone; no drop announced twice; drops are announced | 2 handlers, two station types with one cell and a type that publishes nothing, queue of 1, 3 events, `Serial` |
| `posix` | counts exact; slots keep their owner; no call by an earlier post; no wait for the own thread; implements `SystemEventContract`; unsubscribe and deinit return | 2 threads, 2 slots, depth 2, 2 subscriptions |
| `loader` | records are true wherever a reset comes; implements `BootContract`; a candidate that was given up is not launched again; the Stage outlives its update; a device left alone comes to rest | one Loader package, two packages of one App with different data, formats 1 and 2; any commands, resets and failures |

Five runs show where the code does something else than a comment or header
says. Their properties quote the line, and `PROJECT.json` says how it comes
about.

| Run | What happens |
|---|---|
| `event_free` | A post that began before deinit but has not claimed its place is not waited for; the header promises that it is. |
| `workers_frozen` | The NFC task faults and releases the button; the input task presses it again before it is told to stop. |
| `workers_free` | The NFC task cannot be started and the join of the input task fails: its handle is forgotten, and destroy frees the Runtime under it. |
| `workers_wake` | A fault closes the event queue, but a consumer can only block on the wake queue, which nobody closes or fills. |
| `system_race` | Two threads post modem events whose types share the radio technology: the older publication overwrites the newer, so a consumer reads a state older than its event. |

Four smaller disagreements were met and have no run. The comment at
`R/h2_runtime_internal.h:23` says that the retained edges of a button always
alternate in complementary pairs; a final action alone followed by the next
press is evicted as a pair at `R/h2_runtime_input.c:219`, which leaves the level
right (`LevelNotLost`). After a failed join `h2_runtime_input_stop` restores
the phase RUNNING but leaves the stop request set (`R/h2_runtime_input.c:1895`),
while `h2_runtime_input.h:89` says the poller is left running; the retried stop
is covered by `StopTerminates`. `h2_runtime_input_button.h:13` says that faults
count undelivered events before closing the queue; when the other task's fault
has closed it already (`R/h2_runtime_input.c:1558`), what is pending is
discarded uncounted (`R/h2_runtime_input.c:344`), which is `lost` in
`Accounted`. The comment at `R/h2_runtime_system_event.c:791` says that a
consumer never reads a snapshot older than its event; when the lock cannot be
taken the publication is skipped and the event queued, so the state stays older
until the next publication. `StateNotBehind` excepts such cells (`missed`).
Without any mutex the readers are told `UNSUPPORTED` instead.

H2Loader has behaviours that a reader of its comments may not expect. The
properties of `LoaderBoot` are stated around the first three.

* "A partial replacement must never remain identifiable as the old tree"
  (`libs/bundle/src/h2_bundle_archive.c:943`) holds of format 2. A format 1
  install clears the tree with `.checksum` in it, so the old checksum may stand
  over a cleared tree; if the old package is then staged again, the plan finds
  its data in place. `RecordsTrue` excepts such a tree (`Unfinished`).
* A data-only update does not withdraw the record of Partition 2. If it is
  interrupted and the package named by that record is staged again and started
  as it is, the finalizer takes the record as proof of its data and drops the
  Stage. `StageKept` excepts this (`doubt`), and, like `RecordsTrue`, a tree
  that is `Unfinished`.
* When the platform refuses a reboot, `set_next_and_reboot` selects the previous
  partition again (`L/h2_loader_boot.c:754`). On ESP selecting the running
  partition changes nothing, so the selection stays. `BootContract` allows what
  follows from it (`undone`) and no more.
* A reset between the record of Partition 2 and the selection of Partition 2
  leaves the OTA state of the candidate before; if that one had been aborted,
  startup takes the new candidate for one that was rolled back and stays in
  command mode. On a device whose ROM has no state for Partition 2 yet,
  `power_list_boot_partitions` reports an error, with the same effect. A command
  starts the candidate; `Settles` counts this as rest.
* `reboot loader` and `reboot upgrade` do not look at the record of Partition 1
  (`L/h2_loader_boot.c:1000`). While a copy is unfinished only the verification
  of the image in `esp_ota_set_boot_partition` keeps them from selecting a torn
  partition.

### Bounds, and why they are enough

* `state`: with 3 banks, 2 readers can pin both retired ones and defer a
  publication, and 3 generations reuse a bank a preempted reader has loaded.
  The theorems remove both bounds.
* `event`: two posters meet at the wrap, at the full queue, at the door, and
  with a wake token pending. `ModulusAssumption` keeps the window of sequences
  in use below half the modulus, as 2^32 does.
* `input`: a queue of one refuses in the middle of every batch; a retained list
  of two overflows with the third edge of one source; a pending list of 4 is
  the smallest the code allocates. The NFC task and the failing send
  (`MaxLost`) are on the board with one push button, whose polls send at two
  places, to keep the states few; the theorems have them on any board.
* `workers`: a second start meets what the first left behind; one failing join
  reaches every retry path.
* `system`: two handlers race for the state and for the report; a queue of one
  drops; three events overwrite a cell, with a publication missed in between.
* `posix`: depth 2 gives nested self-unsubscribe, two slots give reuse under a
  waiter. Three subscriptions pass as well and take four minutes longer.

* `loader`: nothing but the sets of images, trees and packages is bounded. A
  second Loader image gives copy and convergence; two packages of one App give
  data-only updates and a Stage that differs from what is installed; each has
  its own format. The theorems remove the sets.

`CHECK_DEADLOCK FALSE` is set where the system may really stop: `event`, whose
posters make a bounded number of calls and which ends freed, and `input`, whose
tasks may end in a fault. The other modules say in `Next` when they are finished.

### Fairness

* Weak fairness of each task's steps: the platforms schedule preemptively.
  Nobody has to start a read, post, press, stop or destroy.
* `RuntimeState`: the worker offers a dirty state again in each cycle.
* `RuntimeInput`: polls recur until a task faults; a deferred publication succeeds
  now and then, which is `DirtyIsPublished` of `RuntimeState`; the push queue
  runs dry; the main loop has now and then emptied the queue when a poll
  begins. Without the last a main loop slower than the buttons never catches
  up. `LevelReceived` is stated until a fault or a lost event, and for boards
  with one source: with a queue of one item the samples of one source can starve
  the edges of another.
* `RuntimeSystemEvent`: strong fairness for a tick that finds the report lock
  free and for a clock that works, because `h2_runtime_report_dropped_events`
  gives up without waiting in both cases. `DropsReported` promises nothing once
  deinit has begun.
* `PosixSystemEvent`: strong fairness of a handler's return at each depth: a
  handler ends however often it posts. The two liveness properties are stated
  for behaviours in which no handler waits in an unsubscribe (`NoHandlerWaits`);
  two handlers that unsubscribe each other's subscription wait forever.
* `LoaderBoot`: weak fairness of `Progress`: power comes back, and a call that
  was started returns. Nobody has to send a command. `Settles` is stated for
  behaviours that end without commands and without resets, except resets that
  end the trial of Partition 2, of which there may be any number.

## 4. Proofs

TLAPS checks the theorems below for every finite set of tasks and every value
of the capacities and bounds. The assumptions are the named `ASSUME`s of the
modules: finite sets of tasks, capacities that are natural numbers (positive
where the code rejects zero), at least two banks. Each proof module has an
inductive invariant (`IInv`; `SequenceInv` and `WorkerInv` where noted), the lemma that `Init` implies it, the step lemma
with one case per action, and the theorems read off it.

`RuntimeStateProofs`. The safety of a read is `PinnedBankStable`. It is not
inductive: the scan relies on `CountsPins` (a zero count means nobody pins the
bank), and the second load of the active index is safe only because the bank
being filled is never the active one (`FillRetired`, `ScanBase`). `BanksWhole`,
`ActiveGeneration`, `CopyOfPinned` and `SeenBefore` carry the content of the
banks. From them follow `BankStability`, `NoTornCopy`, `ReadsMonotone`, and
`Refinement`: the switch of the index is `Publish`, the second load is
`Capture`, the unpin is `Return`. Counting uses the cardinality facts of
`FiniteSetTheorems`; the slot arithmetic is `RingStep`.

`RuntimeEventProofs`. `DrainComplete` says that no admitted call is left when
the drain ends. It needs `CountsClaims` and `DoorBeforeRead`: the door is
closed before the count is read, and a poster checks the door after it claims.
`WakeupsKept` needs the stronger `WakePending`, from the moment the main loop
finds the queue empty.

`SequencesKept`, in the same module, is the order of the sequence numbers over
the wrap. `SequencesOrdered` compares distances modulo `SequenceModulus` and is
not inductive, since nothing in it says how far the counter may still run. A call
draws at most two numbers, the second when the first was the 0 to skip;
`Tickets` is the set of draws still to come, and `SequenceInv` says that the
distance from a number in use to the counter, plus the tickets left, stays
within `Budget`. A draw moves the counter by one and spends a ticket
(`TakeStep`), no other step does either (`SequenceStep`), and
`ModulusAssumption` puts the budget below half the modulus (`InvOrders`). The
assumption bounds the calls of a whole run by a quarter of the counter's range,
about 10^9 for the 32 bits of the code. The code needs less: that no event is in
use, queued or held by a preempted poster, while half the range is drawn.

`RuntimeInputLists`, `RuntimeInputProofs`. The inductive invariant is
`WorkerInv`, with four parts. `Types` is the type invariant. `ListsInv` is about
everything on its way to the main loop: `Delivers` says that queue, pending
list and retained edges hold the events of each source in order and none newer
than its level (`Fine`, `Bound`), that a source has pending or retained events
and not both (`Apart`), and that the account is exact (`Debt`): what is
outstanding beyond the worker's lists is in the queue or `lost` (`Beyond`).
`Live` says that the last edge of each source is received, in the queue, or in
the lists in a form that is never dropped; it holds until an event is lost or a
fault has given up. `ShownInv` says that the snapshot is behind the
levels only while it is dirty, and never while events are sent; `PhaseInv` says
which task the place of the mutex holder belongs to, that no button is held while
a fault releases, and `FaultReleases`, which a fault of the other task must not
undo. `LevelNotLost` and `NoOvertaking` are not
inductive: whether an edge may be appended depends on all edges before it,
received ones included, and an eviction keeps the level right only because the
new edge is the newest of its source.

The work is in the list operations. `Places` says what adding one event does
(order, level and account) and `Rearranges` what moving events does; both are
proved of `Retain`, `KeepOrDrop`, `Push` and `AppendEvent`, then of the loops.
The rounds of a loop are an induction, which is done here on the first round
that goes wrong: `LeastNatural` derives from the library's `WFMin` that a
non-empty set of naturals has a least element, so that no theorem with an
operator as a parameter is needed. `SiftedRounds`, `RequeuedEdgesRounds`,
`RequeuedSourcesRounds` and `TakenRounds` show that the recursive functions
satisfy their equations. `RuntimeInputProofs` carries the invariant through
polls, sends that succeed, find the queue full or fail, receives and both tasks'
faults (`EmptiedDelivers` is the discarded list, `EvictDelivers` the last pass of
a fault), and reads the six theorems off it; for the
first two, `StreamPlaces` says which list a place of `Stream` lies in. The
assumptions are those of the module: boards are non-empty sequences of the three
kinds, the event queue holds one event, the pending list four and the retained
list one, at least.

`RuntimeInputWorkersProofs`. `QuietWhenStopped` needs `HandlesKept` (a running
task has its handle) and `OwnerHandles` (which handles are set at each place of
the owner's call). `StartsOnOpenQueue` needs `FaultLatched`: the result is
stored before the queue is closed. `FaultReleasesButton` needs `Released`. The
first two hold unless a failed join was ignored (`orphaned`), which is what
`workers_free` is about.

`RuntimeSystemEventProofs`. `StateKeepsUp` is proved from `Serial`, its one
extra hypothesis, for any types and cells (`TypeAssumption`, `CellAssumption`);
`system_race` shows that the hypothesis is needed. `IngestStopped` needs
`Subscribed`: a call in flight belongs to a subscription not yet taken back.
`ReportsExact` needs `ReportExclusive`.

`PosixSystemEventProofs`. `Owners` ties slots, generations and owners together;
`Snapshots` bounds the generations in a snapshot by the one at the time of the
post; `Finished` keeps finished subscriptions out of every frame; `Counted`
and `DeinitPassed` justify the `memset`s of reclaim and deinit. `Refinement`
shows that the provider implements `SystemEventContract`, with the generation
as the name of a subscription; `FreeAfterUnsubscribe` is what a client relies
on when it frees the handler's context.

`LoaderBootInv` holds the inductive invariant of `LoaderBoot`,
and one lemma per conjunct in `LoaderBootProofs` shows that it is preserved:
types, the Stage record, the running image, the ROM, the records, the data tree,
the drop and the rejected candidate, then `Invariance` and the theorems that
follow from it. `RecordsTrue` is not inductive: whether the
record that is written last is true depends on what the earlier steps of the
same call left (`MetaInv`, `DataInv`, `StageInv`). `RomInv` is the core of
`Refinement`: next is the running partition or one that is new; a partition on
trial always has a whole one to fall back to; the copy and the boot of Partition
2 happen only while it is selected. `UpdateSourceKept` reads off `DropInv`, which
follows the package from `FinalRecord` to the drop. `RejectedStaysDown` needs
`RejectInv`: the record of a candidate that was given up stays, so that startup
can see it. The assumptions are those of `LoaderFlash`: a package has an image, a
tree and one of two formats, images with a factory session are Loaders, and the markers are none of these.

The type invariants of these components, and the exact counts of readers and
posters, are conjuncts of the inductive invariants, so they are proved and not
listed again in the configurations.

### Only model-checked

The liveness properties, since the prover handles neither `ENABLED` nor fairness:
`ReadReturns`, `DirtyIsPublished`, `EventsReachConsumer`, `DestroyTerminates`,
`ConsumerReleased`, `LevelReceived`, `StopTerminates`, `DropsReported`,
`UnsubscribeTerminates`, `DeinitTerminates`, `Settles`. Every invariant, action
property and refinement of a passing run is a theorem.

## 5. Assumptions of the models

* Atomic accesses are interleaved in program order. Reordering a store with a
  later load of another atomic, which release and acquire permit, is outside
  the models (a hazard says so at `R/h2_runtime_state.c:205`).
* The 64-bit generations of the banks and of the provider do not wrap.
* PAL queues, mutexes and tasks behave as their headers say; they may fail
  where the header says they may.
* One write of a preference, one rename and one removal of a file are atomic.
  `esp_ota_begin` leaves the state of the other partition alone. Erasing and
  writing a partition or clearing a tree is not atomic: a reset leaves it `Torn`.
* Startup, commands and finalizer do not overlap, and an App receives commands
  only after its finalizer.
* Argument checks, payload copying, formatting and statistics are left out. A
  payload that cannot be mapped is a failing alternative.

## 6. Not modelled

Touch and NFC sources, test-control sessions (which own the sources in place of
the poll and are left alone by a fault), gesture classification, the release path of an init that
fails before the system events, the publish interval clock. Component mapping
is a static table. Of H2Loader: the transport of its console, manufacturing
steps, Wi-Fi commands, the BK and Jieli boot providers, the finalizer of an App
that overlaps a stage command (a hazard says so), and
`L/h2_loader_stage_writer.c`, which nothing but its test calls. Codecs, rendering, drivers, board glue and generated code
have no state machine that a model checker reaches better than their tests.
`PROJECT.json` gives the reason for each component.

## 7. Plan

1. Saved Wi-Fi networks (`R/h2_runtime_wifi.c`): the saved set is read,
   changed and written back as a whole; failed writes and concurrent savers.
2. Composition of `RuntimeSystemEvent` with `SystemEventContract` in place of
   the external `Dispatch`, and of `RuntimeInput` with `StateSnapshot` in place
   of the deferral that may happen at any publication.
3. Touch and NFC sources of the input worker; the test-control session, which
   also settles the open hazard on the source table.
4. H2Loader with the finalizer and the stage commands as two processes, and the
   BK boot provider as a second instance of `LoaderFlash`.
5. Streams over BLE and serial links (connection state and close), the audio
   mixer's ring and track close, provisioning over BLE.
6. Proofs: the order of sequences with a bound on the draws during the life of
   one event, in place of one on the calls of a whole run; the compositions of 2.
