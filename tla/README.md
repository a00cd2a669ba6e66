# TLA+ models of haskell-agent

This directory keeps TLA+ models of the concurrent parts of haskell-agent beside
its source, in two groups. The first is the core: what a coordinator and its
subagents share, how user guidance and background notices get into a
conversation, and what happens to both when requests fail, turns are cancelled or
sessions are reset. The second is the border of the program: the C code of the
packages (runtime entry points, keychain, clipboard, network monitor, media
helper process, WebRTC peer, audio) and the protocols the native bridge keeps
with the application that hosts it. TLC checks the models on small instances;
TLAPS proves what matters most for instances of every size.

Paths below are relative to `src/packages/`; `Registry/` stands for
`agent-core/src/Agent/Subagents/Registry/Internal/`, `Loop/` for
`agent-core/src/Agent/Loop/`, `Bridge/` for
`agent-native-bridge/ffi/Agent/CLI/MacOS/`, and "the header" for
`agent-native-bridge/include/HaskellAgentBridge.h`.

## 1. Inventory

| Component | State it keeps | Operations | What is hard about it | Correct when |
|---|---|---|---|---|
| Subagent registry (`Registry/*.hs`) | records with phase, mailbox, steering, cancel latch and supervisor thread; the path table; `registryLiveCount`; aborted turns; suspensions; the lifecycle `MVar` | spawn, start, run, steer, send, queue, suspend, resume, interrupt, abort, close, reset, stop, restore, wait | supervisors act between the transactions of every operation that holds the lock; storage fails between two of them; kills arrive anywhere | slots are counted, no slot is held by nobody, paths belong to their records, closed children are inert, an aborted turn is settled, sleepers agree with storage, closes return |
| Session input queues (`Loop/InputQueue.hs`, `Loop/InputQueue/Model.hs`) | entries, deferred completions, budget in inputs and bytes, epoch, active lease, closed flag | enqueue, drain, commit, requeue, clear; steer, complete, dismiss, reserve, acknowledge, close, wake | leases across provider I/O; acknowledgement by number; resets while a batch is out; limits | the budget is exact, nothing is lost, doubled, reordered or carried into another conversation |
| Agent loop (`Loop/Internal.hs`) | pending inputs and the number to acknowledge, backend state, turns used, recovery state | begin, submit, commit, preempt, run tools, acknowledge, continue, close, recover | guidance arrives at every point of a request; requests are preempted, cancelled, killed | guidance is acknowledged only after a committed request carried it, once and in order |
| Subagents of a root loop (`agent-core/src/Agent/Subagents/Loop.hs`) | report queue, root turn, pending count | deliver, read, acknowledge, await children, end root turn | reports and guidance share one count | as above |
| Child turns (`agent-core/src/Agent/Subagents/Child.hs`) | backend state and background resume of a child | run, resume | a child outlives the turn that spawned it | a child's state is committed once per turn |
| Cancel latch (`agent-core/src/Agent/Cancel.hs`) | a latch and its waiters | request, reset, wait | a reset erases a request | a request after the start of a turn ends it |
| Tool execution, event pump (`Loop/ToolExecution.hs`, `Loop/EventPump.hs`) | running tool workers, bounded event queue | schedule, complete, cancel; publish, drain | workers outlive a cancelled request | every call has one result, events keep their order |
| WebSocket session (`agent-core/src/Agent/Transport/WebSocket.hs`) | connection generation, poison, abandoned frames | connect, send, receive, abandon | a late frame of an abandoned request | no frame answers another request |
| Input inbox (`Loop/InputInbox.hs`), Telegram gateway | durable rows, prefix acknowledgement | receive, lease, acknowledge | restart between effect and acknowledgement | at least once, in order |
| Terminal host (`agent-cli`) | prompt, queued input, session, completion hooks | prompt, wake, reset, cancel | a reset races the completion of tasks | guidance wakes an idle host, completions stay with their conversation |
| Conversation runtime (`agent-runtime`) | turn state, history records | begin, record, settle | persisted and in-memory state differ for a moment | a turn is recorded once |
| Session server (`agent-server`) | supervised sessions, turn store | submit, observe, cancel | clients reconnect, turns outlive requests | one active turn per session |
| Runtime daemon (`agent-runtime-daemon`) | journal of jobs | append, replay | restart after each write | replay gives the state before the stop |
| MCP client (`agent-mcp`) | fleet of servers, connection state | connect, retry, shut down | a late answer of a connection that was replaced | one live connection per server |
| Bridge runtime (`agent-native-bridge/cbits/HaskellAgentBridgeRuntime.c`) | lock, reference count, "initialized" and "CLI started" flags | `ha_cli_main`, `ha_runtime_init`, `ha_runtime_exit` | the CLI claims the runtime under the lock and starts it after the unlock | whoever is told the runtime is up can use it; it starts once |
| Bridge operations (`Bridge/McpConnectionOperation.hs`, `SessionObservationBridge.hs`) | handle, gate, cancellation, worker | start, callbacks, cancel, destroy | a cancellation kills an action inside a callback; destroy joins a worker at its gate | callbacks keep the contract of the header, destroy returns |
| Repository workers (`Bridge/RepositoryWorkers.hs`, `RepositoryReviewBridge.hs`) | group of workers, admission barrier, callback threads | start, stream, terminal, unregister, cancel all | two cancellers at once, kills at every point that blocks | no callback after cancel_all, one terminal result each |
| Browser host (`Bridge/BrowserBridge.hs`, `EngineHostRegistration.hs`) | registration per engine, one registry of pending requests | command, complete, cancel and drain, replace | completion before, during or after the cancellation; ids wrap around | answers belong to their requests, a replaced context is idle, replacement returns |
| Computer host (`Bridge/ComputerBridge.hs`) | generations with lease counts, sessions | lease, open, request, close, replace | the registration is replaced at every point of a session | a generation lives as long as it is in force or leased |
| MCP keychain (`agent-native-bridge/cbits/HaskellAgentMcpKeychain.c`) | the item of an account, copies handed out | read, release, write, delete | other processes act between update and add | a write succeeds although writers race |
| Media helper (`agent-webrtc/cbits/helper-client.c`, `helper.c`, `helper-protocol.h`) | child process, socket, request in progress, resource | open, request, close; serve | timeouts with late replies, crash, wedged driver, death of the client | a sequential service, calls return, nothing is left behind |
| WebRTC peer, audio (`agent-webrtc/cbits/peer.c`, `audio.c`) | promise in progress, queues of a media thread | describe, poll, push, pull, capture, read, write | abandoned operations answered late, a full buffer | an answer belongs to its request, a capture has no hole |
| Network path monitor (`agent-connectivity/cbits/NetworkPathMonitor.c`) | monitor, serial queue, semaphore, context | create, update, close | blocks still queued while the context is freed | blocks find their context, closing returns |
| Clipboard image tip (`agent-cli/cbits/ClipboardTypes.c`) | retained reference, generation, last seen and fired | poll, snapshot | the clipboard changes in the middle of a poll | no image is skipped |
| Store, provider codecs, tools, UI, accounts, audio transcription, docs, nix | files, wire formats, pixels | I/O | external systems | outside this development, see section 8 |

How they interact. A host (terminal, server, native application) runs the agent
loop. The loop reads the host's steering queue and the report queue of its
subagents before a request, and acknowledges by number once a response is
committed. Tools that the model calls reach the registry: they spawn children,
send them work, wait for them, interrupt and close them. Each child runs a loop
of its own under a supervisor thread; its mailbox is drained into that loop by
`withSubagentMessageSteering`. Completions of children and of background
commands come back as notices. A pending queue holds what a host prepends to
its next submission. The registry, the queues and the loop therefore carry every
message of the system, and they are modelled first.

A native application reaches all of this through the C header: it starts the
runtime, starts operations that call it back from runtime threads, and lends the
engine a browser and a computer through callbacks of its own. Each of these
conversations is a protocol of threads on both sides, stated in the header's
comments, and modelled against them. Below the program lie small C services
which share nothing with each other.

`PROJECT.json` lists each component with its sources and status, and under
`hazards` the places in this code where something can go wrong that a test would
hardly reach.

## 2. Modules

| Module | Contents |
|---|---|
| `SubagentRegistry` | the registry: state, one action per transaction of each operation, invariants |
| `SlotPool` | what the registry promises about active turns, as a specification of its own |
| `MCSubagentRegistry` | the registry under the callers of one host at a time, fairness, liveness |
| `SubagentRegistryProofs` | every invariant of the registry's passing runs and the refinement of `SlotPool`, proved |
| `SetInduction` | induction over the naturals stated with sets, least and n-th elements |
| `InputQueue` | the pure transitions of a queue (`InputQueue/Model.hs`) and the steering transactions |
| `PendingInputs` | the pending queue with its producers and concurrent submissions |
| `InputQueueProofs` | what `Bytes`, `Selected` and concatenation do to sequences of entries |
| `PendingInputsProofs` | the six invariants of the pending queue, proved |
| `SteeredLoop` | the loop with the host's queue and the report queue, and the host between turns |
| `SteeredLoopProofs` | the four properties of the loop, proved |
| `MCSteeredLoop` | the ways hosts wire the loop |
| `MCRegistryHosts` | two hosts of the registry in one run |
| `BridgeRuntime` | the runtime entry points and the threads that race in them |
| `OperationContract` | what the header promises about the callbacks of an operation |
| `BridgeOperation` | an operation with a handle: host thread, worker, raced action |
| `RepositoryWorkers` | repository workers and cancel_all |
| `BridgeProofs` | `RuntimeReady`, the refinement of `OperationContract` and the quiet after cancel_all, proved |
| `BrowserHost` | browser commands, the registry of pending requests and the host |
| `ComputerHost` | computer sessions and generations |
| `HostProofs` | lease counts, browser answers and replaced contexts, proved |
| `McpKeychain`, `ClipboardTypes`, `NetworkPathMonitor` | one C file each, with its callers and the system |
| `MediaService` | what a media resource promises its caller |
| `MediaHelper` | client and child process over a socket; implements `MediaService` |
| `MediaPeer`, `MediaAudio` | what the child process serves: `peer.c` and `audio.c` |
| `PlatformProofs` | the C services and the refinement of `MediaService`, proved |
| `MCNative` | the C services and the conversations with the host, each by itself, in one model |

### SubagentRegistry

State. `phase`, `mailbox`, `steered`, `cancel`, `sup`, `parent`, `depth` and
`path` are the fields of a `SubagentRecord`; `agents`, `paths`, `live`, `limit`,
`spawned`, `aborted`, `closed` and `suspensions` are the `TVar`s of
`SubagentRegistry` with the names of the code without their prefix; `durable` is
the suspension storage behind the callbacks of the host. `sup[a]` is the
statement of `runSupervisor` the thread of `a` is at.

The lock. Every operation that changes the tree runs under the lifecycle `MVar`,
so the model has one variable `op` for the operation that holds it. An operation
of one transaction is an action that needs the lock to be free. One of several
transactions (send, resume, interrupt, abort, close, reset, stop) takes the lock
and lists the records it works through in `stage`; each later transaction is an
action on one record, and supervisors, which do not hold the lock, act in
between. `mapConcurrentlyBounded` is any interleaving of the records.

Supervisors. `TakeStartedWork`, `ResetCancel`, `RunReturns` or `RunCancelled`,
`CommitSuspension`, `ResolveStatus`, `NextStep`, `Publish` and `Finish` are the
transactions of `runSupervisor` in its order. What a turn does meanwhile is
`Steer`, `RequestSuspension` and, as the parent, `Spawn`.

Specifications. `Session` has every operation except restoration; `Next` adds
`Restore`, by which a host reads children back from disk. `Coordinate`,
`Sleepers` and `Closing` are parts of them: what one kind of caller does.
`MCSubagentRegistry` adds the callers of single questions: `Naming` (who meets on
a path), `Family` (a parent and its child under an abort), and `DrowsySpec`, which
interrupts children that sleep or are about to. `MCRegistryHosts` runs `Coordinate`,
`Sleepers`, `Family` and `Naming` as four hosts of one model: `Family` alone nests
children, takes messages into running turns and aborts turns, and the children of
`Sleepers` belong to no root turn, which suspension does not look at.

Data. Works are told apart by the turn that owns them and by their kind; texts,
names, models and timestamps are left out. Ids are handed out once.

### InputQueue, PendingInputs, SteeredLoop

A queue is a record of entries, deferred entries, count, bytes, epoch, `active`
and `closed`; an entry has an identity, a size, a kind of notice, a key and the
flag whether it wakes an idle host. `InputQueue` has the state functions of
`Model.hs` and, for the steering queue, those of the transactions of
`InputQueue.hs`; inputs are numbered in the order in which they are offered.

`PendingInputs` adds the bracket of `withPendingInputBatch`: acquire, then a
commit or a requeue, with the provider call in between.

`SteeredLoop` has one action per step of the loop between which another thread
can change a queue: reading (`BeginTurn`, `Advance`, `ContinueSteered`, `Close`),
submitting, the response (`Returned`, `Steered`, `Aborted`), `Absorb`,
`Acknowledge`, `ClearAcknowledgement`, and `Recover` at the end of a turn, which
stands for `recoverTools` and the host's `finishTurn`. A `Configuration` says
whether new guidance preempts a request, whether the host closes its queue with
the answer, and whether subagents report to the loop. Contents of responses,
tool calls and usage are left out; what a failed response left behind is a
choice (`Salvage`), since it depends on the provider's stream.

Completions of a task use the hooks captured when the task was launched, as
session completions do (`Tools.hs`, lines 530-537); shell tasks read the hooks
when they publish, which differs only while a reset is under way.

### The native bridge

`BridgeOperation` is the lifecycle shared by MCP connection operations and
session observations: the handle is published, the gate opens, the worker races
the action against the cancellation, and after the race makes the terminal
callback. `race` kills the loser and waits for it, so a cancellation in the
middle of a callback is seen when the callback returns (`ActionKilled`). The
abstract `OperationContract` is read off the header's comments.

`RepositoryWorkers` has the transactions of `startRepositoryWorker`,
`unregisterRepositoryWorker` and `cancelRepositoryWorkers`. A kill is delivered
where the thread is interruptible: at its gate, while it prepares, and while it
waits for the `MVar` of the callback threads. Workers are numbered from 1 in the
order of admission.

`BrowserHost` runs commands of several engines over the one process-wide registry
of pending requests; ids are handed out modulo `MaxPendingId` and skip those in
use. The host accepts or rejects a request and completes an accepted one once,
from any thread, as the header obliges it to.

`ComputerHost` counts the leases of each generation. The host of the model
releases the context of a replaced generation as soon as every session it has
opened on it is closed, which is what the header asks of it.

### The C services

`BridgeRuntime`, `McpKeychain`, `ClipboardTypes`, `NetworkPathMonitor`,
`MediaAudio`, `MediaPeer` and `MediaHelper` model one C file or pair each, a
function as one action, or as several where another thread or process acts
between two of its calls. Keychain, pasteboard, dispatch queue, Network framework,
GStreamer and the operating system are environments: actions marked external in
`map`, modelled from how the code uses them. A capture callback, a promise's
reply, a queued block and a child process are actors of their own.

`MediaHelper` keeps the bytes of the two sockets as queues of headers and bodies;
a transfer may fail while it waits (the socket timeout) or because the other side
is gone. Messages carry the number of their request, which the bytes of the code
do not; it is used by the properties alone. `Wedge` hangs the driver, `Crash` ends
the child, `ClientDies` the client.

Services share no state, so `MCNative` chooses one at the start
("focus") and leave the others in one initial state; a behaviour is a behaviour
of that service.

## 3. Runs

| Run | Instance | Shows |
|---|---|---|
| `registry_one_child` | every operation, one child, storage may fail | types, slot invariant, every slot is driven |
| `registry_hosts` | two children, limit 1 raised to 2, under one of four hosts: a coordinator; children that suspend and are resumed, interrupted in their sleep or closed; a child and a nested one in the turn that is aborted; children that are given up, restored, closed and reset on two task paths | the count, a child owns its task path alone and no path leads to a child that is gone, an aborted turn is settled, memory and storage agree on who sleeps, the slot pool is implemented |
| `registry_closing` | a parent and a nested child, close one, close all, reset | closed children are inert, closing goes from the leaves, closes return, slots come back |
| `pending_inputs` | two submitters, five inputs of two sizes, one reset | one lease at a time, exact budget, order, nothing lost, reset isolates |
| `steered_loop` | three ways of wiring, four inputs, two requests per turn, one task, one reset | guidance is kept, submitted once and in order, completions stay with their conversation, nothing is stranded |
| `native_services` | each C service with two or three threads or processes, three calls, four clipboard changes; one operation of each kind; two repository workers and two cancellers; two engines with two request ids and three commands; two computer sessions over three generations | runtime ready, blocks find their context, racing writers succeed, images are announced, captures are whole, answers of the peer belong to their requests, a freed helper leaves nothing, no callback after cancel_all, browser answers and contexts, lease counts; the helper implements `MediaService` and an operation the callback contract; the monitor closes, calls return, the device follows its client, destroy and replacement return |
| `interrupt_active_returns` | one child | counterexample, finding 1 |
| `stranded_follow_up` | one child | counterexample, finding 2 |
| `guidance_behind_reports` | preemption and reports in one loop | counterexample, finding 3 |
| `lost_cancel_result` | two repository workers, two cancellers | counterexample, finding 4 |
| `late_computer_open` | two computer sessions, three generations | counterexample, finding 5 |
| `interrupted_sleep` | one child that suspends and is interrupted | counterexample, finding 6 |

Every property of a passing run has a mutant in `PROJECT.json`: a variant of one
definition, next to it in its module and marked "Mutant", under which TLC
refutes the property.

### Bounds

`MaxMail` bounds the works of one child (two operations on one mailbox already
meet at one work); `Turns` has one aborted turn next to work of no turn;
`Limits` holds the limits a user may set, below or above the number of children.
One child meets every operation of the registry, since operations are serialised
by the lock and interact with one supervisor; a second is needed for the limit,
for nesting, for meeting on a task path and for a follow-up of another owner.
`MaxInputs` lets both limits of a queue be reached and passed,
with one more input after the reset; two submitters are enough for two leases to
overlap; `MaxTurns` of two lets a turn end by an answer, by the limit and by a
second request; one reset separates two conversations. Reports fit within
`ByteLimit` on their own, as the code's limit of a notice guarantees.

The platform bounds let every limit be met: three runtime threads are a CLI, an
embedder that starts and one that joins; three keychain processes are a writer
whose item is added and deleted under it; `MaxCopies` lets the clipboard change
before, within and after a poll; four audio samples overrun a queue of two buffers
and of `AudioLimit`; three calls of a helper are the opening, one that times out
and the one a late reply could answer; `Attempts` is 100 in the code and only its
exhaustion matters. One credential is enough for the keychain, whose calls do not
look at it. Two request ids for three commands of two engines let ids wrap around,
past one in use, and be used again while an earlier completion is under way, which
takes 2^64 commands in the code. `SetBrowserReturns` promises nothing from the
command after the last id on, because `cancelAndDrain` asks for the id alone.
The host registers one context and takes it away again; `BrowserReplacedContextIdle`
is proved for any contexts.
Three generations are one released, one replaced under a session and one in force.

Symmetry is used for children and paths in runs without liveness. Deadlock is
not checked: a registry without callers, a host without input, a service that was
freed and a bridge nobody calls may rest.

### Fairness

`registry_closing` and `interrupt_active_returns` assume that the runtime
schedules each supervisor and the thread that holds the lock (weak fairness) and
that a waiter for the `MVar` gets it in the end (strong fairness of
`CommitSuspension`): GHC serves the waiters of an `MVar` in order, so a thread is
not overtaken forever though the lock is taken again and again. Turns return in
the end. No caller is obliged to call anything.

`native_services`: the dispatch queue runs its blocks and the closing threads
are scheduled; the operating system runs the client of a media helper and the
helper. A transfer of the client may always time out, so its progress rests on
no step of the helper; a wedged helper takes no step, and the client still
returns. Worker threads are scheduled and the host's callbacks
return, as the header asks ("must return promptly"); the host completes what it
accepted. Strong fairness of `ActionKilled` says that an exception thrown at an
action that keeps calling the host reaches it between two of the calls: GHC
delivers a pending exception at the return from the foreign call.

## 4. What is proved

Every invariant that a passing run checks is stated by a theorem, and so are the
three refinements. `SubagentRegistryProofs` proves, for any finite set of children,
any turns, paths and limits (`ConstantsAssumption`):

- `TypeCorrect`: `Spec => []TypeOK`. It needs `ResultKnown` (a supervisor that
  settles a turn has its result), because the status of a record comes from it.
- `SlotsCounted`: `Spec => []SlotInvariant`, of which `SlotAccounting` is a part:
  the counter of active turns is the number of children that hold a slot.
- `PoolRefinement`: the registry implements `SlotPool`: a slot is taken only
  below the limit in force and given back once.
- `PathsOwned`: `Spec => []PathOwnership`: a task path leads to the registered
  record that carries it. Only admission, its rollback, restoration and the end
  of a reset touch the table (`PathStepKinds`); each of them changes the map of
  records and the table together.

The inductive invariant of the first three is `TypeOK /\ ResultKnown /\ SlotInvariant`. The count
alone is not inductive: a reset writes zero at its end, which is the count only
if the reset has closed every record it is done with and the records outside the
map are closed; a stop writes zero while children may still hold slots, which is
harmless only if the registry stays closed, and `interruptActiveSubagents`, which
reopens a registry, must have found a stopped one closed. `SlotInvariant` has
these four facts as conjuncts. The step is by groups of actions: each is shown
to keep the holders and the count, to take a slot below the limit, or to give
one back (`Keeps`, `Takes`, `Gives`), or is one of three exceptions (the limit
is set, the end of a reset, the end of a stop). The same case distinction
proves the refinement.

The other invariants of the registry are about threads, trees and mail:

- `SlotsDriven` and `SessionSlotsDriven` (`SlotsAreDriven`): a slot is never held by
  nobody. `ThreadInvariant` says for every place of a supervisor which phases its
  record may have (`Fits`), until the registry is stopped; `StatusMatches` ties the
  status of a record to its tag. In a session this holds whatever storage does. With
  restoration it also needs `InterruptionIsLocked` (a record is interrupting only
  while an operation waits for it), because a restoration takes a
  record without a pending or running turn for an idle one. Two children and a
  failing storage break that: when one of two aborted children fails to cancel its
  suspension, the operation is given up while the other is still being interrupted
  (`Registry/Operations.hs`, lines 284-330 and 544-575).
  `SlotsDriven` therefore assumes `FaultsAreContained`: storage does not fail, or
  there is one child, as in `registry_one_child`.
- `LeavesClosedFirst` (`ClosedFromTheLeaves`): children are closed before their
  parents, in trees of any size and depth and with failing storage. `TreeShape`
  says that a parent was handed out before its child and lies one level above it;
  `LeavesFirst`, that a shutdown which has still to do with a parent has to do with
  each of its open children too. It is a theorem of `SessionSpec` and not of `Spec`: a
  restoration takes the parent that a file names as it is, closed or not.
- `ClosingLeavesInert` (`ClosedIsInert` under `ClosingSpec`) and
  `ClosedChildrenInert` (all operations of a session): a closed child has no thread, no mail and no
  steering. `ThreadsEnd` says that a closed record has no thread but the one a shutdown is
  about to kill, `MailEnds` that it has no mail and that a message under way is
  for an open child, `SteeredRuns` that only a running turn is steered. The second
  theorem assumes `~PersistFaults` (a failed shutdown leaves threads of records it
  closed) and leaves out children whose spawner was killed and has still to roll
  them back, since a message that began before the kill may reach their record.
- `AbortedMailDiscarded` (`AbortDiscardsMail`, which no run checks by itself): from
  the transaction that marks a turn as aborted, no child without children of its own has mail of it, with failing
  storage and in trees of any depth. `ChildlessBefore` says that whoever has no
  child after a step had none before it, so no completion arrives; every other way
  into a mailbox asks whether the turn is aborted.
- `AbortedTurnsSettled` (`AbortedTurnSettled`): once `abortRootTurn` returned, such a
  child holds no slot for the turn and has no mail of it, at any depth, and
  steered work of the turn is left only where the running turn belongs to another
  owner. `SendIsLive`: a resumption under way is for a turn that is not aborted;
  `TurnsSettle`: a child that holds a slot for an aborted turn is in the hands of
  the abort; `SteeredIsHeld` and `WorkersRun`: steered work lies with a turn that
  runs, whose record says for whom. The hypothesis `~PersistFaults` is the code's own: if storage fails, the
  abort throws and does not return. Neither exception can be dropped; section 5 says
  where the code leaves work of the turn.
- `SleepsDurably` (`SleepIsDurable`): under `SleeperSpec`, a child that sleeps in
  memory sleeps in storage whenever no operation is under way, with storage that
  fails at any point. `AsleepInStorage` says that the exceptions are a child that
  is being resumed with a slot free for it and a sleeper that is being interrupted;
  `ResumptionGoesOn` and `InterruptionGoesOn` say that neither can be given up half
  way; `CommittedFirst`, that a supervisor treats its turn as suspended only after
  the commit. `OneAtATime` and `SeenAsleep` say what a message
  that resumes a child may rely on. The limit is constant here: a limit that is
  lowered between the admission and the scheduling is the window named in section 5.
  An interrupt reaches children that sleep already; one that reaches a child on its
  way to sleep is finding 6.

`InputQueueProofs` and `PendingInputsProofs` prove all invariants of the pending
queue, for any submitters, sizes, limits and number of resets
(`LimitAssumption`, `KeyAssumption`, `SizeAssumption`): `SubmissionsExclude`
(`OneBatch`), `PendingBudgetExact`, `PendingInputsInOrder`,
`PendingAcceptedIsKept`, `PendingResetIsolates` and `PendingOneSnapshot`. None is
inductive by itself: the budget charges the lease that is out, so it is exact only
if at most one lease is out and if a lease of a past conversation is recognised by
its epoch; a commit keeps the order only if the lease comes before everything
queued behind it; a snapshot that a requeue drops is superseded only if a newer one
was accepted. The invariant `PendingInvariant` therefore joins them in one formula
`Sound(L, C, Q, c, b, d, A, n, f)` over the leased entries, whether they are of the
present conversation, the queued entries, the counters, what was delivered, what
was accepted, the inputs offered and those offered to earlier conversations. The
lemmas `AppendSound`, `CommitSound`, `RequeueSound`, `DropSound`, `ClearSound` say
what each transition of the queue does to that formula, without any variable; one
lemma per action then names the parts (`InputStep`, `NoticeStep`, `AcquireStep`,
`SucceedStep`, `FailStep`, `ClearStep`). That delivered, leased and queued inputs are
in order together follows from the three parts and their bounds.

The facts about data below them are inductions: `Bytes` and `Selected` are recursive
functions on an interval, so their unfolding is a fact about a set of naturals
(`SumsExist`, `SelectedPrefixes`) to which `NatInductionOnSets` applies.
`SelectedSplit` says that a selection and its complement share out length and bytes,
which is what the budget of a replaced snapshot rests on.

`SteeredLoopProofs` proves the four properties of the loop, for any limits, sizes,
tasks, turns and resets (`LoopAssumption`, `LimitAssumption`, `KeyAssumption`):

- `NoticesStay` (`NoticesOfConversation`), `NoneStranded` (`NothingStranded`) and
  `SubmissionsInOrder` (`SubmittedInOrder`) in every wiring and with kills at every
  point;
- `NoInputLost` (`GuidanceKept`) under `Separate`: no host both preempts requests
  and has reporting subagents, and no kill falls between an acknowledgement and its
  record. The configuration of `steered_loop` satisfies both. Neither can be
  dropped: finding 3 is a loss without the first, and after a kill in that window
  `recoverTools` acknowledges the same number a second time.

All four rest on one description of what a transition does to a queue. `Follows` and
`Derived` say that the entries after it, ready ones and deferred ones counted
through, come from entries before it in the same order, that only a prefix of known
length was taken, that the next entries were left in place, that others are missing
only under a given key, and that entries stay awake.
Acknowledgement, dismissal and promotion are instances (`AcknowledgedDerives`,
`PromotedParts`), so each invariant needs one argument for all three. The inductive
invariant has four layers:

- `LoopInvariant`: types; `HostOK` (keyed entries belong to the epoch and differ,
  guidance ascends and lies below `next`, a closed queue has only notices);
  `ReportsOK`; `Awake` (from where a turn ends as answered, nothing is silenced);
- `Reading`: the host's share of what will be acknowledged is reserved, so that a
  dismissal or a promotion meanwhile moves nothing below it. It also says where
  nothing is to be acknowledged and where no input is pending;
- `Known` and `Ordered`: the guidance of a turn ascends, and guidance that is queued
  behind what the turn took lies above it. Skipping by number therefore keeps the
  order, even in the wiring in which it loses an input;
- `Carried`: the inputs that will be acknowledged are in the request or in the
  history.

`BridgeProofs` proves `RuntimeReadyForAll` for any threads. `RuntimeReady` alone is
not inductive, since the flag of the C file is set before the runtime is up: the
invariant says which thread may be inside `hs_init` (the holder of the lock),
that nothing is granted while the CLI owns the runtime, that a thread in the CLI's
part is alone, and that an initialized runtime without a CLI is up. It also
proves `OperationsKeepContract`: an operation implements `OperationContract`, whose
phase and callback in progress are computed from the places of host, worker and
action; the invariant relates those places (a worker past its race has an action
that is over, a handle that is freed has a worker that ended).

`HostProofs` proves `GenerationsCounted` for any finite set of sessions and any
number of generations: the count of a generation is the cardinality of its
leases. Steps are grouped into those that keep a lease, take one, release one or
replace the registration. The invariant adds that generations not yet handed out
have no lease. For any finite set of engines with at least as many request ids
(`BrowserAssumption`; the code has 2^64 - 1 ids) it proves `BrowserAnswersOwnRequest` and
`BrowserReplacedContextIdle`. `SomeIdIsFree` is the pigeonhole argument that the
search for an id ends with one that is not in use, although ids wrap around. The
invariant follows a request from its registration to its slot: a registered id
belongs to a command under way (`RegistryOwned`), the host owes only registered
requests of commands that hold their registration (`RequestOwed`), and a completion
is for its own request, whose id is free again (`CompletionOfRequest`). The last fact
makes an id that is handed out a second time harmless.

`BridgeProofs` also proves `CancelAllIsQuiet` for any number of workers and
cancellers. Its invariant has two parts beyond types and the single owner of the
barrier: a worker that may still call back is in the group or in the hands of the
owner (`WorkersRegistered`), and a canceller that is waiting owes the host only
workers of the group it joined (`Debts`), so that a barrier is lifted with all of
them past their callbacks.

`PlatformProofs` has one section per service, for any number of threads, clients,
updates, copies and requests (`CredentialsAssumption`, `BoundsAssumption`):

- `NetworkBlocksSafe`: blocks find their context. The invariant says what may be on
  the serial queue at each stage of the one thread that closes the monitor
  (`OneCloser`): only updates before it, then the cancel handler at the end of the
  queue, then its signal, then the barrier of `dispatch_sync_f`, then nothing.
- `KeychainWritersSucceed`: a writer that is about to update again finds an item
  unless a third party disturbed it.
- `ClipboardImageIsAnnounced`: a generation stands for the version of the last
  synchronize, so an image that was seen was fired or its read failed.
- `PeerAnswersOwnRequest`: a promise belongs to the request that asked for it, and
  the operation in progress is its caller's.
- `MediaFreeLeavesNothing` and `MediaImplementsService`: the helper implements
  `MediaService`. The invariant describes the two sockets: at most one request is on
  its way, the child has not performed it, the child handles the request of its
  client and only once, and an answer on its way is the one to the latest request.
  After a timeout the descriptor is closed, so that a late reply finds no reader;
  the invariant needs this and nothing about time.
- `AudioCaptureIsWhole`: the numbers of the samples that were read, are queued or
  are in the callback are consecutive (`Consecutive`), so a capture that runs into its
  limit ends there and has no hole but those the reader was told of; the byte count is the sum of the queued
  samples. That sum is a recursive function on an interval, whose equations for an
  appended and a removed sample (`AppendedSize`, `PoppedSize`) are inductions over
  sets of naturals.

Model-checked only, and why:

- liveness (`CloseReturns`, `SlotsComeBack`, `MonitorCloses`, `CallsReturn`,
  `ResourceFollowsClient`, `DestroyReturns`, `SetBrowserReturns`): TLAPS does not
  reason about fairness or ENABLED;
- the properties of the runs that end in a counterexample;
- nothing else that a passing run checks. Outside the hypotheses above the
  registry's properties are not claimed, for the reasons given there, and no
  passing run checks them.

## 5. Findings

1. `interruptActiveSubagents` keeps the lifecycle lock while it waits for each
   child to give up its slot; a child whose run has ended needs that lock for
   `commitRequestedSuspension`. Neither proceeds, and the registry stays closed.
2. A follow-up to a child that finishes between the read of its status and the
   enqueueing waits in the mailbox of an idle child.
3. With preemption and reports in one loop, `continueSteeredLoop` skips what the
   request already carried by number although new guidance shifted the reports:
   the guidance is skipped and then acknowledged.
4. A repository worker enters the set of callback threads outside the handler that
   turns a cancellation into a result. Killed while it waits for that `MVar`, it
   leaves without the -3 that the header promises for every accepted operation.
5. A computer session leases its generation and calls OPEN later, and a replacement
   does not wait for it. A host that keeps an old context until the last CLOSE, as
   the header asks, can still get an OPEN on a context it released.
6. `interruptSubagent` between the moment a supervisor has resolved its turn as
   suspended and the moment it settles: the stored suspension is cancelled, the
   phase is still running, and the child falls asleep in memory with its deadline.
   The test suite says of the interrupt that it "cancels a suspended deadline
   rather than reviving it on the next tick", and covers a child that sleeps already.

Two exceptions of `AbortedTurnSettled`. The lifecycle docs say that aborting a root
turn "interrupts pending or running child work owned by that turn and discards its
queued work" (`AgentLifecycle.hs:130`); the code keeps less, and the property says
exactly how much:

- `abortRootTurn` discards queued work from the mailboxes alone
  (`Registry/Operations.hs:298`). A follow-up of the aborted turn that was steered
  into the running turn of a child working for another owner (`Steering.hs:26`) stays
  in that turn's input queue and is submitted. The property allows it there and
  nowhere else.
- `publishCompletionSTM` does not look at the aborted turns (`Registry/Core.hs:692`).
  A nested child that the abort interrupts reports to its parent; if the parent runs
  for another owner, it is left with mail of the aborted turn. The property speaks of
  children without children of their own (`Childless`).

Windows the passing runs leave out, as hazards in `PROJECT.json`:

- `runSupervisor` resets the cancel latch after the child was published as
  running; an interrupt in between is erased (`Registry/Core.hs:562`).
- A storage failure while a sleeping child is closed leaves no marker, so that a
  retried close does not cancel the stored suspension (`Registry/Core.hs:979`).
- A kill between the acknowledgement of inputs and the assignment that records it
  (`Loop/Internal.hs:838`), after which `recoverTools` acknowledges the same number
  again.
- A limit lowered between the admission of a resume and its scheduling
  (`Registry/Operations.hs:245`).

## 6. Reading the models

An action names the function it stands for in the comment above it; `map` in
`PROJECT.json` gives the lines. To run a model: `tlc -config RegistryClosing.cfg
MCSubagentRegistry`; to check the proofs: `tlapm SubagentRegistryProofs.tla`.

## 7. Plan

In order of importance:

1. `SubagentWaits`: `waitSubagentsFrom` and `waitAnyLive` with their timeouts, the
   cursors of seen updates, and completions routed to a waiter or to a mailbox;
   composed with the registry's `Publish`. A completion is reported by a wait or
   by mail, and not by both.
2. The turns of the header (start, events, approvals, cancel) over the engine's
   session state, composed with `BrowserHost` and `ComputerHost` through engine
   destruction.
3. `ChildTurn` (`Subagents/Child.hs`) and the root turns of `Subagents/Loop.hs` with
   the deadline of awaited children.
4. `WebSocketSession`: generations and abandoned frames, refined to a channel in
   which an answer belongs to the request that is waiting.
5. `ToolExecution` with `EventPump`; `InputInbox` with the Telegram gateway.
6. The daemon's journal, the server's supervisor and the MCP supervisor.

## 8. Not modelled

Waits and read-only queries of the registry (planned); tool execution, event
delivery, token usage and the content of responses in the loop. Of the header:
turns, sessions, accounts, settings, skills, integrations, speech and syntax,
which hand requests to components behind them; the fields of requests and results,
which are data that no property tells apart; engine destruction, which belongs to
the engine's turns. Of the C files: malformed arguments that return before
anything happens, allocation failures other than those of creation, SDP and PCM
contents. Provider codecs, stores, tools, terminal UI and accounts: formats,
rendering and I/O whose logic lies in external systems. Byte counts are small
numbers, so the saturation of `saturatingAdd` at the top of `Int` is not reached.
