-------------------------- MODULE SubagentRegistry --------------------------
(***************************************************************************)
(* The registry of delegated child agents of agent-core                    *)
(* (Agent/Subagents/Registry/Internal): admission of children under a      *)
(* concurrency cap, one supervisor thread per child that runs its turns,   *)
(* mailboxes and steering, interruption, closure, restoration and durable  *)
(* suspension.                                                             *)
(*                                                                         *)
(* The lifecycle MVar serialises the operations that change the tree, so   *)
(* one variable, op, stands for the operation that holds it (NoOp: free).  *)
(* Supervisors and the turns they run do not hold it; every STM            *)
(* transaction is one step, and an operation of several transactions is    *)
(* several steps between which supervisors interleave.                     *)
(***************************************************************************)
EXTENDS Integers, Sequences, FiniteSets

CONSTANTS
    Agents,         \* subagent ids
    Turns,          \* root turn ids
    Paths,          \* task paths
    RootPath,       \* taskPathRoot, the path of legacy restored agents
    Root,           \* the root conversation, as the parent of a child
    NoTurn,         \* work that no root turn owns
    NoOwner,        \* an unassigned task path
    InitialLimit,   \* the configured maxConcurrent
    Limits,         \* the limits /agents limit may set
    MaxDepth,       \* config.maxDepth
    MaxPerTurn,     \* config.maxSpawnedPerTurn
    MaxMail,        \* BOUND: works waiting for one child
    PersistFaults   \* may durable suspension storage fail?

ASSUME ConstantsAssumption ==
    /\ IsFiniteSet(Agents)
    /\ Root \notin Agents /\ NoOwner \notin Agents /\ NoTurn \notin Turns
    /\ RootPath \in Paths
    /\ InitialLimit \in Nat /\ Limits \subseteq Nat
    /\ MaxDepth \in Nat /\ MaxPerTurn \in Nat /\ MaxMail \in Nat
    /\ PersistFaults \in BOOLEAN

VARIABLES
    used,           \* ids handed out (registryNextSubagentId)
    agents,         \* keys of registryAgents
    parent, depth, path,    \* identity of each record
    paths,          \* registryPaths
    prep,           \* admitted children whose spawner is still preparing
    phase,          \* recordPhase
    mailbox,        \* recordMailbox
    steerOn, steered,       \* recordSteering and its steeringWork
    cancel,         \* records whose cancel latch is set
    sup,            \* where each supervisor thread is
    outcome,        \* what the supervisor's current turn came to
    live,           \* registryLiveCount
    limit,          \* config.maxConcurrent
    spawned,        \* registryRootTurnSpawnCounts
    aborted,        \* registryAbortedRootTurns
    closed,         \* registryClosed
    suspensions,    \* keys of registrySuspensions
    durable,        \* children the suspension storage holds as suspended
    op,             \* the operation holding registryLifecycle
    stage,          \* how far that operation is with each record
    claims,         \* records whose durable suspension it has to cancel
    stopped         \* history: stopSubagentRegistry ran since the last reset

identVars == <<used, agents, parent, depth, path, paths>>
mailVars  == <<mailbox, steerOn, steered>>
supVars   == <<sup, outcome>>
limitVars == <<limit, spawned, aborted, closed, stopped>>
suspVars  == <<suspensions, durable>>
lockVars  == <<op, stage, claims>>
vars == <<identVars, prep, phase, mailVars, cancel, supVars, live,
          limitVars, suspVars, lockVars>>

-----------------------------------------------------------------------------
(* Phases, statuses and work                                               *)

TurnOpt  == Turns \cup {NoTurn}
Kinds    == {"task", "followup", "queued"}
Work     == [turn : TurnOpt, kind : Kinds]
Statuses == {"completed", "errored", "interrupted", "suspended",
             "pending", "running", "closed"}
Tags     == {"idle", "pending", "running", "interrupting", "closed"}

\* SubagentPhase; the status field is phaseStatus, turn is phaseRootTurnId.
Phases == [tag : Tags, status : Statuses, turn : TurnOpt]
Idle(s, t)      == [tag |-> "idle", status |-> s, turn |-> t]
Pending(t)      == [tag |-> "pending", status |-> "pending", turn |-> t]
Running(t)      == [tag |-> "running", status |-> "running", turn |-> t]
Interrupting(t) == [tag |-> "interrupting", status |-> "interrupted", turn |-> t]
ClosedPhase     == [tag |-> "closed", status |-> "closed", turn |-> NoTurn]

HoldsSlot(p) == p.tag \in {"pending", "running", "interrupting"}
Holding      == {a \in Agents : HoldsSlot(phase[a])}

\* Supervisor program points: the statements of runSupervisor between two
\* transactions. "none" is recordAsync = Nothing, "exited" a finished thread
\* that recordAsync still refers to.
Points == {"none", "exited", "await", "reset", "run", "commit", "resolve",
           "step", "publish", "finish"}
Dead   == {"none", "exited"}

\* The result of the turn the supervisor settles; "none" before it returned.
Outcomes == {"none", "completed", "errored", "interrupted", "suspended"}

OpKinds == {"none", "send", "interrupt", "interruptAll", "abort", "resume",
            "close", "closeAll", "reset", "stop"}
Op     == [kind : OpKinds, turn : TurnOpt, seen : Statuses, flag : BOOLEAN]
Stages == {"none", "todo", "ready", "cancelling", "waiting"}
NoOp == [kind |-> "none", turn |-> NoTurn, seen |-> "closed", flag |-> FALSE]
Call(k, t, s, f) == [kind |-> k, turn |-> t, seen |-> s, flag |-> f]

Free == op.kind = "none"
NoStage == [a \in Agents |-> "none"]
Drained == stage = NoStage
\* An operation takes the lock with the records it will work through,
Lock(o, S, first) ==
    /\ op' = o
    /\ stage' = [a \in Agents |-> IF a \in S THEN first ELSE "none"]
    /\ UNCHANGED claims
\* gets to the next stage with one of them, and gives the lock back.
Move(a, to) == stage' = [stage EXCEPT ![a] = to] /\ UNCHANGED <<op, claims>>
Unlock == op' = NoOp /\ stage' = NoStage /\ claims' = {}

\* Mutant: a record that holds no slot gives one up.
ReleasedTwice(a) == IF live > 0 THEN live - 1 ELSE 0

\* Mutant: the count is not kept at zero after stopSubagentRegistry reset it.
ReleasedUnclamped(a) == IF HoldsSlot(phase[a]) THEN live - 1 ELSE live

\* releaseSlotSTM: the count after the record gives up the slot it may hold.
Released(a) == IF HoldsSlot(phase[a])
               THEN (IF live > 0 THEN live - 1 ELSE 0)
               ELSE live

TurnAborted(t) == t \in aborted

\* The works of a mailbox that belong to no turn of T, in their order.
Without(s, T) ==
    LET kept == {i \in 1..Len(s) : s[i].turn \notin T}
        nth(j) == CHOOSE i \in kept : Cardinality({k \in kept : k <= i}) = j
    IN  [j \in 1..Cardinality(kept) |-> s[nth(j)]]

\* descendants: the least set of records under a (a itself excluded).
Descendants(a) ==
    {b \in agents \ {a} :
        \A S \in SUBSET agents :
            (/\ {c \in agents : parent[c] = a} \subseteq S
             /\ \A c \in agents : parent[c] \in S => c \in S) => b \in S}

-----------------------------------------------------------------------------
Init ==
    /\ used = {} /\ agents = {} /\ prep = {}
    /\ parent = [a \in Agents |-> Root]
    /\ depth = [a \in Agents |-> 1]
    /\ path = [a \in Agents |-> RootPath]
    /\ paths = [p \in Paths |-> NoOwner]
    /\ phase = [a \in Agents |-> ClosedPhase]
    /\ mailbox = [a \in Agents |-> <<>>]
    /\ steerOn = {} /\ steered = [a \in Agents |-> <<>>]
    /\ cancel = {}
    /\ sup = [a \in Agents |-> "none"]
    /\ outcome = [a \in Agents |-> "none"]
    /\ live = 0 /\ limit = InitialLimit
    /\ spawned = [t \in Turns |-> 0]
    /\ aborted = {} /\ closed = FALSE /\ stopped = FALSE
    /\ suspensions = {} /\ durable = {}
    /\ op = NoOp /\ stage = NoStage /\ claims = {}

-----------------------------------------------------------------------------
(* Admission and start of a child                                          *)

\* resolveParentSTM: the root at depth 0, or a registered open agent.
ParentOpen(p) == p = Root \/ (p \in agents /\ phase[p].status # "closed")
ChildDepth(p) == IF p = Root THEN 1 ELSE depth[p] + 1

\* Mutant: the task path of another child is taken over.
PathTaken(pth) == pth # RootPath

\* A new child needs a task path that no registered child owns.
PathUnused(pth) == pth # RootPath /\ paths[pth] = NoOwner

\* spawnSubagentAtWithIdPreparedForTurn, the admission transaction: a free
\* slot, the turn's budget, the depth limit and the task path are checked and
\* taken together. A nested spawn is a tool call of the parent's own turn.
Spawn(a, p, t, pth) ==
    /\ Free /\ ~closed /\ ~TurnAborted(t)
    /\ a \notin used
    /\ ParentOpen(p) /\ (p \in Agents => sup[p] = "run")
    /\ t \in Turns => spawned[t] < MaxPerTurn
    /\ ChildDepth(p) <= MaxDepth
    /\ PathUnused(pth)
    /\ live < limit
    /\ used' = used \cup {a}
    /\ agents' = agents \cup {a}
    /\ prep' = prep \cup {a}
    /\ parent' = [parent EXCEPT ![a] = p]
    /\ depth' = [depth EXCEPT ![a] = ChildDepth(p)]
    /\ path' = [path EXCEPT ![a] = pth]
    /\ paths' = [paths EXCEPT ![pth] = a]
    /\ phase' = [phase EXCEPT ![a] = Pending(t)]
    /\ live' = live + 1
    /\ spawned' = [u \in Turns |-> spawned[u] + (IF u = t THEN 1 ELSE 0)]
    /\ UNCHANGED <<mailVars, cancel, supVars, limit, aborted,
                   closed, stopped, suspVars, lockVars>>

\* startRecordSupervisor rejects a record that was closed, aborted, removed or
\* already supervised while its spawner prepared it.
StartAllowed(a) ==
    /\ ~closed /\ ~TurnAborted(phase[a].turn)
    /\ phase[a].status # "closed"
    /\ a \in agents /\ paths[path[a]] \in {a, NoOwner}
    /\ sup[a] = "none"

StartSupervisor(a) ==
    /\ Free /\ a \in prep /\ StartAllowed(a)
    /\ prep' = prep \ {a}
    /\ sup' = [sup EXCEPT ![a] = "await"]
    /\ UNCHANGED <<identVars, phase, mailVars, cancel, outcome,
                   live, limitVars, suspVars, lockVars>>

\* Mutant: unacknowledged work goes back even if its turn was aborted.
RetainedAll(a) == steered[a]

\* Killing a supervisor runs the finaliser of withSubagentMessageSteering: its
\* unacknowledged, unaborted work goes back to the front of the mailbox,
\* unless the record is closed.
Retained(a) == Without(steered[a], aborted)
SteeringEnded(a) ==
    /\ steerOn' = steerOn \ {a}
    /\ steered' = [steered EXCEPT ![a] = <<>>]
    /\ mailbox' = IF a \notin steerOn \/ phase[a].tag = "closed" THEN mailbox
                  ELSE [mailbox EXCEPT ![a] = Retained(a) \o mailbox[a]]

\* stopRecordSupervisor: the thread is killed and joined.
Killed(a) ==
    /\ sup' = [sup EXCEPT ![a] = "none"]
    /\ outcome' = [outcome EXCEPT ![a] = "none"]

\* rollbackAdmission: preparation failed, or the start was rejected. Needs no
\* lock; a supervisor that a concurrent restore started is stopped.
RollbackAdmission(a) ==
    /\ a \in prep
    /\ prep' = prep \ {a}
    /\ agents' = agents \ {a}
    /\ paths' = IF paths[path[a]] = a
                THEN [paths EXCEPT ![path[a]] = NoOwner] ELSE paths
    /\ live' = Released(a)
    /\ phase' = [phase EXCEPT ![a] = ClosedPhase]
    /\ Killed(a)
    /\ steerOn' = steerOn \ {a}
    /\ steered' = [steered EXCEPT ![a] = <<>>]
    /\ UNCHANGED <<used, parent, depth, path, mailbox, cancel, limitVars,
                   suspVars, lockVars>>

\* A spawner killed while it waits to start the supervisor: shutdownRecord,
\* outside the lock, and then the rollback above.
SpawnerKilled(a) ==
    /\ a \in prep /\ sup[a] = "none"
    /\ cancel' = cancel \cup {a}
    /\ live' = Released(a)
    /\ phase' = [phase EXCEPT ![a] = ClosedPhase]
    /\ mailbox' = [mailbox EXCEPT ![a] = <<>>]
    /\ suspensions' = suspensions \ {a}
    /\ UNCHANGED <<identVars, prep, steerOn, steered, supVars,
                   limitVars, durable, lockVars>>

-----------------------------------------------------------------------------
(* The supervisor thread of a child                                        *)

At(a, from) == sup[a] = from
GoTo(a, to) == sup' = [sup EXCEPT ![a] = to]

\* takeStartedWork
TakeStartedWork(a) ==
    /\ At(a, "await")
    /\ \/ /\ phase[a].tag = "closed"
          /\ GoTo(a, "exited")
          /\ UNCHANGED phase
       \/ /\ phase[a].tag = "pending"
          /\ phase' = [phase EXCEPT ![a] = Running(phase[a].turn)]
          /\ GoTo(a, "reset")
    /\ UNCHANGED <<identVars, prep, mailVars, cancel, outcome, live,
                   limitVars, suspVars, lockVars>>

\* resetCancel, a transaction of its own before the turn starts.
ResetCancel(a) ==
    /\ At(a, "reset")
    /\ cancel' = cancel \ {a}
    /\ GoTo(a, "run")
    /\ UNCHANGED <<identVars, prep, phase, mailVars, outcome, live,
                   limitVars, suspVars, lockVars>>

\* Mutant: an error of the turn ends the supervisor.
RunThrows(a) ==
    /\ At(a, "run") /\ a \notin steerOn
    /\ \E r \in {"completed", "errored"} :
        /\ outcome' = [outcome EXCEPT ![a] = r]
        /\ GoTo(a, IF r = "errored" THEN "exited" ELSE "commit")
    /\ UNCHANGED <<identVars, prep, phase, mailVars, cancel, live,
                   limitVars, suspVars, lockVars>>

\* The turn returns by itself: an answer, a cancellation it observed itself (or
\* the yield after a suspension request), or an error, which drops a request.
RunReturns(a) ==
    /\ At(a, "run") /\ a \notin steerOn
    /\ \E r \in {"completed", "errored", "interrupted"} :
        /\ r = "interrupted" => a \in cancel \cup suspensions
        /\ outcome' = [outcome EXCEPT ![a] = r]
        /\ IF r = "errored"
           THEN suspensions' = suspensions \ {a} /\ GoTo(a, "step")
           ELSE GoTo(a, "commit") /\ UNCHANGED suspensions
    /\ UNCHANGED <<identVars, prep, phase, mailVars, cancel, live,
                   limitVars, durable, lockVars>>

\* waitCancel wins the race against the turn, which is killed.
RunCancelled(a) ==
    /\ At(a, "run") /\ a \notin steerOn /\ a \in cancel
    /\ outcome' = [outcome EXCEPT ![a] = "interrupted"]
    /\ suspensions' = suspensions \ {a}
    /\ GoTo(a, "step")
    /\ UNCHANGED <<identVars, prep, phase, mailVars, cancel, live,
                   limitVars, durable, lockVars>>

\* commitRequestedSuspension, which takes the lifecycle lock.
CommitSuspension(a) ==
    /\ Free /\ At(a, "commit")
    /\ \/ /\ a \notin suspensions
          /\ GoTo(a, "resolve")
          /\ UNCHANGED <<outcome, suspVars>>
       \/ /\ a \in suspensions
          /\ durable' = durable \cup {a}
          /\ GoTo(a, "resolve")
          /\ UNCHANGED <<outcome, suspensions>>
       \/ /\ a \in suspensions /\ PersistFaults
          /\ suspensions' = suspensions \ {a}
          /\ outcome' = [outcome EXCEPT ![a] = "errored"]
          /\ GoTo(a, "resolve")
          /\ UNCHANGED durable
    /\ UNCHANGED <<identVars, prep, phase, mailVars, cancel, live,
                   limitVars, lockVars>>

\* The status of the turn: suspended when a request is (still) recorded.
ResolveStatus(a) ==
    /\ At(a, "resolve")
    /\ outcome' = [outcome EXCEPT ![a] =
                     IF a \in suspensions /\ @ # "errored" THEN "suspended" ELSE @]
    /\ GoTo(a, "step")
    /\ UNCHANGED <<identVars, prep, phase, mailVars, cancel, live,
                   limitVars, suspVars, lockVars>>

\* Mutant: the slot of a settled turn is not given back.
ToIdleKeepsSlot(a, s) ==
    /\ phase' = [phase EXCEPT ![a] = Idle(s, NoTurn)]
    /\ suspensions' = suspensions \ {a}
    /\ UNCHANGED live

\* transitionToIdleSTM
ToIdle(a, s) ==
    /\ live' = Released(a)
    /\ phase' = [phase EXCEPT ![a] = Idle(s, NoTurn)]
    /\ suspensions' = suspensions \ {a}

\* supervisorStep with the outcome onIdle has for a running child without mail.
SupervisorStep(a, onIdle) ==
    \/ /\ phase[a].tag = "closed"
       /\ GoTo(a, "exited")
       /\ UNCHANGED <<live, phase, suspensions, mailbox>>
    \/ /\ phase[a].tag = "interrupting"
       /\ ToIdle(a, "interrupted")
       /\ GoTo(a, "await")
       /\ UNCHANGED mailbox
    \/ /\ phase[a].tag = "running" /\ mailbox[a] # <<>>
       /\ phase' = [phase EXCEPT ![a] = Running(Head(mailbox[a]).turn)]
       /\ mailbox' = [mailbox EXCEPT ![a] = Tail(@)]
       /\ GoTo(a, "reset")
       /\ UNCHANGED <<live, suspensions>>
    \/ /\ phase[a].tag = "running" /\ mailbox[a] = <<>>
       /\ onIdle
    \/ /\ phase[a].tag = "idle"
       /\ GoTo(a, "await")
       /\ UNCHANGED <<live, phase, suspensions, mailbox>>

Complete(a) == GoTo(a, "publish") /\ UNCHANGED <<live, phase, suspensions, mailbox>>

\* nextSupervisorStep, or supervisorStepWithoutMailbox after a suspension.
NextStep(a) ==
    /\ At(a, "step")
    /\ IF outcome[a] = "suspended" /\ phase[a].tag = "running"
       THEN Complete(a)
       ELSE SupervisorStep(a, Complete(a))
    /\ outcome' = [outcome EXCEPT ![a] = IF sup'[a] = "publish" THEN @ ELSE "none"]
    /\ UNCHANGED <<identVars, prep, steerOn, steered, cancel, limitVars, durable,
                   lockVars>>

\* enqueueSubagentWorkSTM: with no backlog, work for a steered turn goes to the
\* turn when its input queue accepts it, and to the mailbox otherwise.
Mail(a) == Len(mailbox[a]) + Len(steered[a])
Enqueue(a, w) ==
    \/ /\ a \in steerOn /\ mailbox[a] = <<>>
       /\ steered' = [steered EXCEPT ![a] = Append(@, w)]
       /\ UNCHANGED mailbox
    \/ /\ mailbox' = [mailbox EXCEPT ![a] = Append(@, w)]
       /\ UNCHANGED steered

\* publishCompletionSTM and the callbacks that follow it. Whether the parent
\* awaits the completion, and so gets no mail, is free here.
Publish(a) ==
    /\ At(a, "publish")
    /\ \/ UNCHANGED <<mailbox, steered>>
       \/ /\ parent[a] \in agents
          /\ phase[parent[a]].status \in {"running", "pending"}
          /\ Mail(parent[a]) < MaxMail
          /\ Enqueue(parent[a], [turn |-> phase[a].turn, kind |-> "queued"])
    /\ GoTo(a, "finish")
    /\ UNCHANGED <<identVars, prep, phase, steerOn, cancel, outcome, live,
                   limitVars, suspVars, lockVars>>

\* finishSupervisorStep
Finish(a) ==
    LET idle(s) == ToIdle(a, s) /\ GoTo(a, "await") /\ UNCHANGED mailbox
    IN  /\ At(a, "finish")
        /\ IF outcome[a] = "suspended" /\ phase[a].tag = "running"
           THEN idle("suspended")
           ELSE SupervisorStep(a, idle(outcome[a]))
        /\ outcome' = [outcome EXCEPT ![a] = "none"]
        /\ UNCHANGED <<identVars, prep, steerOn, steered, cancel, limitVars,
                       durable, lockVars>>

-----------------------------------------------------------------------------
(* What a running turn does to its own record                              *)

\* withSubagentMessageSteering: the turn takes the mail its queue accepts.
SteerAcquire(a) ==
    /\ At(a, "run") /\ a \in agents /\ a \notin steerOn
    /\ \E k \in 0..Len(mailbox[a]) :
        /\ steered' = [steered EXCEPT ![a] = SubSeq(mailbox[a], 1, k)]
        /\ mailbox' = [mailbox EXCEPT ![a] = SubSeq(@, k + 1, Len(@))]
    /\ steerOn' = steerOn \cup {a}
    /\ UNCHANGED <<identVars, prep, phase, cancel, supVars, live,
                   limitVars, suspVars, lockVars>>

\* commitSubagentMessageSteering: the provider acknowledged a prefix.
SteerCommit(a) ==
    /\ At(a, "run") /\ a \in steerOn
    /\ \E k \in 1..Len(steered[a]) :
        steered' = [steered EXCEPT ![a] = SubSeq(@, k + 1, Len(@))]
    /\ UNCHANGED <<identVars, prep, phase, mailbox, steerOn, cancel,
                   supVars, live, limitVars, suspVars, lockVars>>

SteerRelease(a) ==
    /\ At(a, "run") /\ a \in steerOn
    /\ SteeringEnded(a)
    /\ UNCHANGED <<identVars, prep, phase, cancel, supVars, live,
                   limitVars, suspVars, lockVars>>

\* requestSubagentSuspension by a tool of the turn.
RequestSuspension(a) ==
    /\ Free /\ ~closed
    /\ a \in agents /\ phase[a].tag = "running" /\ At(a, "run")
    /\ suspensions' = suspensions \cup {a}
    /\ UNCHANGED <<identVars, prep, phase, mailVars, cancel, supVars,
                   live, limitVars, durable, lockVars>>

-----------------------------------------------------------------------------
(* Operations of callers under the lifecycle lock: messages                *)

\* Mutant: idle work is scheduled without a free slot.
SchedulableOverLimit(a) == ~closed /\ phase[a].tag = "idle"

\* Mutant: work is scheduled for a child that is still in a turn.
SchedulableBusy(a) == ~closed /\ live < limit

\* scheduleIdleWork, for a turn t that is not aborted.
Schedulable(a) == ~closed /\ phase[a].tag = "idle" /\ live < limit
Schedule(a, t) ==
    /\ phase' = [phase EXCEPT ![a] = Pending(t)]
    /\ live' = live + 1

\* sendInputMessageForTurnWithOrigin reads the status and acts on it in later
\* transactions, between which the supervisor may move on.
SendInput(a, t, interrupt) ==
    /\ Free /\ ~closed /\ a \in agents
    /\ phase[a].status # "closed" /\ Mail(a) < MaxMail
    /\ Lock(Call("send", t, phase[a].status, interrupt), {a}, "todo")
    /\ UNCHANGED <<identVars, prep, phase, mailVars, cancel, supVars,
                   live, limitVars, suspVars>>

\* queue: the child was running or pending. An interrupting message cancels
\* the turn afterwards.
SendQueue(a) ==
    /\ op.kind = "send" /\ stage[a] = "todo" /\ op.seen \in {"running", "pending"}
    /\ \/ /\ TurnAborted(op.turn)
          /\ Unlock
          /\ UNCHANGED <<mailbox, steered>>
       \/ /\ ~TurnAborted(op.turn)
          /\ Enqueue(a, [turn |-> op.turn, kind |-> "followup"])
          /\ IF op.flag THEN Move(a, "cancelling") ELSE Unlock
    /\ UNCHANGED <<identVars, prep, phase, steerOn, cancel, supVars,
                   live, limitVars, suspVars>>

\* restart: the child was idle. The latch is reset before admission is tried.
SendRestart(a) ==
    /\ op.kind = "send" /\ stage[a] = "todo"
    /\ op.seen \notin {"running", "pending", "suspended"}
    /\ cancel' = cancel \ {a}
    /\ IF ~TurnAborted(op.turn) /\ Schedulable(a)
       THEN Schedule(a, op.turn) ELSE UNCHANGED <<phase, live>>
    /\ Unlock
    /\ UNCHANGED <<identVars, prep, mailVars, supVars, limitVars,
                   suspVars>>

\* resumeSuspendedWork checks the admission of work of turn t, makes the resume
\* durable, and schedules the work in a transaction of its own.
ResumeAdmitted(t) == ~closed /\ ~TurnAborted(t) /\ live < limit
PersistResume(a) == durable' = durable \ {a} /\ cancel' = cancel \ {a}
ResumeRefused(t) ==
    /\ ~ResumeAdmitted(t) \/ PersistFaults
    /\ UNCHANGED <<durable, cancel>>

\* A message for a child that was suspended resumes it.
SendResume(a) ==
    /\ op.kind = "send" /\ stage[a] = "todo" /\ op.seen = "suspended"
    /\ \/ ResumeAdmitted(op.turn) /\ PersistResume(a) /\ Move(a, "ready")
       \/ ResumeRefused(op.turn) /\ Unlock
    /\ UNCHANGED <<identVars, prep, phase, mailVars, supVars, live, limitVars,
                   suspensions>>

\* resumeDueSubagents goes over all records, one after the other.
ResumeDue ==
    /\ Free
    /\ Lock(Call("resume", NoTurn, "closed", FALSE), agents, "todo")
    /\ UNCHANGED <<identVars, prep, phase, mailVars, cancel, supVars,
                   live, limitVars, suspVars>>

\* Queued mail wakes a suspended child (and is put back when it is refused),
\* else its deadline does.
DueTurn(a) == IF mailbox[a] # <<>> THEN Head(mailbox[a]).turn ELSE NoTurn
ResumeDueRecord(a) ==
    /\ op.kind = "resume" /\ stage[a] = "todo"
    /\ \A b \in Agents : stage[b] # "ready"
    /\ \/ /\ phase[a].status = "suspended"
          /\ \/ ResumeAdmitted(DueTurn(a)) /\ PersistResume(a) /\ Move(a, "ready")
             \/ ResumeRefused(DueTurn(a)) /\ Move(a, "none")
       \/ /\ phase[a].status # "suspended" \/ mailbox[a] = <<>>
          /\ Move(a, "none")
          /\ UNCHANGED <<durable, cancel>>
    /\ UNCHANGED <<identVars, prep, phase, mailVars, supVars, live, limitVars,
                   suspensions>>

\* scheduleIdleWork at the end of resumeSuspendedWork.
ResumeSchedule(a) ==
    /\ op.kind \in {"send", "resume"} /\ stage[a] = "ready"
    /\ \/ /\ Schedulable(a)
          /\ Schedule(a, IF op.kind = "send" THEN op.turn ELSE DueTurn(a))
          /\ mailbox' = IF op.kind = "resume" /\ mailbox[a] # <<>>
                        THEN [mailbox EXCEPT ![a] = Tail(@)] ELSE mailbox
       \/ ~Schedulable(a) /\ UNCHANGED <<phase, live, mailbox>>
    /\ Move(a, "none")
    /\ UNCHANGED <<identVars, prep, steerOn, steered, cancel, supVars,
                   limitVars, suspVars>>

\* queueMessageFromForTurnWithOrigin: mail that starts no turn.
QueueMessage(a, t) ==
    /\ Free /\ ~closed /\ ~TurnAborted(t)
    /\ a \in agents /\ phase[a].status # "closed" /\ Mail(a) < MaxMail
    /\ Enqueue(a, [turn |-> t, kind |-> "queued"])
    /\ UNCHANGED <<identVars, prep, phase, steerOn, cancel, supVars,
                   live, limitVars, suspVars, lockVars>>

SetMaxConcurrent(n) ==
    /\ limit' = IF n > 1 THEN n ELSE 1
    /\ UNCHANGED <<identVars, prep, phase, mailVars, cancel, supVars,
                   live, spawned, aborted, closed, stopped, suspVars, lockVars>>

-----------------------------------------------------------------------------
(* Interruption                                                            *)

InterruptSubagent(a) ==
    /\ Free /\ a \in agents
    /\ Lock(Call("interrupt", NoTurn, "closed", FALSE), {a}, "todo")
    /\ UNCHANGED <<identVars, prep, phase, mailVars, cancel, supVars,
                   live, limitVars, suspVars>>

\* interruptActiveSubagents closes the registry until every child settled.
InterruptActive ==
    /\ Free
    /\ closed' = TRUE
    /\ Lock(Call("interruptAll", NoTurn, "closed", closed),
            {a \in agents : phase[a].status \in {"pending", "running"}}, "ready")
    /\ UNCHANGED <<identVars, prep, phase, mailVars, cancel, supVars,
                   live, limit, spawned, aborted, stopped, suspVars>>

\* abortRootTurn: marks the turn, discards its queued work and selects its
\* children, in one transaction.
AbortRootTurn(t) ==
    /\ Free
    /\ aborted' = aborted \cup {t}
    /\ mailbox' = [a \in Agents |->
                     IF a \in agents
                     THEN Without(mailbox[a], {t}) ELSE mailbox[a]]
    /\ Lock(Call("abort", t, "closed", FALSE),
            {a \in agents : /\ phase[a].turn = t
                            /\ phase[a].status \in {"pending", "running"}}, "todo")
    /\ UNCHANGED <<identVars, prep, phase, steerOn, steered, cancel,
                   supVars, live, limit, spawned, closed, stopped, suspVars>>

\* cancelSuspension; a storage failure abandons the whole operation.
CancelSuspension(a) ==
    /\ op.kind \in {"interrupt", "abort"} /\ stage[a] = "todo"
    /\ LET needed == a \in suspensions \/ phase[a].status = "suspended"
       IN \/ /\ needed
             /\ durable' = durable \ {a}
             /\ suspensions' = suspensions \ {a}
             /\ Move(a, "ready")
          \/ /\ ~needed
             /\ Move(a, "ready")
             /\ UNCHANGED suspVars
          \/ /\ needed /\ PersistFaults
             /\ Unlock
             /\ UNCHANGED suspVars
    /\ UNCHANGED <<identVars, prep, phase, mailVars, cancel, supVars,
                   live, limitVars>>

\* Mutant: the child sleeps on after its suspension was cancelled.
InterruptLeavesAsleep(a) ==
    /\ op.kind = "interrupt" /\ stage[a] = "ready"
    /\ phase[a].tag # "pending"
    /\ Move(a, "cancelling")
    /\ UNCHANGED <<identVars, prep, phase, mailVars, cancel, supVars, live, limitVars,
                   suspVars>>

\* interruptSubagent's transaction: a suspended or pending child settles, with
\* the next queued work taking over the slot; any other is cancelled.
InterruptOne(a) ==
    /\ op.kind = "interrupt" /\ stage[a] = "ready"
    /\ \/ /\ phase[a].tag = "idle" /\ phase[a].status = "suspended"
          /\ phase' = [phase EXCEPT ![a] = Idle("interrupted", NoTurn)]
          /\ Move(a, "none")
          /\ UNCHANGED <<live, mailbox>>
       \/ /\ phase[a].tag = "pending"
          /\ IF mailbox[a] # <<>>
             THEN /\ phase' = [phase EXCEPT ![a] = Pending(Head(mailbox[a]).turn)]
                  /\ mailbox' = [mailbox EXCEPT ![a] = Tail(@)]
                  /\ live' = Released(a) + 1
             ELSE /\ phase' = [phase EXCEPT ![a] = Idle("interrupted", phase[a].turn)]
                  /\ live' = Released(a)
                  /\ UNCHANGED mailbox
          /\ Move(a, "none")
       \/ /\ phase[a].tag # "pending"
          /\ ~(phase[a].tag = "idle" /\ phase[a].status = "suspended")
          /\ Move(a, "cancelling")
          /\ UNCHANGED <<phase, live, mailbox>>
    /\ UNCHANGED <<identVars, prep, steerOn, steered, cancel, supVars, limitVars,
                   suspVars>>

\* interruptRecordForTurn after cancelSuspension.
InterruptForTurn(a) ==
    /\ op.kind = "abort" /\ stage[a] = "ready"
    /\ \/ /\ phase[a].turn = op.turn /\ phase[a].tag = "pending"
          /\ phase' = [phase EXCEPT ![a] = Idle("interrupted", op.turn)]
          /\ live' = Released(a)
          /\ Move(a, "none")
       \/ /\ phase[a].turn = op.turn /\ phase[a].tag \in {"running", "interrupting"}
          /\ phase' = [phase EXCEPT ![a] = Interrupting(phase[a].turn)]
          /\ Move(a, "cancelling")
          /\ UNCHANGED live
       \/ /\ phase[a].turn # op.turn \/ ~HoldsSlot(phase[a])
          /\ Move(a, "none")
          /\ UNCHANGED <<phase, live>>
    /\ UNCHANGED <<identVars, prep, mailVars, cancel, supVars,
                   limitVars, suspVars>>

\* interruptRecord: the mailbox is discarded whatever the phase.
InterruptRecord(a) ==
    /\ op.kind = "interruptAll" /\ stage[a] = "ready"
    /\ mailbox' = [mailbox EXCEPT ![a] = <<>>]
    /\ \/ /\ phase[a].tag = "pending"
          /\ ToIdle(a, "interrupted")
          /\ Move(a, "none")
       \/ /\ phase[a].tag \in {"running", "interrupting"}
          /\ phase' = [phase EXCEPT ![a] = Interrupting(phase[a].turn)]
          /\ Move(a, "cancelling")
          /\ UNCHANGED <<live, suspensions>>
       \/ /\ ~HoldsSlot(phase[a])
          /\ Move(a, "none")
          /\ UNCHANGED <<phase, live, suspensions>>
    /\ UNCHANGED <<identVars, prep, steerOn, steered, cancel,
                   supVars, limitVars, durable>>

\* requestCancel, for the operations that cancel a turn. interruptRecord and
\* interruptRecordForTurn then wait for the slot (waitForReleasedSlot).
RequestCancel(a) ==
    /\ stage[a] = "cancelling" /\ op.kind \in {"send", "interrupt", "abort", "interruptAll"}
    /\ cancel' = cancel \cup {a}
    /\ Move(a, IF op.kind \in {"abort", "interruptAll"} THEN "waiting" ELSE "none")
    /\ UNCHANGED <<identVars, prep, phase, mailVars, supVars, live,
                   limitVars, suspVars>>
SlotReleased(a) ==
    /\ op.kind \in {"abort", "interruptAll"} /\ stage[a] = "waiting"
    /\ ~HoldsSlot(phase[a])
    /\ Move(a, "none")
    /\ UNCHANGED <<identVars, prep, phase, mailVars, cancel, supVars,
                   live, limitVars, suspVars>>

\* The operation is over: the lock is released.
InterruptDone ==
    /\ op.kind \in {"send", "interrupt", "abort", "interruptAll", "resume"} /\ Drained
    /\ closed' = IF op.kind = "interruptAll" THEN op.flag ELSE closed
    /\ Unlock
    /\ UNCHANGED <<identVars, prep, phase, mailVars, cancel, supVars,
                   live, limit, spawned, aborted, stopped, suspVars>>

-----------------------------------------------------------------------------
(* Closing, stopping and resetting                                         *)

CloseSubagent(a) ==
    /\ Free /\ a \in agents
    /\ Lock(Call("close", NoTurn, "closed", FALSE), Descendants(a) \cup {a}, "todo")
    /\ UNCHANGED <<identVars, prep, phase, mailVars, cancel, supVars,
                   live, limitVars, suspVars>>

\* closeSubagentRegistry and resetSubagentRegistry share their first part.
CloseRegistry(k) ==
    /\ Free
    /\ closed' = TRUE
    /\ Lock(Call(k, NoTurn, "closed", FALSE), agents, "todo")
    /\ UNCHANGED <<identVars, prep, phase, mailVars, cancel, supVars,
                   live, limit, spawned, aborted, stopped, suspVars>>

\* Children are shut down before their parents: one at a time by closeSubagent,
\* level by level by the whole registry.
Shutting == {"close", "closeAll", "reset"}
\* Mutant: records are shut down in any order.
ShutdownAnyOrder(a) == \A b \in Agents \ {a} : stage[b] \in {"none", "todo"}

ShutdownOrder(a) ==
    \A b \in Agents \ {a} :
        IF op.kind = "close"
        THEN stage[b] = "none" \/ (stage[b] = "todo" /\ b \notin Descendants(a))
        ELSE stage[b] # "none" => depth[b] <= depth[a]

\* shutdownRecord: notes a durable suspension and requests cancellation,
ShutdownCancel(a) ==
    /\ op.kind \in Shutting /\ stage[a] = "todo" /\ ShutdownOrder(a)
    /\ cancel' = cancel \cup {a}
    /\ stage' = [stage EXCEPT ![a] = "ready"]
    /\ claims' = IF a \in suspensions \/ phase[a].status = "suspended"
                 THEN claims \cup {a} ELSE claims
    /\ UNCHANGED op
    /\ UNCHANGED <<identVars, prep, phase, mailVars, supVars, live,
                   limitVars, suspVars>>

\* Mutant: the closed record keeps its mail.
ShutdownKeepsMail(a) ==
    /\ op.kind \in Shutting /\ stage[a] = "ready"
    /\ live' = Released(a)
    /\ phase' = [phase EXCEPT ![a] = ClosedPhase]
    /\ Move(a, "waiting")
    /\ UNCHANGED <<identVars, prep, mailVars, cancel, supVars, limitVars, suspVars>>

\* closes the record and discards its mail,
ShutdownClose(a) ==
    /\ op.kind \in Shutting /\ stage[a] = "ready"
    /\ live' = Released(a)
    /\ phase' = [phase EXCEPT ![a] = ClosedPhase]
    /\ mailbox' = [mailbox EXCEPT ![a] = <<>>]
    /\ Move(a, "waiting")
    /\ UNCHANGED <<identVars, prep, steerOn, steered, cancel, supVars,
                   limitVars, suspVars>>

\* Mutant: the supervisor is waited for instead of killed.
ShutdownAwaitsThread(a) ==
    /\ op.kind \in Shutting /\ stage[a] = "waiting"
    /\ sup[a] \in Dead
    /\ Killed(a)
    /\ SteeringEnded(a)
    /\ suspensions' = suspensions \ {a}
    /\ durable' = IF a \in claims THEN durable \ {a} ELSE durable
    /\ Move(a, "none")
    /\ UNCHANGED <<identVars, prep, phase, cancel, live, limitVars>>

\* stops the supervisor and cancels the durable suspension. A storage failure
\* is thrown: the remaining records are left as they are.
ShutdownStop(a) ==
    /\ op.kind \in Shutting /\ stage[a] = "waiting"
    /\ Killed(a)
    /\ SteeringEnded(a)
    /\ \/ /\ suspensions' = suspensions \ {a}
          /\ durable' = IF a \in claims THEN durable \ {a} ELSE durable
          /\ Move(a, "none")
       \/ /\ a \in claims /\ PersistFaults
          /\ Unlock
          /\ UNCHANGED suspVars
    /\ UNCHANGED <<identVars, prep, phase, cancel, live, limitVars>>

CloseDone ==
    /\ op.kind \in {"close", "closeAll"} /\ Drained
    /\ Unlock
    /\ UNCHANGED <<identVars, prep, phase, mailVars, cancel, supVars,
                   live, limitVars, suspVars>>

\* resetSubagentRegistry reopens an empty registry; ids and turns go on.
ResetDone ==
    /\ op.kind = "reset" /\ Drained
    /\ agents' = {}
    /\ paths' = [p \in Paths |-> NoOwner]
    /\ live' = 0
    /\ spawned' = [t \in Turns |-> 0]
    /\ aborted' = {} /\ closed' = FALSE /\ stopped' = FALSE
    /\ suspensions' = {}
    /\ Unlock
    /\ UNCHANGED <<used, parent, depth, path, prep, phase, mailVars, cancel,
                   supVars, limit, durable>>

\* stopSubagentRegistry: process shutdown; durable state is left alone.
StopRegistry ==
    /\ Free
    /\ closed' = TRUE
    /\ Lock(Call("stop", NoTurn, "closed", FALSE), agents, "todo")
    /\ UNCHANGED <<identVars, prep, phase, mailVars, cancel, supVars,
                   live, limit, spawned, aborted, stopped, suspVars>>
StopRecord(a) ==
    /\ op.kind = "stop" /\ stage[a] = "todo"
    /\ Killed(a)
    /\ SteeringEnded(a)
    /\ Move(a, "none")
    /\ UNCHANGED <<identVars, prep, phase, cancel, live, limitVars, suspVars>>
StopDone ==
    /\ op.kind = "stop" /\ Drained
    /\ live' = 0 /\ stopped' = TRUE
    /\ Unlock
    /\ UNCHANGED <<identVars, prep, phase, mailVars, cancel, supVars,
                   limit, spawned, aborted, closed, suspVars>>

-----------------------------------------------------------------------------
(* Restoring persisted children                                            *)

\* normalizedStatus: work that was pending or running comes back interrupted.
Normalized(s) == IF s \in {"pending", "running"} THEN "interrupted" ELSE s
Restorable    == {"completed", "running", "suspended", "closed"}

\* restoreExisting: the record is registered. A closed one is reopened if its
\* supervisor can be started, which is refused while the old thread is still
\* recorded and for a child that was closed when it was stored.
Reopens(a, s) == phase[a].status = "closed" /\ sup[a] = "none" /\ s # "closed"
RestoreExisting(a, s) ==
    LET was == phase[a].status
        new == IF s = "closed" \/ (was = "closed" /\ ~Reopens(a, s))
               THEN ClosedPhase ELSE Idle(Normalized(s), NoTurn)
    IN  /\ Free /\ ~closed /\ a \in agents
        /\ s = "suspended" => a \in durable
        /\ was \notin {"running", "pending"}
        /\ cancel' = cancel \ {a}
        /\ live' = Released(a)
        /\ phase' = [phase EXCEPT ![a] = new]
        /\ paths' = [paths EXCEPT ![path[a]] = a]
        /\ sup' = [sup EXCEPT ![a] = IF Reopens(a, s) THEN "await" ELSE @]
        /\ UNCHANGED <<used, agents, parent, depth, path, prep, mailVars,
                       outcome, limitVars, suspVars, lockVars>>

\* restoreMissing: an id read back from disk, with the identity stored there. A
\* child stored as closed gets no supervisor, so its admission is rolled back
\* before the lock is released: nothing is left of it.
RestoreMissing(a, p, pth, d, s) ==
    /\ Free /\ ~closed /\ s # "closed"
    /\ a \notin agents /\ a \notin prep
    /\ a \in durable => s = "suspended"
    /\ paths[pth] \in {a, NoOwner}
    /\ used' = used \cup {a}
    /\ agents' = agents \cup {a}
    /\ parent' = [parent EXCEPT ![a] = p]
    /\ depth' = [depth EXCEPT ![a] = d]
    /\ path' = [path EXCEPT ![a] = pth]
    /\ paths' = IF pth = RootPath THEN paths ELSE [paths EXCEPT ![pth] = a]
    /\ phase' = [phase EXCEPT ![a] = Idle(Normalized(s), NoTurn)]
    /\ mailbox' = [mailbox EXCEPT ![a] = <<>>]
    /\ cancel' = cancel \ {a}
    /\ sup' = [sup EXCEPT ![a] = "await"]
    /\ durable' = IF s = "suspended" THEN durable \cup {a} ELSE durable
    /\ UNCHANGED <<prep, steerOn, steered, outcome, live, limitVars, suspensions, lockVars>>

-----------------------------------------------------------------------------
Supervise(a) ==
    \/ TakeStartedWork(a) \/ ResetCancel(a)
    \/ RunReturns(a) \/ RunCancelled(a)
    \/ CommitSuspension(a) \/ ResolveStatus(a)
    \/ NextStep(a) \/ Publish(a) \/ Finish(a)

Starting(a) == StartSupervisor(a) \/ RollbackAdmission(a) \/ SpawnerKilled(a)

Steer(a) == SteerAcquire(a) \/ SteerCommit(a) \/ SteerRelease(a)

Messages(a) ==
    \/ \E t \in TurnOpt : \/ QueueMessage(a, t)
                          \/ \E i \in BOOLEAN : SendInput(a, t, i)
    \/ SendQueue(a) \/ SendRestart(a)

Suspending(a) ==
    \/ RequestSuspension(a) \/ SendResume(a) \/ ResumeDueRecord(a) \/ ResumeSchedule(a)

Interrupts(a) ==
    \/ InterruptSubagent(a) \/ CancelSuspension(a) \/ InterruptOne(a)
    \/ InterruptForTurn(a) \/ InterruptRecord(a)
    \/ RequestCancel(a) \/ SlotReleased(a)

Shutdown(a) ==
    CloseSubagent(a) \/ ShutdownCancel(a) \/ ShutdownClose(a) \/ ShutdownStop(a)

Restore(a) ==
    \E s \in Restorable :
        \/ RestoreExisting(a, s)
        \/ \E p \in Agents \cup {Root}, pth \in Paths, d \in 1..MaxDepth :
                p # a /\ RestoreMissing(a, p, pth, d, s)

Spawning(a) ==
    \E p \in Agents \cup {Root}, t \in TurnOpt, pth \in Paths : Spawn(a, p, t, pth)

\* What a session does to the children it started itself.
Session ==
    \/ \E a \in Agents :
        \/ Spawning(a) \/ Starting(a) \/ Supervise(a) \/ Steer(a)
        \/ Messages(a) \/ Suspending(a) \/ Interrupts(a) \/ Shutdown(a)
        \/ StopRecord(a)
    \/ ResumeDue \/ InterruptActive \/ InterruptDone
    \/ \E t \in Turns : AbortRootTurn(t)
    \/ \E k \in {"closeAll", "reset"} : CloseRegistry(k)
    \/ CloseDone \/ ResetDone \/ StopRegistry \/ StopDone
    \/ \E n \in Limits : SetMaxConcurrent(n)

SessionSpec == Init /\ [][Session]_vars

\* A host may also read children back from disk.
Next == Session \/ \E a \in Agents : Restore(a)

Spec == Init /\ [][Next]_vars

-----------------------------------------------------------------------------
(* Properties                                                              *)

\* Every variable keeps its type.
TypeOK ==
    /\ used \subseteq Agents /\ agents \subseteq used /\ prep \subseteq used
    /\ parent \in [Agents -> Agents \cup {Root}]
    /\ depth \in [Agents -> Nat] /\ path \in [Agents -> Paths]
    /\ paths \in [Paths -> Agents \cup {NoOwner}]
    /\ phase \in [Agents -> Phases]
    /\ mailbox \in [Agents -> Seq(Work)]
    /\ steerOn \subseteq Agents /\ steered \in [Agents -> Seq(Work)]
    /\ cancel \subseteq Agents
    /\ sup \in [Agents -> Points] /\ outcome \in [Agents -> Outcomes]
    /\ live \in Nat /\ limit \in Nat
    /\ spawned \in [Turns -> Nat] /\ aborted \subseteq Turns
    /\ closed \in BOOLEAN /\ stopped \in BOOLEAN
    /\ suspensions \subseteq Agents /\ durable \subseteq Agents
    /\ op \in Op /\ stage \in [Agents -> Stages] /\ claims \subseteq Agents

\* registryLiveCount is the number of children whose phase owns a slot, in
\* every interleaving of admission, rollback, supervisors, interruption,
\* closure and restoration (Types.hs: "Pending, running, and interrupting
\* phases each own one active-turn slot"). stopSubagentRegistry zeroes the
\* count of a registry that is never used again.
SlotAccounting == stopped \/ live = Cardinality(Holding)

\* What keeps the count right. A record outside the map is closed. A reset has
\* closed every record it is done with, so the zero it writes at the end is the
\* count. A registry that was stopped is closed, and interruptActiveSubagents
\* does not reopen it, so no slot is taken on a count that was zeroed.
SlotInvariant ==
    /\ SlotAccounting
    /\ \A a \in Agents \ agents : phase[a].tag = "closed"
    /\ op.kind = "reset" =>
         \A a \in agents : stage[a] \in {"todo", "ready"} \/ phase[a].tag = "closed"
    /\ stopped \/ op.kind = "stop" => closed
    /\ op.kind = "interruptAll" /\ stopped => op.flag

\* The registry implements the slot pool: whatever operation moves a child,
\* active turns only grow while a slot is free.
Pool == INSTANCE SlotPool WITH active <- Holding
SlotPoolImplemented == Pool!Spec

\* A registered child owns its task path alone; only the root path, given to
\* children restored from files without one, is shared. No path leads to a
\* child that is gone.
PathOwnership ==
    /\ \A a \in agents : path[a] # RootPath => paths[path[a]] = a
    /\ \A p \in Paths : paths[p] # NoOwner => paths[p] \in agents /\ path[paths[p]] = p

\* No slot leaks: a child that holds one is still being prepared, or has a
\* supervisor that is in a turn or about to take the pending work.
SlotsAreDriven ==
    \A a \in Holding :
        \/ stopped \/ op.kind = "stop"
        \/ a \in prep
        \/ phase[a].tag = "pending" /\ sup[a] = "await"
        \/ phase[a].tag \in {"running", "interrupting"} /\ sup[a] \notin Dead \cup {"await"}

\* A child that has had no children of its own.
Childless(a) == \A c \in used : parent[c] # a

\* From the transaction in which abortRootTurn marks a turn, no mailbox of a
\* child without children holds work of it, whatever storage does: later messages
\* are refused, and a turn that ends gives none of it back (discardQueuedWork in
\* Operations, release in Steering). publishCompletionSTM does not look at the
\* aborted turns, so a parent may be sent a completion of the turn.
AbortDiscardsMail ==
    \A a \in agents : Childless(a) =>
        \A i \in 1..Len(mailbox[a]) : mailbox[a][i].turn \notin aborted

\* After abortRootTurn(t) returned, a child without children holds no slot for t
\* and has no mail of t (docs AgentLifecycle: "Aborting a root turn also
\* interrupts pending or running child work owned by that turn and discards its
\* queued work"). What is left of t is work that the running turn of another
\* owner has taken into its own input queue, which the abort does not look at.
AbortedTurnSettled ==
    \A t \in aborted :
        \/ op.kind = "abort" /\ op.turn = t
        \/ \A a \in agents : Childless(a) =>
             /\ HoldsSlot(phase[a]) => phase[a].turn # t
             /\ \A i \in 1..Len(mailbox[a]) : mailbox[a][i].turn # t
             /\ \A i \in 1..Len(steered[a]) :
                  steered[a][i].turn = t => sup[a] = "run" /\ phase[a].turn # t

\* A closed child stays closed until it is restored, with no thread, no mail
\* and no steering, whoever was talking to it when it was closed.
ClosedIsInert ==
    \A a \in agents :
        Free /\ phase[a].tag = "closed" =>
            sup[a] = "none" /\ mailbox[a] = <<>> /\ a \notin steerOn

\* Children are closed before their parents: at no moment of a shutdown, nor
\* after it, does an open child have a closed parent.
ClosedFromTheLeaves ==
    \A a \in agents :
        parent[a] \in agents /\ phase[parent[a]].tag = "closed"
            => phase[a].tag = "closed"

\* A child that sleeps in memory sleeps in storage: whatever woke it, closed it or
\* interrupted its sleep has ended both, so the next tick revives no child whose
\* suspension was cancelled (SuspensionSpec: "cancels a suspended deadline rather
\* than reviving it on the next tick").
SleepIsDurable ==
    \A a \in agents : Free /\ phase[a] = Idle("suspended", NoTurn) => a \in durable

\* An accepted follow-up does not stay behind at an idle child: it starts a
\* turn, or the turn in progress leads to it.
FollowUpsRun ==
    \A a \in agents :
        Free /\ sup[a] = "await" /\ phase[a].tag = "idle" /\ phase[a].status # "suspended"
            => \A i \in 1..Len(mailbox[a]) : mailbox[a][i].kind # "followup"

=============================================================================
