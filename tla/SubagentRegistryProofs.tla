---------------------- MODULE SubagentRegistryProofs ----------------------
(***************************************************************************)
(* Theorems about the subagent registry, for any number of children and    *)
(* turns: its types, the slot count and the refinement of the slot pool,   *)
(* the ownership of paths, that every slot is driven, the order of closing,*)
(* that closed children are inert, that an aborted turn is settled, and    *)
(* that sleepers sleep in storage.                                         *)
(***************************************************************************)
EXTENDS MCSubagentRegistry, SetInduction, SequenceTheorems, FiniteSetTheorems, TLAPS

-----------------------------------------------------------------------------
(* The filter that discards queued work                                    *)

\* Discarding work leaves a sequence of the works that were there.
LEMMA WithoutType ==
    ASSUME NEW S, NEW s \in Seq(S), NEW T
    PROVE  Without(s, T) \in Seq(S)
<1> DEFINE kept == {i \in 1..Len(s) : s[i].turn \notin T}
           nth(j) == CHOOSE i \in kept : Cardinality({k \in kept : k <= i}) = j
<1>1. Len(s) \in Nat /\ \A i \in 1..Len(s) : s[i] \in S
  BY LenProperties, ElementOfSeq
<1>2. IsFiniteSet(1..Len(s)) /\ kept \subseteq 1..Len(s)
  BY <1>1, FS_Interval
<1>3. Cardinality(kept) \in Nat
  BY <1>2, FS_Subset, FS_CardinalityType
<1>4. \A j \in 1..Cardinality(kept) : nth(j) \in kept
  <2> SUFFICES ASSUME NEW j \in 1..Cardinality(kept) PROVE nth(j) \in kept
    OBVIOUS
  <2>1. \E i \in kept : Cardinality({k \in kept : k <= i}) = j
    <3> HIDE DEF kept
    <3> QED BY <1>1, <1>2, NthExists, ZenonT(60)
  <2> QED
    BY <2>1
<1>5. Without(s, T) = [j \in 1..Cardinality(kept) |-> s[nth(j)]]
  BY DEF Without
<1>6. \A j \in 1..Cardinality(kept) : s[nth(j)] \in S
  BY <1>1, <1>2, <1>4
<1> HIDE DEF kept, nth
<1> QED
  BY <1>3, <1>5, <1>6, IsASeq

-----------------------------------------------------------------------------
(* Types of the pieces actions are built from                              *)

\* The phases the code constructs are phases.
LEMMA PhaseTypes ==
    ASSUME NEW s \in Statuses, NEW t \in TurnOpt
    PROVE  /\ Idle(s, t) \in Phases /\ Pending(t) \in Phases
           /\ Running(t) \in Phases /\ Interrupting(t) \in Phases
           /\ ClosedPhase \in Phases
BY DEF Phases, Idle, Pending, Running, Interrupting, ClosedPhase, Tags, Statuses, TurnOpt

\* releaseSlotSTM leaves a natural number: the count is not taken below zero.
LEMMA ReleasedType ==
    ASSUME TypeOK, NEW a \in Agents
    PROVE  Released(a) \in Nat
BY DEF TypeOK, Released

\* An operation's lock, moves and unlock keep the lock's variables typed.
LockTypeOK == op \in Op /\ stage \in [Agents -> Stages] /\ claims \subseteq Agents

\* Taking the lifecycle lock for an operation.
LEMMA LockType ==
    ASSUME TypeOK, NEW k \in OpKinds, NEW t \in TurnOpt, NEW s \in Statuses,
           NEW f \in BOOLEAN, NEW S, NEW first \in Stages,
           Lock(Call(k, t, s, f), S, first)
    PROVE  LockTypeOK'
BY DEF TypeOK, LockTypeOK, Lock, Call, Op, Stages

\* An operation gets to the next stage with one record.
LEMMA MoveType ==
    ASSUME TypeOK, NEW a \in Agents, NEW to \in Stages, Move(a, to)
    PROVE  LockTypeOK'
BY DEF TypeOK, LockTypeOK, Move

\* Giving the lifecycle lock back.
LEMMA UnlockType ==
    ASSUME Unlock
    PROVE  LockTypeOK'
BY DEF LockTypeOK, Unlock, NoOp, NoStage, Op, OpKinds, TurnOpt, Statuses, Stages

\* Work is queued in the mailbox or handed to the steered turn.
MailTypeOK ==
    /\ mailbox \in [Agents -> Seq(Work)] /\ steerOn \subseteq Agents
    /\ steered \in [Agents -> Seq(Work)]

\* enqueueSubagentWorkSTM keeps both queues of a child typed.
LEMMA EnqueueType ==
    ASSUME TypeOK, NEW a \in Agents, NEW w \in Work, Enqueue(a, w), UNCHANGED steerOn
    PROVE  MailTypeOK'
<1> USE DEF TypeOK, MailTypeOK
<1>1. CASE UNCHANGED mailbox /\ steered' = [steered EXCEPT ![a] = Append(@, w)]
  <2>1. Append(steered[a], w) \in Seq(Work)
    BY AppendProperties
  <2> QED
    BY <1>1, <2>1
<1>2. CASE UNCHANGED steered /\ mailbox' = [mailbox EXCEPT ![a] = Append(@, w)]
  <2>1. Append(mailbox[a], w) \in Seq(Work)
    BY AppendProperties
  <2> QED
    BY <1>2, <2>1
<1> QED
  BY <1>1, <1>2 DEF Enqueue

\* The finaliser of a steered turn returns works to the mailbox.
LEMMA SteeringEndedType ==
    ASSUME TypeOK, NEW a \in Agents, SteeringEnded(a)
    PROVE  MailTypeOK'
<1>1. Retained(a) \in Seq(Work)
  BY WithoutType DEF TypeOK, Retained
<1>2. Retained(a) \o mailbox[a] \in Seq(Work)
  BY <1>1, ConcatProperties DEF TypeOK
<1>3. mailbox' \in [Agents -> Seq(Work)]
  BY <1>2 DEF TypeOK, SteeringEnded
<1>4. steered' \in [Agents -> Seq(Work)]
  BY EmptySeq DEF TypeOK, SteeringEnded
<1> QED
  BY <1>3, <1>4 DEF TypeOK, SteeringEnded, MailTypeOK

\* The first work of a mailbox, and what is left of it.
LEMMA HeadTailType ==
    ASSUME TypeOK, NEW a \in Agents, mailbox[a] # <<>>
    PROVE  /\ Head(mailbox[a]).turn \in TurnOpt
           /\ [mailbox EXCEPT ![a] = Tail(@)] \in [Agents -> Seq(Work)]
<1>1. mailbox[a] \in Seq(Work)
  BY DEF TypeOK
<1>2. Head(mailbox[a]) \in Work /\ Tail(mailbox[a]) \in Seq(Work)
  BY <1>1, HeadTailProperties
<1> QED
  BY <1>2 DEF TypeOK, Work

-----------------------------------------------------------------------------
(* Type correctness                                                        *)

\* Everything but the mail and the lock, which have lemmas of their own.
RestTypeOK ==
    /\ used \subseteq Agents /\ agents \subseteq used /\ prep \subseteq used
    /\ parent \in [Agents -> Agents \cup {Root}]
    /\ depth \in [Agents -> Nat] /\ path \in [Agents -> Paths]
    /\ paths \in [Paths -> Agents \cup {NoOwner}]
    /\ phase \in [Agents -> Phases]
    /\ cancel \subseteq Agents
    /\ sup \in [Agents -> Points] /\ outcome \in [Agents -> Outcomes]
    /\ live \in Nat /\ limit \in Nat
    /\ spawned \in [Turns -> Nat] /\ aborted \subseteq Turns
    /\ closed \in BOOLEAN /\ stopped \in BOOLEAN
    /\ suspensions \subseteq Agents /\ durable \subseteq Agents

\* A supervisor that settles a turn has the turn's result.
Settling == {"commit", "resolve", "step", "publish", "finish"}
ResultKnown == \A a \in Agents : sup[a] \in Settling => outcome[a] # "none"

\* The type invariant by groups of variables,
LEMMA TypeParts == TypeOK <=> RestTypeOK /\ MailTypeOK /\ LockTypeOK
BY DEF TypeOK, RestTypeOK, MailTypeOK, LockTypeOK

\* and the same for the next state.
LEMMA TypePartsNext == RestTypeOK' /\ MailTypeOK' /\ LockTypeOK' => TypeOK'
BY DEF TypeOK, RestTypeOK, MailTypeOK, LockTypeOK

\* What a step leaves alone stays typed.
LEMMA Unchanged ==
    ASSUME TypeOK
    PROVE  /\ UNCHANGED mailVars => MailTypeOK'
           /\ UNCHANGED lockVars => LockTypeOK'
BY DEF TypeOK, MailTypeOK, LockTypeOK, mailVars, lockVars

\* The initial state is typed.
LEMMA InitType == Init => TypeOK
<1> SUFFICES ASSUME Init PROVE TypeOK
  OBVIOUS
<1>1. ClosedPhase \in Phases
  BY DEF ClosedPhase, Phases, Tags, Statuses, TurnOpt
<1>2. NoOp \in Op
  BY DEF NoOp, Op, OpKinds, TurnOpt, Statuses
<1> QED
  BY <1>1, <1>2, ConstantsAssumption, EmptySeq
  DEF Init, TypeOK, NoStage, Points, Outcomes, Stages

\* Admission and start.
LEMMA SpawningType ==
    ASSUME TypeOK, NEW a \in Agents, Spawning(a) \/ Starting(a)
    PROVE  TypeOK'
<1>1. ASSUME NEW p \in Agents \cup {Root}, NEW t \in TurnOpt, NEW pth \in Paths,
             Spawn(a, p, t, pth)
      PROVE  TypeOK'
  <2>1. Pending(t) \in Phases
    BY DEF Phases, Pending, Tags, Statuses
  <2>2. RestTypeOK'
    BY <1>1, <2>1 DEF TypeOK, RestTypeOK, Spawn, ChildDepth, limitVars, supVars, suspVars
  <2> QED
    BY <1>1, <2>2, Unchanged, TypePartsNext DEF Spawn
<1>2. CASE StartSupervisor(a)
  <2>1. RestTypeOK'
    BY <1>2 DEF TypeOK, RestTypeOK, StartSupervisor, identVars, limitVars, suspVars, Points
  <2> QED
    BY <1>2, <2>1, Unchanged, TypePartsNext DEF StartSupervisor
<1>3. CASE RollbackAdmission(a)
  <2>1. ClosedPhase \in Phases
    BY DEF Phases, ClosedPhase, Tags, Statuses, TurnOpt
  <2>2. RestTypeOK'
    BY <1>3, <2>1, ReleasedType
    DEF TypeOK, RestTypeOK, RollbackAdmission, Killed, limitVars, suspVars, Points, Outcomes
  <2>3. MailTypeOK'
    BY <1>3, EmptySeq DEF TypeOK, MailTypeOK, RollbackAdmission
  <2> QED
    BY <1>3, <2>2, <2>3, Unchanged, TypePartsNext DEF RollbackAdmission
<1>4. CASE SpawnerKilled(a)
  <2>1. ClosedPhase \in Phases
    BY DEF Phases, ClosedPhase, Tags, Statuses, TurnOpt
  <2>2. RestTypeOK'
    BY <1>4, <2>1, ReleasedType
    DEF TypeOK, RestTypeOK, SpawnerKilled, identVars, supVars, limitVars
  <2>3. MailTypeOK'
    BY <1>4, EmptySeq DEF TypeOK, MailTypeOK, SpawnerKilled
  <2> QED
    BY <1>4, <2>2, <2>3, Unchanged, TypePartsNext DEF SpawnerKilled
<1> QED
  BY <1>1, <1>2, <1>3, <1>4 DEF Spawning, Starting

\* The supervisor: the part of its step that is shared by NextStep and Finish.
StepTypeOK ==
    /\ sup \in [Agents -> Points] /\ live \in Nat /\ phase \in [Agents -> Phases]
    /\ suspensions \subseteq Agents /\ mailbox \in [Agents -> Seq(Work)]

\* transitionToIdleSTM writes a phase, a count and a set of markers.
LEMMA ToIdleType ==
    ASSUME TypeOK, NEW a \in Agents, NEW s \in Statuses, ToIdle(a, s)
    PROVE  live' \in Nat /\ phase' \in [Agents -> Phases] /\ suspensions' \subseteq Agents
<1>1. Idle(s, NoTurn) \in Phases
  BY PhaseTypes DEF TurnOpt
<1> QED
  BY <1>1, ReleasedType DEF TypeOK, ToIdle

\* Settling a turn (supervisorStep), in either of its uses, keeps types.
LEMMA SupervisorStepType ==
    ASSUME TypeOK, NEW a \in Agents, NEW s \in Statuses,
           \/ SupervisorStep(a, Complete(a))
           \/ SupervisorStep(a, ToIdle(a, s) /\ GoTo(a, "await") /\ UNCHANGED mailbox)
    PROVE  StepTypeOK'
<1>1. CASE Complete(a)
  BY <1>1 DEF TypeOK, StepTypeOK, Complete, GoTo, Points
<1>2. ASSUME NEW u \in Statuses, ToIdle(a, u), GoTo(a, "await"), UNCHANGED mailbox
      PROVE  StepTypeOK'
  BY <1>2, ToIdleType DEF TypeOK, StepTypeOK, GoTo, Points
<1>3. CASE /\ mailbox[a] # <<>>
           /\ phase' = [phase EXCEPT ![a] = Running(Head(mailbox[a]).turn)]
           /\ mailbox' = [mailbox EXCEPT ![a] = Tail(@)]
           /\ GoTo(a, "reset")
           /\ UNCHANGED <<live, suspensions>>
  <2>1. Running(Head(mailbox[a]).turn) \in Phases
    BY <1>3, HeadTailType DEF Phases, Running, Tags, Statuses
  <2> QED
    BY <1>3, <2>1, HeadTailType DEF TypeOK, StepTypeOK, GoTo, Points
<1>4. ASSUME NEW q \in {"exited", "await"}, GoTo(a, q),
             UNCHANGED <<live, phase, suspensions, mailbox>>
      PROVE  StepTypeOK'
  BY <1>4 DEF TypeOK, StepTypeOK, GoTo, Points
<1>5. "interrupted" \in Statuses
  BY DEF Statuses
<1> QED
  BY <1>1, <1>2, <1>3, <1>4, <1>5 DEF SupervisorStep

\* The supervisor thread, given that a settled turn has a result.
LEMMA SuperviseType ==
    ASSUME TypeOK, ResultKnown, NEW a \in Agents, Supervise(a)
    PROVE  TypeOK'
<1> USE DEF TypeOK, RestTypeOK, identVars, supVars, limitVars, suspVars, GoTo
<1>1. CASE TakeStartedWork(a)
  <2>1. Running(phase[a].turn) \in Phases
    BY DEF Phases, Running, Tags, Statuses
  <2>2. RestTypeOK'
    BY <1>1, <2>1, ZenonT(60) DEF TakeStartedWork, Points
  <2> QED
    BY <1>1, <2>2, Unchanged, TypePartsNext DEF TakeStartedWork
<1>2. CASE ResetCancel(a)
  <2>1. RestTypeOK'
    BY <1>2 DEF ResetCancel, Points
  <2> QED
    BY <1>2, <2>1, Unchanged, TypePartsNext DEF ResetCancel
<1>3. CASE RunReturns(a)
  <2>1. RestTypeOK'
    BY <1>3, ZenonT(60) DEF RunReturns, Points, Outcomes
  <2> QED
    BY <1>3, <2>1, Unchanged, TypePartsNext DEF RunReturns
<1>4. CASE RunCancelled(a)
  <2>1. RestTypeOK'
    BY <1>4 DEF RunCancelled, Points, Outcomes
  <2> QED
    BY <1>4, <2>1, Unchanged, TypePartsNext DEF RunCancelled
<1>5. CASE CommitSuspension(a)
  <2>1. RestTypeOK'
    BY <1>5 DEF CommitSuspension, Points, Outcomes
  <2> QED
    BY <1>5, <2>1, Unchanged, TypePartsNext DEF CommitSuspension
<1>6. CASE ResolveStatus(a)
  <2>1. RestTypeOK'
    BY <1>6 DEF ResolveStatus, Points, Outcomes
  <2> QED
    BY <1>6, <2>1, Unchanged, TypePartsNext DEF ResolveStatus
<1>7. CASE NextStep(a)
  <2>1. StepTypeOK'
    <3>1. CASE Complete(a)
      BY <3>1 DEF StepTypeOK, Complete, Points
    <3>2. CASE SupervisorStep(a, Complete(a))
      <4> "closed" \in Statuses
        BY DEF Statuses
      <4> QED
        BY <3>2, SupervisorStepType
    <3> QED
      BY <1>7, <3>1, <3>2 DEF NextStep
  <2>2. RestTypeOK' /\ MailTypeOK'
    BY <1>7, <2>1 DEF NextStep, StepTypeOK, MailTypeOK, Outcomes
  <2> QED
    BY <1>7, <2>2, Unchanged, TypePartsNext DEF NextStep
<1>8. CASE Publish(a)
  <2>1. RestTypeOK'
    BY <1>8 DEF Publish, Points
  <2>2. MailTypeOK'
    <3>1. CASE UNCHANGED <<mailbox, steered>>
      BY <1>8, <3>1 DEF Publish, MailTypeOK
    <3>2. CASE /\ parent[a] \in agents
               /\ Enqueue(parent[a], [turn |-> phase[a].turn, kind |-> "queued"])
      <4>1. [turn |-> phase[a].turn, kind |-> "queued"] \in Work
        BY DEF Work, Kinds, Phases
      <4>2. parent[a] \in Agents /\ UNCHANGED steerOn
        BY <1>8, <3>2 DEF Publish
      <4> QED
        BY <3>2, <4>1, <4>2, EnqueueType
    <3> QED
      BY <1>8, <3>1, <3>2 DEF Publish
  <2> QED
    BY <1>8, <2>1, <2>2, Unchanged, TypePartsNext DEF Publish
<1>9. CASE Finish(a)
  <2>1. outcome[a] \in Statuses /\ "suspended" \in Statuses
    BY <1>9 DEF Finish, At, ResultKnown, Settling, Outcomes, Statuses
  <2>2. StepTypeOK'
    <3>1. CASE ToIdle(a, "suspended") /\ GoTo(a, "await") /\ UNCHANGED mailbox
      BY <2>1, <3>1, ToIdleType DEF StepTypeOK, Points
    <3>2. CASE SupervisorStep(a, ToIdle(a, outcome[a]) /\ GoTo(a, "await") /\ UNCHANGED mailbox)
      BY <2>1, <3>2, SupervisorStepType
    <3> QED
      BY <1>9, <3>1, <3>2 DEF Finish
  <2>3. RestTypeOK' /\ MailTypeOK'
    BY <1>9, <2>2 DEF Finish, StepTypeOK, MailTypeOK, Outcomes
  <2> QED
    BY <1>9, <2>3, Unchanged, TypePartsNext DEF Finish
<1> QED
  BY <1>1, <1>2, <1>3, <1>4, <1>5, <1>6, <1>7, <1>8, <1>9 DEF Supervise

\* What a running turn does, and messages.
LEMMA SteerType ==
    ASSUME TypeOK, NEW a \in Agents, Steer(a)
    PROVE  TypeOK'
<1> USE DEF TypeOK, RestTypeOK, identVars, supVars, limitVars, suspVars
<1>1. CASE SteerAcquire(a)
  <2>1. RestTypeOK'
    BY <1>1 DEF SteerAcquire
  <2>2. MailTypeOK'
    <3>1. PICK k \in 0..Len(mailbox[a]) :
            /\ steered' = [steered EXCEPT ![a] = SubSeq(mailbox[a], 1, k)]
            /\ mailbox' = [mailbox EXCEPT ![a] = SubSeq(@, k + 1, Len(@))]
      BY <1>1 DEF SteerAcquire
    <3>2. mailbox[a] \in Seq(Work)
      OBVIOUS
    <3>3. /\ SubSeq(mailbox[a], 1, k) \in Seq(Work)
          /\ SubSeq(mailbox[a], k + 1, Len(mailbox[a])) \in Seq(Work)
      BY <3>2, SubSeqProperties, LenProperties
    <3> QED
      BY <1>1, <3>1, <3>3 DEF SteerAcquire, MailTypeOK
  <2> QED
    BY <1>1, <2>1, <2>2, Unchanged, TypePartsNext DEF SteerAcquire
<1>2. CASE SteerCommit(a)
  <2>1. RestTypeOK'
    BY <1>2 DEF SteerCommit
  <2>2. MailTypeOK'
    <3>1. PICK k \in 1..Len(steered[a]) :
            steered' = [steered EXCEPT ![a] = SubSeq(@, k + 1, Len(@))]
      BY <1>2 DEF SteerCommit
    <3>2. steered[a] \in Seq(Work)
      OBVIOUS
    <3>3. SubSeq(steered[a], k + 1, Len(steered[a])) \in Seq(Work)
      BY <3>2, SubSeqProperties, LenProperties
    <3> QED
      BY <1>2, <3>1, <3>3 DEF SteerCommit, MailTypeOK
  <2> QED
    BY <1>2, <2>1, <2>2, Unchanged, TypePartsNext DEF SteerCommit
<1>3. CASE SteerRelease(a)
  <2>1. RestTypeOK'
    BY <1>3 DEF SteerRelease
  <2> QED
    BY <1>3, <2>1, Unchanged, SteeringEndedType, TypePartsNext DEF SteerRelease
<1> QED
  BY <1>1, <1>2, <1>3 DEF Steer

\* scheduleIdleWork writes a phase and a count.
LEMMA ScheduleType ==
    ASSUME TypeOK, NEW a \in Agents, NEW t \in TurnOpt,
           Schedule(a, t) \/ UNCHANGED <<phase, live>>
    PROVE  phase' \in [Agents -> Phases] /\ live' \in Nat
<1>1. Pending(t) \in Phases
  BY DEF Phases, Pending, Tags, Statuses
<1>2. CASE Schedule(a, t)
  <2>1. phase \in [Agents -> Phases] /\ live \in Nat
    BY DEF TypeOK
  <2>2. phase' = [phase EXCEPT ![a] = Pending(t)] /\ live' = live + 1
    BY <1>2 DEF Schedule
  <2> QED
    BY <1>1, <2>1, <2>2
<1>3. CASE UNCHANGED <<phase, live>>
  BY <1>3 DEF TypeOK
<1> QED
  BY <1>2, <1>3

\* Sending input and queueing messages.
LEMMA MessagesType ==
    ASSUME TypeOK, NEW a \in Agents, Messages(a)
    PROVE  TypeOK'
<1> USE DEF TypeOK, RestTypeOK, identVars, supVars, limitVars, suspVars
<1>1. ASSUME NEW t \in TurnOpt, QueueMessage(a, t)
      PROVE  TypeOK'
  <2>1. RestTypeOK'
    BY <1>1 DEF QueueMessage
  <2>2. [turn |-> t, kind |-> "queued"] \in Work
    BY DEF Work, Kinds
  <2>3. MailTypeOK'
    BY <1>1, <2>2, EnqueueType DEF QueueMessage
  <2> QED
    BY <1>1, <2>1, <2>3, Unchanged, TypePartsNext DEF QueueMessage
<1>2. ASSUME NEW t \in TurnOpt, NEW i \in BOOLEAN, SendInput(a, t, i)
      PROVE  TypeOK'
  <2>1. RestTypeOK'
    BY <1>2 DEF SendInput
  <2>2. phase[a].status \in Statuses /\ "send" \in OpKinds /\ "todo" \in Stages
    BY DEF Phases, OpKinds, Stages
  <2>3. LockTypeOK'
    BY <1>2, <2>2, LockType DEF SendInput
  <2> QED
    BY <1>2, <2>1, <2>3, Unchanged, TypePartsNext DEF SendInput
<1>3. CASE SendQueue(a)
  <2>1. RestTypeOK'
    BY <1>3 DEF SendQueue
  <2>2. [turn |-> op.turn, kind |-> "followup"] \in Work
    BY DEF Work, Kinds, Op
  <2>3. MailTypeOK'
    BY <1>3, <2>2, EnqueueType DEF SendQueue, MailTypeOK
  <2>4. "cancelling" \in Stages
    BY DEF Stages
  <2>5. LockTypeOK'
    BY <1>3, <2>4, MoveType, UnlockType DEF SendQueue
  <2> QED
    BY <2>1, <2>3, <2>5, TypePartsNext
<1>4. CASE SendRestart(a)
  <2>1. op.turn \in TurnOpt
    BY DEF Op
  <2>2. RestTypeOK'
    BY <1>4, <2>1, ScheduleType DEF SendRestart
  <2> QED
    BY <1>4, <2>2, Unchanged, UnlockType, TypePartsNext DEF SendRestart
<1> QED
  BY <1>1, <1>2, <1>3, <1>4 DEF Messages

\* Suspending and resuming.
LEMMA SuspendingType ==
    ASSUME TypeOK, NEW a \in Agents, Suspending(a)
    PROVE  TypeOK'
<1> USE DEF TypeOK, RestTypeOK, identVars, supVars, limitVars, suspVars
<1>1. CASE RequestSuspension(a)
  <2>1. RestTypeOK'
    BY <1>1 DEF RequestSuspension
  <2> QED
    BY <1>1, <2>1, Unchanged, TypePartsNext DEF RequestSuspension
<1>a. "ready" \in Stages /\ "none" \in Stages
  BY DEF Stages
<1>2. CASE SendResume(a)
  <2>1. RestTypeOK'
    BY <1>2 DEF SendResume, PersistResume, ResumeRefused
  <2>2. LockTypeOK'
    BY <1>2, <1>a, MoveType, UnlockType DEF SendResume
  <2> QED
    BY <1>2, <2>1, <2>2, Unchanged, TypePartsNext DEF SendResume
<1>3. CASE ResumeDueRecord(a)
  <2>1. RestTypeOK'
    BY <1>3 DEF ResumeDueRecord, PersistResume, ResumeRefused
  <2>2. LockTypeOK'
    BY <1>3, <1>a, MoveType DEF ResumeDueRecord
  <2> QED
    BY <1>3, <2>1, <2>2, Unchanged, TypePartsNext DEF ResumeDueRecord
<1>4. CASE ResumeSchedule(a)
  <2>1. DueTurn(a) \in TurnOpt /\ op.turn \in TurnOpt
    BY HeadTailType DEF DueTurn, Op, TurnOpt
  <2>2. (IF op.kind = "send" THEN op.turn ELSE DueTurn(a)) \in TurnOpt
    BY <2>1
  <2>3. phase' \in [Agents -> Phases] /\ live' \in Nat
    BY <1>4, <2>2, ScheduleType DEF ResumeSchedule
  <2>4. mailbox' \in [Agents -> Seq(Work)]
    BY <1>4, HeadTailType DEF ResumeSchedule
  <2>5. RestTypeOK' /\ MailTypeOK'
    BY <1>4, <2>3, <2>4 DEF ResumeSchedule, MailTypeOK
  <2>6. LockTypeOK'
    BY <1>4, <1>a, MoveType DEF ResumeSchedule
  <2> QED
    BY <2>5, <2>6, TypePartsNext
<1> QED
  BY <1>1, <1>2, <1>3, <1>4 DEF Suspending

\* Interruption.
LEMMA InterruptsType ==
    ASSUME TypeOK, NEW a \in Agents, Interrupts(a)
    PROVE  TypeOK'
<1> USE DEF TypeOK, RestTypeOK, identVars, supVars, limitVars, suspVars
<1>a. /\ "ready" \in Stages /\ "none" \in Stages /\ "cancelling" \in Stages
      /\ "waiting" \in Stages /\ "todo" \in Stages
  BY DEF Stages
<1>b. /\ "interrupt" \in OpKinds /\ "closed" \in Statuses /\ "interrupted" \in Statuses
      /\ NoTurn \in TurnOpt
  BY DEF OpKinds, Statuses, TurnOpt
<1>c. phase[a].turn \in TurnOpt /\ op.turn \in TurnOpt
  BY DEF Phases, Op
<1>1. CASE InterruptSubagent(a)
  <2>1. RestTypeOK'
    BY <1>1 DEF InterruptSubagent
  <2>2. LockTypeOK'
    BY <1>1, <1>a, <1>b, LockType DEF InterruptSubagent
  <2> QED
    BY <1>1, <2>1, <2>2, Unchanged, TypePartsNext DEF InterruptSubagent
<1>2. CASE CancelSuspension(a)
  <2>1. RestTypeOK'
    BY <1>2 DEF CancelSuspension
  <2>2. LockTypeOK'
    BY <1>2, <1>a, MoveType, UnlockType DEF CancelSuspension
  <2> QED
    BY <1>2, <2>1, <2>2, Unchanged, TypePartsNext DEF CancelSuspension
<1>3. CASE InterruptOne(a)
  <2>1. LockTypeOK'
    BY <1>3, <1>a, MoveType DEF InterruptOne
  <2>2. Idle("interrupted", NoTurn) \in Phases /\ Idle("interrupted", phase[a].turn) \in Phases
    BY <1>b, <1>c, PhaseTypes
  <2>3. mailbox[a] # <<>> => Pending(Head(mailbox[a]).turn) \in Phases
    BY HeadTailType DEF Pending, Phases, Tags, Statuses
  <2>4. live' \in Nat
    BY <1>3, ReleasedType DEF InterruptOne
  <2>5. phase' \in [Agents -> Phases]
    BY <1>3, <2>2, <2>3 DEF InterruptOne
  <2>6. mailbox' \in [Agents -> Seq(Work)]
    BY <1>3, HeadTailType, ZenonT(60) DEF InterruptOne
  <2>7. RestTypeOK' /\ MailTypeOK'
    BY <1>3, <2>4, <2>5, <2>6 DEF InterruptOne, MailTypeOK
  <2> QED
    BY <2>1, <2>7, TypePartsNext
<1>4. CASE InterruptForTurn(a)
  <2>1. LockTypeOK'
    BY <1>4, <1>a, MoveType DEF InterruptForTurn
  <2>2. Idle("interrupted", op.turn) \in Phases /\ Interrupting(phase[a].turn) \in Phases
    BY <1>b, <1>c, PhaseTypes
  <2>3. RestTypeOK'
    BY <1>4, <2>2, ReleasedType DEF InterruptForTurn
  <2> QED
    BY <1>4, <2>1, <2>3, Unchanged, TypePartsNext DEF InterruptForTurn
<1>5. CASE InterruptRecord(a)
  <2>1. LockTypeOK'
    BY <1>5, <1>a, MoveType DEF InterruptRecord
  <2>2. Interrupting(phase[a].turn) \in Phases
    BY <1>b, <1>c, PhaseTypes
  <2>3. live' \in Nat /\ phase' \in [Agents -> Phases] /\ suspensions' \subseteq Agents
    BY <1>5, <1>b, <2>2, ToIdleType DEF InterruptRecord
  <2>4. RestTypeOK' /\ MailTypeOK'
    BY <1>5, <2>3, EmptySeq DEF InterruptRecord, MailTypeOK
  <2> QED
    BY <2>1, <2>4, TypePartsNext
<1>6. CASE RequestCancel(a)
  <2>1. RestTypeOK'
    BY <1>6 DEF RequestCancel
  <2>2. LockTypeOK'
    BY <1>6, <1>a, MoveType DEF RequestCancel
  <2> QED
    BY <1>6, <2>1, <2>2, Unchanged, TypePartsNext DEF RequestCancel
<1>7. CASE SlotReleased(a)
  <2>1. RestTypeOK'
    BY <1>7 DEF SlotReleased
  <2>2. LockTypeOK'
    BY <1>7, <1>a, MoveType DEF SlotReleased
  <2> QED
    BY <1>7, <2>1, <2>2, Unchanged, TypePartsNext DEF SlotReleased
<1> QED
  BY <1>1, <1>2, <1>3, <1>4, <1>5, <1>6, <1>7 DEF Interrupts

\* Closing, stopping and restoring.
LEMMA ShutdownType ==
    ASSUME TypeOK, NEW a \in Agents, Shutdown(a) \/ StopRecord(a)
    PROVE  TypeOK'
<1> USE DEF TypeOK, RestTypeOK, identVars, supVars, limitVars, suspVars
<1>a. "ready" \in Stages /\ "none" \in Stages /\ "waiting" \in Stages /\ "todo" \in Stages
  BY DEF Stages
<1>b. "close" \in OpKinds /\ "closed" \in Statuses /\ NoTurn \in TurnOpt
  BY DEF OpKinds, Statuses, TurnOpt
<1>1. CASE CloseSubagent(a)
  <2>1. RestTypeOK'
    BY <1>1 DEF CloseSubagent
  <2>2. LockTypeOK'
    BY <1>1, <1>a, <1>b, LockType DEF CloseSubagent
  <2> QED
    BY <1>1, <2>1, <2>2, Unchanged, TypePartsNext DEF CloseSubagent
<1>2. CASE ShutdownCancel(a)
  <2>1. RestTypeOK'
    BY <1>2 DEF ShutdownCancel
  <2>2. LockTypeOK'
    BY <1>2, <1>a DEF ShutdownCancel, LockTypeOK
  <2> QED
    BY <1>2, <2>1, <2>2, Unchanged, TypePartsNext DEF ShutdownCancel
<1>3. CASE ShutdownClose(a)
  <2>1. ClosedPhase \in Phases
    BY <1>b, PhaseTypes
  <2>2. RestTypeOK' /\ MailTypeOK'
    BY <1>3, <2>1, ReleasedType, EmptySeq DEF ShutdownClose, MailTypeOK
  <2>3. LockTypeOK'
    BY <1>3, <1>a, MoveType DEF ShutdownClose
  <2> QED
    BY <2>2, <2>3, TypePartsNext
<1>4. CASE ShutdownStop(a)
  <2>1. RestTypeOK'
    BY <1>4 DEF ShutdownStop, Killed, Points, Outcomes
  <2>2. LockTypeOK'
    BY <1>4, <1>a, MoveType, UnlockType DEF ShutdownStop
  <2> QED
    BY <1>4, <2>1, <2>2, SteeringEndedType, TypePartsNext DEF ShutdownStop
<1>5. CASE StopRecord(a)
  <2>1. RestTypeOK'
    BY <1>5 DEF StopRecord, Killed, Points, Outcomes
  <2>2. LockTypeOK'
    BY <1>5, <1>a, MoveType DEF StopRecord
  <2> QED
    BY <1>5, <2>1, <2>2, SteeringEndedType, TypePartsNext DEF StopRecord
<1> QED
  BY <1>1, <1>2, <1>3, <1>4, <1>5 DEF Shutdown

\* Restoring persisted children.
LEMMA RestoreType ==
    ASSUME TypeOK, NEW a \in Agents, Restore(a)
    PROVE  TypeOK'
<1> USE DEF TypeOK, RestTypeOK, identVars, supVars, limitVars, suspVars
<1>a. ASSUME NEW s \in Restorable
      PROVE  Idle(Normalized(s), NoTurn) \in Phases /\ ClosedPhase \in Phases
  BY PhaseTypes DEF Normalized, Restorable, Statuses, TurnOpt
<1>1. ASSUME NEW s \in Restorable, RestoreExisting(a, s)
      PROVE  TypeOK'
  <2>1. RestTypeOK'
    BY <1>a, <1>1, ReleasedType DEF RestoreExisting, Points
  <2> QED
    BY <1>1, <2>1, Unchanged, TypePartsNext DEF RestoreExisting
<1>2. ASSUME NEW s \in Restorable, NEW p \in Agents \cup {Root}, NEW pth \in Paths,
             NEW d \in 1..MaxDepth, RestoreMissing(a, p, pth, d, s)
      PROVE  TypeOK'
  <2>1. RestTypeOK'
    BY <1>a, <1>2 DEF RestoreMissing, Points
  <2>2. MailTypeOK'
    BY <1>2, EmptySeq DEF RestoreMissing, MailTypeOK
  <2> QED
    BY <1>2, <2>1, <2>2, Unchanged, TypePartsNext DEF RestoreMissing
<1> QED
  BY <1>1, <1>2 DEF Restore

\* Operations on the whole registry.
RegistryWide ==
    \/ ResumeDue \/ InterruptActive \/ InterruptDone
    \/ \E t \in Turns : AbortRootTurn(t)
    \/ \E k \in {"closeAll", "reset"} : CloseRegistry(k)
    \/ CloseDone \/ ResetDone \/ StopRegistry \/ StopDone
    \/ \E n \in Limits : SetMaxConcurrent(n)

\* The operations on the whole registry.
LEMMA RegistryWideType ==
    ASSUME TypeOK, RegistryWide
    PROVE  TypeOK'
<1> USE DEF TypeOK, RestTypeOK, identVars, supVars, limitVars, suspVars
<1>a. /\ {"resume", "interruptAll", "abort", "closeAll", "reset", "stop"} \subseteq OpKinds
      /\ "todo" \in Stages /\ "ready" \in Stages /\ "closed" \in Statuses
      /\ NoTurn \in TurnOpt /\ Turns \subseteq TurnOpt /\ op.flag \in BOOLEAN
  BY DEF OpKinds, Stages, Statuses, TurnOpt, Op
<1>1. CASE ResumeDue
  <2>1. RestTypeOK'
    BY <1>1 DEF ResumeDue
  <2>2. LockTypeOK'
    BY <1>1, <1>a, LockType DEF ResumeDue
  <2> QED
    BY <1>1, <2>1, <2>2, Unchanged, TypePartsNext DEF ResumeDue
<1>2. CASE InterruptActive
  <2>1. RestTypeOK'
    BY <1>2 DEF InterruptActive
  <2>2. LockTypeOK'
    BY <1>2, <1>a, LockType DEF InterruptActive
  <2> QED
    BY <1>2, <2>1, <2>2, Unchanged, TypePartsNext DEF InterruptActive
<1>3. CASE InterruptDone
  <2>1. RestTypeOK'
    BY <1>3, <1>a DEF InterruptDone
  <2> QED
    BY <1>3, <2>1, UnlockType, Unchanged, TypePartsNext DEF InterruptDone
<1>4. ASSUME NEW t \in Turns, AbortRootTurn(t)
      PROVE  TypeOK'
  <2>1. RestTypeOK'
    BY <1>4 DEF AbortRootTurn
  <2>2. LockTypeOK'
    BY <1>4, <1>a, LockType DEF AbortRootTurn
  <2>3. \A b \in Agents : Without(mailbox[b], {t}) \in Seq(Work)
    BY WithoutType
  <2>4. MailTypeOK'
    BY <1>4, <2>3 DEF AbortRootTurn, MailTypeOK
  <2> QED
    BY <2>1, <2>2, <2>4, TypePartsNext
<1>5. ASSUME NEW k \in {"closeAll", "reset"}, CloseRegistry(k)
      PROVE  TypeOK'
  <2>1. RestTypeOK'
    BY <1>5 DEF CloseRegistry
  <2>2. LockTypeOK'
    BY <1>5, <1>a, LockType DEF CloseRegistry
  <2> QED
    BY <1>5, <2>1, <2>2, Unchanged, TypePartsNext DEF CloseRegistry
<1>6. CASE CloseDone
  <2>1. RestTypeOK'
    BY <1>6 DEF CloseDone
  <2> QED
    BY <1>6, <2>1, UnlockType, Unchanged, TypePartsNext DEF CloseDone
<1>7. CASE ResetDone
  <2>1. RestTypeOK'
    BY <1>7 DEF ResetDone
  <2> QED
    BY <1>7, <2>1, UnlockType, Unchanged, TypePartsNext DEF ResetDone
<1>8. CASE StopRegistry
  <2>1. RestTypeOK'
    BY <1>8 DEF StopRegistry
  <2>2. LockTypeOK'
    BY <1>8, <1>a, LockType DEF StopRegistry
  <2> QED
    BY <1>8, <2>1, <2>2, Unchanged, TypePartsNext DEF StopRegistry
<1>9. CASE StopDone
  <2>1. RestTypeOK'
    BY <1>9 DEF StopDone
  <2> QED
    BY <1>9, <2>1, UnlockType, Unchanged, TypePartsNext DEF StopDone
<1>10. ASSUME NEW n \in Limits, SetMaxConcurrent(n)
       PROVE  TypeOK'
  <2>1. RestTypeOK'
    BY <1>10, ConstantsAssumption DEF SetMaxConcurrent
  <2> QED
    BY <1>10, <2>1, Unchanged, TypePartsNext DEF SetMaxConcurrent
<1> QED
  BY <1>1, <1>2, <1>3, <1>4, <1>5, <1>6, <1>7, <1>8, <1>9, <1>10 DEF RegistryWide

\* The next-state relation by groups of actions.
LEMMA NextCases ==
    Next <=> \/ RegistryWide
             \/ \E a \in Agents :
                  \/ Spawning(a) \/ Starting(a) \/ Supervise(a) \/ Steer(a)
                  \/ Messages(a) \/ Suspending(a) \/ Interrupts(a)
                  \/ Shutdown(a) \/ StopRecord(a) \/ Restore(a)
BY DEF Next, Session, RegistryWide

\* A supervisor gets to the settlement of a turn only with a result.
LEMMA ResultStep ==
    ASSUME TypeOK, ResultKnown, [Next]_vars
    PROVE  ResultKnown'
<1> USE DEF ResultKnown, Settling, TypeOK
<1>1. CASE UNCHANGED supVars
  BY <1>1 DEF supVars
<1>2. ASSUME NEW a \in Agents, Starting(a)
      PROVE  ResultKnown'
  BY <1>1, <1>2 DEF Starting, StartSupervisor, RollbackAdmission, SpawnerKilled, Killed
<1>3. ASSUME NEW a \in Agents, Supervise(a)
      PROVE  ResultKnown'
  <2> USE DEF GoTo, At, Points, Outcomes
  <2>1. CASE TakeStartedWork(a)
    BY <1>3, <2>1 DEF TakeStartedWork
  <2>2. CASE ResetCancel(a)
    BY <1>3, <2>2 DEF ResetCancel
  <2>3. CASE RunReturns(a)
    BY <1>3, <2>3 DEF RunReturns
  <2>4. CASE RunCancelled(a)
    BY <1>3, <2>4 DEF RunCancelled
  <2>5. CASE CommitSuspension(a)
    BY <1>3, <2>5 DEF CommitSuspension
  <2>6. CASE ResolveStatus(a)
    BY <1>3, <2>6 DEF ResolveStatus
  <2>7. CASE NextStep(a)
    <3>1. \E q \in {"exited", "await", "reset", "publish"} : GoTo(a, q)
      BY <2>7 DEF NextStep, SupervisorStep, Complete
    <3>2. outcome' = [outcome EXCEPT ![a] = IF sup'[a] = "publish" THEN @ ELSE "none"]
      BY <2>7 DEF NextStep
    <3>3. outcome[a] # "none"
      BY <2>7 DEF NextStep
    <3> QED
      BY <1>3, <3>1, <3>2, <3>3
  <2>8. CASE Publish(a)
    BY <1>3, <2>8 DEF Publish
  <2>9. CASE Finish(a)
    <3>1. \E q \in {"exited", "await", "reset"} : GoTo(a, q)
      BY <2>9 DEF Finish, SupervisorStep
    <3>2. outcome' = [outcome EXCEPT ![a] = "none"]
      BY <2>9 DEF Finish
    <3> QED
      BY <1>3, <3>1, <3>2
  <2> QED
    BY <1>3, <2>1, <2>2, <2>3, <2>4, <2>5, <2>6, <2>7, <2>8, <2>9 DEF Supervise
<1>4. ASSUME NEW a \in Agents, Shutdown(a) \/ StopRecord(a)
      PROVE  ResultKnown'
  BY <1>1, <1>4 DEF Shutdown, CloseSubagent, ShutdownCancel, ShutdownClose, ShutdownStop,
                    StopRecord, Killed
<1>5. ASSUME NEW a \in Agents, Restore(a)
      PROVE  ResultKnown'
  BY <1>5 DEF Restore, RestoreExisting, RestoreMissing
<1>6. ASSUME NEW a \in Agents,
             Spawning(a) \/ Steer(a) \/ Messages(a) \/ Suspending(a) \/ Interrupts(a)
      PROVE  UNCHANGED supVars
  BY <1>6 DEF Spawning, Spawn, Steer, SteerAcquire, SteerCommit, SteerRelease,
              Messages, QueueMessage, SendInput, SendQueue, SendRestart,
              Suspending, RequestSuspension, SendResume, ResumeDueRecord, ResumeSchedule,
              Interrupts, InterruptSubagent, CancelSuspension, InterruptOne,
              InterruptForTurn, InterruptRecord, RequestCancel, SlotReleased
<1>7. CASE RegistryWide
  BY <1>1, <1>7 DEF RegistryWide, ResumeDue, InterruptActive, InterruptDone, AbortRootTurn,
                    CloseRegistry, CloseDone, ResetDone, StopRegistry, StopDone,
                    SetMaxConcurrent
<1>8. CASE UNCHANGED vars
  BY <1>1, <1>8 DEF vars
<1> QED
  BY <1>1, <1>2, <1>3, <1>4, <1>5, <1>6, <1>7, <1>8, NextCases

\* Every step keeps the types.
LEMMA TypeStep ==
    ASSUME TypeOK, ResultKnown, [Next]_vars
    PROVE  TypeOK'
<1>1. CASE UNCHANGED vars
  BY <1>1 DEF TypeOK, vars, identVars, mailVars, supVars, limitVars, suspVars, lockVars
<1> QED
  BY <1>1, NextCases, RegistryWideType, SpawningType, SuperviseType, SteerType,
     MessagesType, SuspendingType, InterruptsType, ShutdownType, RestoreType

\* Type correctness: in every reachable state of a registry of any size each
\* variable is of its type; a settled turn always has a status to publish.
THEOREM TypeCorrect == Spec => []TypeOK
<1>1. Init => TypeOK /\ ResultKnown
  BY InitType DEF Init, ResultKnown, Settling
<1>2. TypeOK /\ ResultKnown /\ [Next]_vars => (TypeOK /\ ResultKnown)'
  BY TypeStep, ResultStep
<1> QED
  BY <1>1, <1>2, PTL DEF Spec

-----------------------------------------------------------------------------
(* The slot count                                                          *)

\* Which phases hold a slot (phaseHoldsSlot).
LEMMA HoldingPhases ==
    /\ \A s, t : ~HoldsSlot(Idle(s, t))
    /\ \A t : HoldsSlot(Pending(t)) /\ HoldsSlot(Running(t)) /\ HoldsSlot(Interrupting(t))
    /\ ~HoldsSlot(ClosedPhase) /\ ClosedPhase.tag = "closed"
BY DEF HoldsSlot, Idle, Pending, Running, Interrupting, ClosedPhase

\* There are finitely many holders, so that they can be counted.
LEMMA HoldingFinite ==
    IsFiniteSet(Holding) /\ Cardinality(Holding) \in Nat
<1>1. Holding \subseteq Agents
  BY DEF Holding
<1> QED
  BY <1>1, FS_Subset, FS_CardinalityType, ConstantsAssumption

\* What a step may do to the slots: nothing, take one that is free, give one up.
Keeps    == Holding' = Holding /\ (stopped \/ live' = live)
Takes(a) == /\ a \notin Holding /\ Holding' = Holding \cup {a}
            /\ ~closed /\ live < limit /\ live' = live + 1
Gives(a) == /\ a \in Holding /\ Holding' = Holding \ {a}
            /\ live' = IF live > 0 THEN live - 1 ELSE 0
SlotEffect ==
    /\ Keeps \/ \E a \in Agents : Takes(a) \/ Gives(a)
    /\ UNCHANGED <<limit, stopped>>

\* The rest of the invariant.
SlotRest ==
    /\ \A a \in Agents \ agents : phase[a].tag = "closed"
    /\ op.kind = "reset" =>
         \A a \in agents : stage[a] \in {"todo", "ready"} \/ phase[a].tag = "closed"
    /\ stopped \/ op.kind = "stop" => closed
    /\ op.kind = "interruptAll" /\ stopped => op.flag

SlotStep == SlotEffect /\ SlotRest'

\* The set of holders after one phase was written.
LEMMA HoldingUpdate ==
    ASSUME TypeOK, NEW a \in Agents, NEW p, phase' = [phase EXCEPT ![a] = p]
    PROVE  Holding' = IF HoldsSlot(p) THEN Holding \cup {a} ELSE Holding \ {a}
BY DEF TypeOK, Holding, HoldsSlot

\* A record that leaves its slot through releaseSlotSTM gives back one or none.
LEMMA Giving ==
    ASSUME TypeOK, NEW a \in Agents, NEW p, phase' = [phase EXCEPT ![a] = p],
           ~HoldsSlot(p), live' = Released(a)
    PROVE  Keeps \/ Gives(a)
BY HoldingUpdate DEF Keeps, Gives, Released, Holding

\* A change between phases that both hold a slot, or both do not.
LEMMA Staying ==
    ASSUME TypeOK, NEW a \in Agents, NEW p, phase' = [phase EXCEPT ![a] = p],
           HoldsSlot(p) <=> HoldsSlot(phase[a]), UNCHANGED live
    PROVE  Keeps
BY HoldingUpdate DEF Keeps, Holding

\* scheduleIdleWork takes one slot, and only below the limit.
LEMMA Taking ==
    ASSUME TypeOK, NEW a \in Agents, NEW t, Schedule(a, t), Schedulable(a)
    PROVE  Takes(a)
<1>1. ~HoldsSlot(phase[a])
  BY DEF Schedulable, HoldsSlot
<1>2. Holding' = Holding \cup {a}
  BY HoldingUpdate, HoldingPhases DEF Schedule
<1> QED
  BY <1>1, <1>2 DEF Takes, Schedule, Schedulable, Holding

\* A step that leaves phases and the count alone.
LEMMA NoPhase ==
    ASSUME UNCHANGED <<phase, live>>
    PROVE  Keeps
BY DEF Keeps, Holding

\* Steps that leave the map and the flags alone keep the rest as long as they
\* open no closed record: a step that leaves the lock alone, moves on within an
\* operation that is no reset, or ends the operation.
ClosedKept == \A b \in Agents : phase[b].tag = "closed" => phase'[b].tag = "closed"

\* The facts about closing and resetting survive a step that reopens no record.
LEMMA RestKept ==
    ASSUME TypeOK, SlotRest, ClosedKept, UNCHANGED <<agents, closed, stopped>>,
           \/ UNCHANGED <<op, stage>>
           \/ op.kind # "reset" /\ UNCHANGED op
           \/ Unlock
    PROVE  SlotRest'
BY DEF TypeOK, SlotRest, ClosedKept, Unlock, NoOp

\* Writing the phase of a record that is open, or closing it, reopens none.
LEMMA ClosedKeptBy ==
    ASSUME TypeOK, NEW a \in Agents, NEW p, phase' = [phase EXCEPT ![a] = p],
           phase[a].tag # "closed" \/ p.tag = "closed"
    PROVE  ClosedKept
BY DEF TypeOK, ClosedKept

\* Nor does a step that writes no phase.
LEMMA ClosedKeptSame ==
    ASSUME UNCHANGED phase
    PROVE  ClosedKept
BY DEF ClosedKept

\* Admission takes one slot and rollback gives one back.
LEMMA SpawningSlots ==
    ASSUME TypeOK, SlotRest, NEW a \in Agents, Spawning(a) \/ Starting(a)
    PROVE  SlotStep
<1>1. ASSUME NEW p, NEW t, NEW pth, Spawn(a, p, t, pth)
      PROVE  SlotStep
  <2>1. a \notin agents
    BY <1>1 DEF Spawn, TypeOK
  <2>2. ~HoldsSlot(phase[a])
    BY <2>1 DEF SlotRest, HoldsSlot
  <2>3. Takes(a)
    BY <1>1, <2>2, HoldingUpdate, HoldingPhases DEF Spawn, Takes, Holding
  <2>4. op.kind = "none" /\ UNCHANGED <<op, closed, stopped, limit>>
    BY <1>1 DEF Spawn, Free, lockVars
  <2>5. SlotRest'
    BY <1>1, <2>4 DEF Spawn, SlotRest, TypeOK
  <2> QED
    BY <2>3, <2>4, <2>5 DEF SlotStep, SlotEffect
<1>2. CASE StartSupervisor(a)
  <2>1. UNCHANGED <<phase, live, agents, closed, stopped, limit, op, stage>>
    BY <1>2 DEF StartSupervisor, identVars, limitVars, lockVars
  <2> QED
    BY <2>1, NoPhase, RestKept, ClosedKeptSame DEF SlotStep, SlotEffect
<1>3. CASE RollbackAdmission(a)
  <2>1. Keeps \/ Gives(a)
    BY <1>3, Giving, HoldingPhases DEF RollbackAdmission
  <2>2. UNCHANGED <<closed, stopped, limit, op, stage>> /\ agents' = agents \ {a}
    BY <1>3 DEF RollbackAdmission, limitVars, lockVars
  <2>3. phase' = [phase EXCEPT ![a] = ClosedPhase]
    BY <1>3 DEF RollbackAdmission
  <2>4. SlotRest'
    BY <2>2, <2>3, HoldingPhases DEF SlotRest, TypeOK
  <2> QED
    BY <2>1, <2>2, <2>4 DEF SlotStep, SlotEffect
<1>4. CASE SpawnerKilled(a)
  <2>1. Keeps \/ Gives(a)
    BY <1>4, Giving, HoldingPhases DEF SpawnerKilled
  <2>2. UNCHANGED <<agents, closed, stopped, limit, op, stage>>
    BY <1>4 DEF SpawnerKilled, identVars, limitVars, lockVars
  <2>3. ClosedKept
    BY <1>4, ClosedKeptBy, HoldingPhases DEF SpawnerKilled
  <2> QED
    BY <2>1, <2>2, <2>3, RestKept DEF SlotStep, SlotEffect
<1> QED
  BY <1>1, <1>2, <1>3, <1>4 DEF Spawning, Starting

\* The part of a supervisor's step that NextStep and Finish share.
LEMMA SupervisorStepSlots ==
    ASSUME TypeOK, NEW a \in Agents, NEW s,
           \/ SupervisorStep(a, Complete(a))
           \/ SupervisorStep(a, ToIdle(a, s) /\ GoTo(a, "await") /\ UNCHANGED mailbox)
           \/ Complete(a)
           \/ phase[a].tag = "running" /\ ToIdle(a, s)
    PROVE  (Keeps \/ Gives(a)) /\ ClosedKept
<1>1. CASE UNCHANGED <<live, phase>>
  BY <1>1, NoPhase, ClosedKeptSame
<1>2. ASSUME NEW u, phase[a].tag # "closed", ToIdle(a, u)
      PROVE  (Keeps \/ Gives(a)) /\ ClosedKept
  BY <1>2, Giving, ClosedKeptBy, HoldingPhases DEF ToIdle
<1>3. CASE /\ phase[a].tag = "running" /\ UNCHANGED live
           /\ phase' = [phase EXCEPT ![a] = Running(Head(mailbox[a]).turn)]
  <2>1. HoldsSlot(phase[a])
    BY <1>3 DEF HoldsSlot
  <2> QED
    BY <1>3, <2>1, Staying, ClosedKeptBy, HoldingPhases
<1> QED
  BY <1>1, <1>2, <1>3 DEF SupervisorStep, Complete

\* A supervisor gives its slot back when it settles, or keeps it for queued work.
LEMMA SuperviseSlots ==
    ASSUME TypeOK, SlotRest, NEW a \in Agents, Supervise(a)
    PROVE  SlotStep
<1>1. UNCHANGED <<agents, closed, stopped, limit, op, stage>>
  BY DEF Supervise, TakeStartedWork, ResetCancel, RunReturns, RunCancelled, CommitSuspension,
         ResolveStatus, NextStep, Publish, Finish, identVars, limitVars, lockVars
<1>2. (Keeps \/ Gives(a)) /\ ClosedKept
  <2>1. CASE UNCHANGED <<phase, live>>
    BY <2>1, NoPhase, ClosedKeptSame
  <2>2. CASE TakeStartedWork(a)
    <3>1. CASE phase[a].tag = "pending" /\ phase' = [phase EXCEPT ![a] = Running(phase[a].turn)]
      <4>1. HoldsSlot(phase[a])
        BY <3>1 DEF HoldsSlot
      <4> QED
        BY <2>2, <3>1, <4>1, Staying, ClosedKeptBy, HoldingPhases DEF TakeStartedWork
    <3> QED
      BY <2>1, <2>2, <3>1 DEF TakeStartedWork
  <2>3. CASE NextStep(a)
    BY <2>3, SupervisorStepSlots DEF NextStep
  <2>4. CASE Finish(a)
    BY <2>4, SupervisorStepSlots DEF Finish
  <2> QED
    BY <2>1, <2>2, <2>3, <2>4
    DEF Supervise, ResetCancel, RunReturns, RunCancelled, CommitSuspension, ResolveStatus,
        Publish
<1> QED
  BY <1>1, <1>2, RestKept DEF SlotStep, SlotEffect

\* A step that changes no phase and no count under an operation that is no reset.
LEMMA QuietStep ==
    ASSUME TypeOK, SlotRest,
           UNCHANGED <<phase, live, agents, closed, stopped, limit>>,
           \/ UNCHANGED <<op, stage>>
           \/ op.kind # "reset" /\ UNCHANGED op
           \/ Unlock
    PROVE  SlotStep
BY NoPhase, RestKept, ClosedKeptSame DEF SlotStep, SlotEffect

\* An operation that takes the lock and is neither of those the rest is about.
LEMMA LockStep ==
    ASSUME TypeOK, SlotRest, UNCHANGED <<phase, live, agents, closed, stopped, limit>>,
           NEW k \in {"send", "resume", "interrupt", "abort", "close"},
           NEW t, NEW u, NEW f, NEW S, NEW first, Lock(Call(k, t, u, f), S, first)
    PROVE  SlotStep
<1>1. op'.kind = k
  BY DEF Lock, Call
<1>2. SlotRest'
  BY <1>1 DEF SlotRest
<1> QED
  BY <1>2, NoPhase DEF SlotStep, SlotEffect

\* Scheduling idle work, in the middle of an operation or at its end.
LEMMA ScheduleStep ==
    ASSUME TypeOK, SlotRest, NEW a \in Agents, NEW t,
           Schedulable(a) /\ Schedule(a, t),
           UNCHANGED <<agents, closed, stopped, limit>>,
           (op.kind # "reset" /\ UNCHANGED op) \/ Unlock
    PROVE  SlotStep
<1>1. Takes(a)
  BY Taking
<1>2. ClosedKept
  BY ClosedKeptBy DEF Schedule, Schedulable
<1> QED
  BY <1>1, <1>2, RestKept DEF SlotStep, SlotEffect

\* Steering moves messages and no slot.
LEMMA SteerSlots ==
    ASSUME TypeOK, SlotRest, NEW a \in Agents, Steer(a)
    PROVE  SlotStep
<1>1. UNCHANGED <<phase, live, agents, closed, stopped, limit, op, stage>>
  BY DEF Steer, SteerAcquire, SteerCommit, SteerRelease, identVars, limitVars, lockVars
<1> QED
  BY <1>1, QuietStep

\* Sending takes a slot where it restarts an idle child.
LEMMA MessagesSlots ==
    ASSUME TypeOK, SlotRest, NEW a \in Agents, Messages(a)
    PROVE  SlotStep
<1> USE DEF identVars, limitVars, lockVars
<1>1. ASSUME NEW t, QueueMessage(a, t) PROVE SlotStep
  BY <1>1, QuietStep DEF QueueMessage
<1>2. ASSUME NEW t, NEW i, SendInput(a, t, i) PROVE SlotStep
  BY <1>2, LockStep DEF SendInput
<1>3. CASE SendQueue(a)
  BY <1>3, QuietStep DEF SendQueue, Move
<1>4. CASE SendRestart(a)
  BY <1>4, QuietStep, ScheduleStep DEF SendRestart
<1> QED
  BY <1>1, <1>2, <1>3, <1>4 DEF Messages

\* Resuming takes a slot; asking to suspend does not give one back.
LEMMA SuspendingSlots ==
    ASSUME TypeOK, SlotRest, NEW a \in Agents, Suspending(a)
    PROVE  SlotStep
<1> USE DEF identVars, limitVars, lockVars
<1>1. CASE RequestSuspension(a)
  BY <1>1, QuietStep DEF RequestSuspension
<1>2. CASE SendResume(a)
  BY <1>2, QuietStep DEF SendResume, Move
<1>3. CASE ResumeDueRecord(a)
  BY <1>3, QuietStep DEF ResumeDueRecord, Move
<1>4. CASE ResumeSchedule(a)
  BY <1>4, QuietStep, ScheduleStep DEF ResumeSchedule, Move
<1> QED
  BY <1>1, <1>2, <1>3, <1>4 DEF Suspending

\* Interrupting gives back the slot of a pending child; a running one keeps it.
LEMMA InterruptsSlots ==
    ASSUME TypeOK, SlotInvariant, SlotRest, NEW a \in Agents, Interrupts(a)
    PROVE  SlotStep
<1> USE DEF identVars, limitVars, lockVars
<1>1. CASE InterruptSubagent(a)
  BY <1>1, LockStep DEF InterruptSubagent
<1>2. CASE CancelSuspension(a)
  BY <1>2, QuietStep DEF CancelSuspension, Move
<1>3. CASE InterruptOne(a)
  <2>1. UNCHANGED <<agents, closed, stopped, limit, op>> /\ op.kind # "reset"
    BY <1>3 DEF InterruptOne, Move
  <2>2. CASE /\ phase[a].tag = "idle"
             /\ phase' = [phase EXCEPT ![a] = Idle("interrupted", NoTurn)] /\ UNCHANGED live
    <3>1. ~HoldsSlot(phase[a])
      BY <2>2 DEF HoldsSlot
    <3> QED
      BY <2>1, <2>2, <3>1, Staying, ClosedKeptBy, RestKept, HoldingPhases
      DEF SlotStep, SlotEffect
  <2>3. CASE /\ phase[a].tag = "pending"
             /\ phase' = [phase EXCEPT ![a] = Pending(Head(mailbox[a]).turn)]
             /\ live' = Released(a) + 1
    <3>1. HoldsSlot(phase[a]) /\ a \in Holding
      BY <2>3 DEF HoldsSlot, Holding
    <3>2. Holding' = Holding
      <4>1. HoldsSlot(Pending(Head(mailbox[a]).turn))
        BY HoldingPhases
      <4>2. Holding' = Holding \cup {a}
        BY <2>3, <4>1, HoldingUpdate
      <4> QED
        BY <3>1, <4>2
    <3>3. stopped \/ live' = live
      <4>1. Cardinality(Holding) # 0
        BY <3>1, HoldingFinite, FS_EmptySet
      <4> QED
        BY <2>3, <3>1, <4>1, HoldingFinite DEF SlotInvariant, SlotAccounting, Released, TypeOK
    <3> QED
      BY <2>1, <2>3, <3>2, <3>3, ClosedKeptBy, RestKept DEF SlotStep, SlotEffect, Keeps
  <2>4. CASE /\ phase[a].tag = "pending"
             /\ phase' = [phase EXCEPT ![a] = Idle("interrupted", phase[a].turn)]
             /\ live' = Released(a)
    BY <2>1, <2>4, Giving, ClosedKeptBy, RestKept, HoldingPhases DEF SlotStep, SlotEffect
  <2>5. CASE UNCHANGED <<phase, live>>
    BY <2>1, <2>5, QuietStep
  <2> QED
    BY <1>3, <2>2, <2>3, <2>4, <2>5 DEF InterruptOne
<1>4. CASE InterruptForTurn(a)
  <2>1. UNCHANGED <<agents, closed, stopped, limit, op>> /\ op.kind # "reset"
    BY <1>4 DEF InterruptForTurn, Move
  <2>2. CASE /\ phase[a].tag = "pending" /\ live' = Released(a)
             /\ phase' = [phase EXCEPT ![a] = Idle("interrupted", op.turn)]
    BY <2>1, <2>2, Giving, ClosedKeptBy, RestKept, HoldingPhases DEF SlotStep, SlotEffect
  <2>3. CASE /\ phase[a].tag \in {"running", "interrupting"} /\ UNCHANGED live
             /\ phase' = [phase EXCEPT ![a] = Interrupting(phase[a].turn)]
    <3>1. HoldsSlot(phase[a])
      BY <2>3 DEF HoldsSlot
    <3> QED
      BY <2>1, <2>3, <3>1, Staying, ClosedKeptBy, RestKept, HoldingPhases
      DEF SlotStep, SlotEffect
  <2>4. CASE UNCHANGED <<phase, live>>
    BY <2>1, <2>4, QuietStep
  <2> QED
    BY <1>4, <2>2, <2>3, <2>4 DEF InterruptForTurn
<1>5. CASE InterruptRecord(a)
  <2>1. UNCHANGED <<agents, closed, stopped, limit, op>> /\ op.kind # "reset"
    BY <1>5 DEF InterruptRecord, Move
  <2>2. CASE phase[a].tag = "pending" /\ ToIdle(a, "interrupted")
    BY <2>1, <2>2, Giving, ClosedKeptBy, RestKept, HoldingPhases
    DEF SlotStep, SlotEffect, ToIdle
  <2>3. CASE /\ phase[a].tag \in {"running", "interrupting"} /\ UNCHANGED live
             /\ phase' = [phase EXCEPT ![a] = Interrupting(phase[a].turn)]
    <3>1. HoldsSlot(phase[a])
      BY <2>3 DEF HoldsSlot
    <3> QED
      BY <2>1, <2>3, <3>1, Staying, ClosedKeptBy, RestKept, HoldingPhases
      DEF SlotStep, SlotEffect
  <2>4. CASE UNCHANGED <<phase, live>>
    BY <2>1, <2>4, QuietStep
  <2> QED
    BY <1>5, <2>2, <2>3, <2>4 DEF InterruptRecord
<1>6. CASE RequestCancel(a)
  BY <1>6, QuietStep DEF RequestCancel, Move
<1>7. CASE SlotReleased(a)
  BY <1>7, QuietStep DEF SlotReleased, Move
<1> QED
  BY <1>1, <1>2, <1>3, <1>4, <1>5, <1>6, <1>7 DEF Interrupts

\* Closing a record gives back its slot once.
LEMMA ShutdownSlots ==
    ASSUME TypeOK, SlotRest, NEW a \in Agents, Shutdown(a) \/ StopRecord(a)
    PROVE  SlotStep
<1> USE DEF identVars, limitVars, lockVars
<1>1. CASE CloseSubagent(a)
  BY <1>1, LockStep DEF CloseSubagent
<1>2. CASE ShutdownCancel(a)
  <2>1. UNCHANGED <<phase, live, agents, closed, stopped, limit, op>>
    BY <1>2 DEF ShutdownCancel
  <2>2. stage' = [stage EXCEPT ![a] = "ready"]
    BY <1>2 DEF ShutdownCancel
  <2>3. SlotRest'
    BY <2>1, <2>2 DEF SlotRest, TypeOK
  <2> QED
    BY <2>1, <2>3, NoPhase DEF SlotStep, SlotEffect
<1>3. CASE ShutdownClose(a)
  <2>1. Keeps \/ Gives(a)
    BY <1>3, Giving, HoldingPhases DEF ShutdownClose
  <2>2. /\ UNCHANGED <<agents, closed, stopped, limit, op>>
        /\ phase' = [phase EXCEPT ![a] = ClosedPhase]
        /\ stage' = [stage EXCEPT ![a] = "waiting"]
    BY <1>3 DEF ShutdownClose, Move
  <2>3. SlotRest'
    BY <2>2, HoldingPhases DEF SlotRest, TypeOK
  <2> QED
    BY <2>1, <2>2, <2>3 DEF SlotStep, SlotEffect
<1>4. CASE ShutdownStop(a)
  <2>1. UNCHANGED <<phase, live, agents, closed, stopped, limit>> /\ stage[a] = "waiting"
    BY <1>4 DEF ShutdownStop
  <2>2. CASE Unlock
    BY <2>1, <2>2, QuietStep
  <2>3. CASE Move(a, "none")
    <3>1. SlotRest'
      BY <2>1, <2>3 DEF SlotRest, TypeOK, Move
    <3> QED
      BY <2>1, <3>1, NoPhase DEF SlotStep, SlotEffect
  <2> QED
    BY <1>4, <2>2, <2>3 DEF ShutdownStop
<1>5. CASE StopRecord(a)
  BY <1>5, QuietStep DEF StopRecord, Move
<1> QED
  BY <1>1, <1>2, <1>3, <1>4, <1>5 DEF Shutdown

\* A restored child holds no slot.
LEMMA RestoreSlots ==
    ASSUME TypeOK, SlotRest, NEW a \in Agents, Restore(a)
    PROVE  SlotStep
<1> USE DEF limitVars, lockVars
<1>1. ASSUME NEW s, RestoreExisting(a, s)
      PROVE  SlotStep
  <2>1. /\ UNCHANGED <<agents, closed, stopped, limit, op, stage>>
        /\ op.kind = "none" /\ a \in agents
    BY <1>1 DEF RestoreExisting, Free
  <2>2. PICK p : phase' = [phase EXCEPT ![a] = p] /\ ~HoldsSlot(p)
    BY <1>1, HoldingPhases DEF RestoreExisting
  <2>3. Keeps \/ Gives(a)
    BY <1>1, <2>2, Giving DEF RestoreExisting
  <2>4. SlotRest'
    BY <2>1, <2>2 DEF SlotRest, TypeOK
  <2> QED
    BY <2>1, <2>3, <2>4 DEF SlotStep, SlotEffect
<1>2. ASSUME NEW s, NEW p, NEW pth, NEW d, RestoreMissing(a, p, pth, d, s)
      PROVE  SlotStep
  <2>1. /\ UNCHANGED <<live, closed, stopped, limit, op, stage>> /\ agents' = agents \cup {a}
        /\ op.kind = "none" /\ a \notin agents
        /\ phase' = [phase EXCEPT ![a] = Idle(Normalized(s), NoTurn)]
    BY <1>2 DEF RestoreMissing, Free
  <2>2. ~HoldsSlot(phase[a])
    BY <2>1 DEF SlotRest, HoldsSlot
  <2>3. Keeps
    BY <2>1, <2>2, Staying, HoldingPhases
  <2>4. SlotRest'
    BY <2>1 DEF SlotRest, TypeOK
  <2> QED
    BY <2>1, <2>3, <2>4 DEF SlotStep, SlotEffect
<1> QED
  BY <1>1, <1>2 DEF Restore

\* Operations on the whole registry that are a slot step; a change of the limit,
\* a completed reset and a completed stop are not.
LEMMA RegistryWideSlots ==
    ASSUME TypeOK, SlotRest, RegistryWide, ~ResetDone, ~StopDone,
           \A n \in Limits : ~SetMaxConcurrent(n)
    PROVE  SlotStep
<1> USE DEF identVars, limitVars, lockVars
<1>1. CASE ResumeDue
  BY <1>1, LockStep DEF ResumeDue
<1>2. CASE InterruptActive
  <2>1. UNCHANGED <<phase, live, agents, stopped, limit>> /\ closed'
    BY <1>2 DEF InterruptActive
  <2>2. op'.kind = "interruptAll" /\ op'.flag = closed
    BY <1>2 DEF InterruptActive, Lock, Call
  <2>3. SlotRest'
    BY <2>1, <2>2 DEF SlotRest
  <2> QED
    BY <2>1, <2>3, NoPhase DEF SlotStep, SlotEffect
<1>3. CASE InterruptDone
  <2>1. UNCHANGED <<phase, live, agents, stopped, limit>>
    BY <1>3 DEF InterruptDone
  <2>2. op'.kind = "none"
    BY <1>3 DEF InterruptDone, Unlock, NoOp
  <2>3. stopped => closed'
    BY <1>3 DEF InterruptDone, SlotRest
  <2>4. SlotRest'
    BY <2>1, <2>2, <2>3 DEF SlotRest
  <2> QED
    BY <2>1, <2>4, NoPhase DEF SlotStep, SlotEffect
<1>4. ASSUME NEW t \in Turns, AbortRootTurn(t)
      PROVE  SlotStep
  BY <1>4, LockStep DEF AbortRootTurn
<1>5. ASSUME NEW k \in {"closeAll", "reset"}, CloseRegistry(k)
      PROVE  SlotStep
  <2>1. UNCHANGED <<phase, live, agents, stopped, limit>> /\ closed'
    BY <1>5 DEF CloseRegistry
  <2>2. op'.kind = k /\ \A a \in Agents : a \in agents => stage'[a] = "todo"
    BY <1>5 DEF CloseRegistry, Lock, Call
  <2>3. agents \subseteq Agents
    BY DEF TypeOK
  <2>4. SlotRest'
    BY <2>1, <2>2, <2>3 DEF SlotRest
  <2> QED
    BY <2>1, <2>4, NoPhase DEF SlotStep, SlotEffect
<1>6. CASE CloseDone
  BY <1>6, QuietStep DEF CloseDone
<1>7. CASE StopRegistry
  <2>1. UNCHANGED <<phase, live, agents, stopped, limit>> /\ closed'
    BY <1>7 DEF StopRegistry
  <2>2. op'.kind = "stop"
    BY <1>7 DEF StopRegistry, Lock, Call
  <2>3. SlotRest'
    BY <2>1, <2>2 DEF SlotRest
  <2> QED
    BY <2>1, <2>3, NoPhase DEF SlotStep, SlotEffect
<1> QED
  BY <1>1, <1>2, <1>3, <1>4, <1>5, <1>6, <1>7 DEF RegistryWide

\* The three steps that are no slot step: none of them moves a holder, and a
\* completed reset writes zero when no record is left that holds a slot.
Exceptional ==
    /\ Holding' = Holding
    /\ \/ \E n \in Limits : limit' = (IF n > 1 THEN n ELSE 1)
       \/ UNCHANGED limit
    /\ SlotInvariant'

\* The three steps that are no slot steps: the limit, the end of a reset, the end of a stop.
LEMMA ExceptionalSteps ==
    ASSUME TypeOK, SlotInvariant,
           ResetDone \/ StopDone \/ \E n \in Limits : SetMaxConcurrent(n)
    PROVE  Exceptional
<1> USE DEF limitVars, lockVars, identVars
<1>1. CASE ResetDone
  <2>1. UNCHANGED <<phase, limit>> /\ live' = 0 /\ op'.kind = "none" /\ ~stopped' /\ ~closed'
    BY <1>1 DEF ResetDone, Unlock, NoOp
  <2>2. \A a \in Agents : phase[a].tag = "closed"
    BY <1>1 DEF ResetDone, Drained, NoStage, SlotInvariant
  <2>3. Holding = {} /\ Holding' = {}
    BY <2>1, <2>2 DEF Holding, HoldsSlot
  <2>4. SlotAccounting'
    BY <2>1, <2>3, FS_EmptySet DEF SlotAccounting
  <2>5. SlotInvariant'
    BY <2>1, <2>2, <2>4 DEF SlotInvariant
  <2> QED
    BY <2>1, <2>3, <2>5 DEF Exceptional
<1>2. CASE StopDone
  <2>1. UNCHANGED <<phase, limit, agents, closed>> /\ stopped' /\ op'.kind = "none" /\ closed
    BY <1>2 DEF StopDone, Unlock, NoOp, SlotInvariant
  <2>2. SlotInvariant'
    BY <2>1 DEF SlotInvariant, SlotAccounting
  <2> QED
    BY <2>1, <2>2 DEF Exceptional, Holding
<1>3. ASSUME NEW n \in Limits, SetMaxConcurrent(n)
      PROVE  Exceptional
  <2>1. UNCHANGED <<phase, live, agents, closed, stopped, op, stage>>
    BY <1>3 DEF SetMaxConcurrent
  <2>2. Holding' = Holding
    BY <2>1 DEF Holding
  <2>3. SlotInvariant'
    BY <2>1, <2>2 DEF SlotInvariant, SlotAccounting
  <2> QED
    BY <1>3, <2>2, <2>3 DEF Exceptional, SetMaxConcurrent
<1> QED
  BY <1>1, <1>2, <1>3

\* The slot invariant is the count and the facts about closing and resetting.
LEMMA InvariantParts ==
    /\ SlotInvariant <=> SlotAccounting /\ SlotRest
    /\ SlotAccounting' /\ SlotRest' => SlotInvariant'
BY DEF SlotInvariant, SlotRest

\* Every step is a slot step, one of the three exceptions or a stutter.
LEMMA StepKinds ==
    ASSUME TypeOK, SlotInvariant, Next
    PROVE  SlotStep \/ Exceptional
<1>1. SlotRest
  BY InvariantParts
<1>2. CASE ResetDone \/ StopDone \/ \E n \in Limits : SetMaxConcurrent(n)
  BY <1>2, ExceptionalSteps
<1>3. CASE ~(ResetDone \/ StopDone \/ \E n \in Limits : SetMaxConcurrent(n))
  BY <1>1, <1>3, NextCases, RegistryWideSlots, SpawningSlots, SuperviseSlots, SteerSlots,
     MessagesSlots, SuspendingSlots, InterruptsSlots, ShutdownSlots, RestoreSlots
<1> QED
  BY <1>2, <1>3

\* The effect of a slot step on the number of holders.
LEMMA EffectCounts ==
    ASSUME TypeOK, SlotAccounting, SlotEffect
    PROVE  SlotAccounting'
<1>1. CASE stopped
  BY <1>1 DEF SlotAccounting, SlotEffect
<1>2. CASE ~stopped
  <2>1. live = Cardinality(Holding) /\ ~stopped'
    BY <1>2 DEF SlotAccounting, SlotEffect
  <2>2. CASE Keeps
    BY <1>2, <2>1, <2>2 DEF SlotAccounting, Keeps
  <2>3. ASSUME NEW a \in Agents, Takes(a)
        PROVE  SlotAccounting'
    <3>1. Cardinality(Holding \cup {a}) = Cardinality(Holding) + 1
      BY <2>3, HoldingFinite, FS_AddElement DEF Takes
    <3> QED
      BY <2>1, <2>3, <3>1 DEF SlotAccounting, Takes
  <2>4. ASSUME NEW a \in Agents, Gives(a)
        PROVE  SlotAccounting'
    <3>1. Cardinality(Holding \ {a}) = Cardinality(Holding) - 1
      BY <2>4, HoldingFinite, FS_RemoveElement DEF Gives
    <3>2. Cardinality(Holding) # 0
      BY <2>4, HoldingFinite, FS_EmptySet DEF Gives
    <3> QED
      BY <2>1, <2>4, <3>1, <3>2, HoldingFinite DEF SlotAccounting, Gives
  <2> QED
    BY <2>2, <2>3, <2>4 DEF SlotEffect
<1> QED
  BY <1>1, <1>2

\* The slot invariant is inductive, given types.
LEMMA SlotInvariantStep ==
    ASSUME TypeOK, SlotInvariant, [Next]_vars
    PROVE  SlotInvariant'
<1>1. CASE UNCHANGED vars
  BY <1>1 DEF SlotInvariant, SlotAccounting, Holding, vars, identVars, limitVars, lockVars
<1>2. CASE Next
  BY <1>2, StepKinds, EffectCounts, InvariantParts DEF SlotStep, Exceptional
<1> QED
  BY <1>1, <1>2

\* The empty registry counts no slot.
LEMMA SlotInvariantInit == Init => SlotInvariant
<1> SUFFICES ASSUME Init PROVE SlotInvariant
  OBVIOUS
<1>1. Holding = {} /\ live = 0 /\ \A a \in Agents : phase[a].tag = "closed"
  BY DEF Init, Holding, HoldsSlot, ClosedPhase
<1>2. op.kind = "none" /\ ~stopped
  BY DEF Init, NoOp
<1> QED
  BY <1>1, <1>2, FS_EmptySet DEF SlotInvariant, SlotAccounting

\* registryLiveCount is at all times the number of children that are pending,
\* running or interrupting, however admissions, rollbacks, supervisors,
\* interruptions, closures and restorations interleave, until
\* stopSubagentRegistry gives the registry up.
THEOREM SlotsCounted == Spec => []SlotInvariant
<1>1. TypeOK /\ SlotInvariant /\ [Next]_vars => SlotInvariant'
  BY SlotInvariantStep
<1> QED
  BY <1>1, SlotInvariantInit, TypeCorrect, PTL DEF Spec

\* The count of active turns (registryLiveCount) is the number of children that
\* hold a slot, in every reachable state of a registry of any size.
COROLLARY SlotAccountingHolds == Spec => []SlotAccounting
<1>1. SlotInvariant => SlotAccounting
  BY DEF SlotInvariant
<1> QED
  BY <1>1, SlotsCounted, PTL

\* The registry implements the slot pool: a child becomes active only while
\* fewer children are active than the limit of the moment allows, and a lowered
\* limit ends no turn.
THEOREM PoolRefinement == Spec => SlotPoolImplemented
<1>1. Init => Pool!Init
  BY DEF Init, Pool!Init, Holding, HoldsSlot, ClosedPhase
<1>2. ASSUME TypeOK, SlotInvariant, [Next]_vars
      PROVE  [Pool!Next]_<<Holding, limit>>
  <2>1. CASE UNCHANGED vars
    BY <2>1 DEF vars, limitVars, Holding
  <2>2. CASE Exceptional
    BY <2>2 DEF Exceptional, Pool!Next, Pool!SetLimit
  <2>3. CASE SlotStep
    <3>1. CASE Keeps
      BY <2>3, <3>1 DEF SlotStep, SlotEffect, Keeps
    <3>2. ASSUME NEW a \in Agents, Takes(a)
          PROVE  Pool!Acquire(a)
      <4>1. ~stopped
        BY <1>2, <3>2 DEF Takes, SlotInvariant
      <4>2. Cardinality(Holding) < limit
        BY <1>2, <3>2, <4>1 DEF Takes, SlotInvariant, SlotAccounting
      <4>3. Pool!Cardinality(Holding) = Cardinality(Holding)
        BY Zenon DEF Cardinality, Pool!Cardinality
      <4> QED
        BY <2>3, <3>2, <4>2, <4>3 DEF SlotStep, SlotEffect, Takes, Pool!Acquire
    <3>3. ASSUME NEW a \in Agents, Gives(a)
          PROVE  Pool!Release(a)
      BY <2>3, <3>3 DEF SlotStep, SlotEffect, Gives, Pool!Release
    <3> QED
      BY <2>3, <3>1, <3>2, <3>3 DEF SlotStep, SlotEffect, Pool!Next
  <2> QED
    BY <1>2, <2>1, <2>2, <2>3, StepKinds
<1> QED
  BY <1>1, <1>2, TypeCorrect, SlotsCounted, PTL DEF Spec, SlotPoolImplemented, Pool!Spec

-----------------------------------------------------------------------------
(* Task paths                                                              *)

\* What PathOwnership is about: the registered records, their paths and the
\* owners of the paths.
pathVars == <<agents, path, paths>>

\* Only admission, rollback, restoration and a finished reset touch the
\* ownership of task paths.
LEMMA PathStepKinds ==
    ASSUME [Next]_vars
    PROVE  \/ UNCHANGED pathVars
           \/ ResetDone
           \/ \E a \in Agents : Spawning(a) \/ RollbackAdmission(a) \/ Restore(a)
<1> USE DEF pathVars, identVars
<1>1. ASSUME NEW a \in Agents, Starting(a)
      PROVE  UNCHANGED pathVars \/ RollbackAdmission(a)
  BY <1>1 DEF Starting, StartSupervisor, SpawnerKilled
<1>2. ASSUME NEW a \in Agents, Supervise(a)
      PROVE  UNCHANGED pathVars
  BY <1>2 DEF Supervise, TakeStartedWork, ResetCancel, RunReturns, RunCancelled,
              CommitSuspension, ResolveStatus, NextStep, Publish, Finish
<1>3. ASSUME NEW a \in Agents, Steer(a) \/ Messages(a) \/ Suspending(a)
      PROVE  UNCHANGED pathVars
  BY <1>3 DEF Steer, SteerAcquire, SteerCommit, SteerRelease,
              Messages, QueueMessage, SendInput, SendQueue, SendRestart,
              Suspending, RequestSuspension, SendResume, ResumeDueRecord, ResumeSchedule
<1>4. ASSUME NEW a \in Agents, Interrupts(a) \/ Shutdown(a) \/ StopRecord(a)
      PROVE  UNCHANGED pathVars
  BY <1>4 DEF Interrupts, InterruptSubagent, CancelSuspension, InterruptOne,
              InterruptForTurn, InterruptRecord, RequestCancel, SlotReleased,
              Shutdown, CloseSubagent, ShutdownCancel, ShutdownClose, ShutdownStop,
              StopRecord
<1>5. CASE RegistryWide
  BY <1>5 DEF RegistryWide, ResumeDue, InterruptActive, InterruptDone, AbortRootTurn,
              CloseRegistry, CloseDone, StopRegistry, StopDone, SetMaxConcurrent
<1>6. CASE UNCHANGED vars
  BY <1>6 DEF vars
<1> QED
  BY <1>1, <1>2, <1>3, <1>4, <1>5, <1>6, NextCases

\* A record takes a path that nobody else owns, and gives its own back when it
\* is rolled back.
LEMMA PathOwnershipStep ==
    ASSUME TypeOK, PathOwnership, [Next]_vars
    PROVE  PathOwnership'
<1> USE ConstantsAssumption DEF TypeOK, PathOwnership
<1>1. CASE UNCHANGED pathVars
  BY <1>1 DEF pathVars
<1>2. CASE ResetDone
  BY <1>2 DEF ResetDone
<1>3. ASSUME NEW a \in Agents, Spawning(a)
      PROVE  PathOwnership'
  <2>1. PICK p \in Agents \cup {Root}, t \in TurnOpt, pth \in Paths : Spawn(a, p, t, pth)
    BY <1>3 DEF Spawning
  <2>2. /\ a \notin agents /\ paths[pth] = NoOwner
        /\ agents' = agents \cup {a}
        /\ path' = [path EXCEPT ![a] = pth]
        /\ paths' = [paths EXCEPT ![pth] = a]
    BY <2>1 DEF Spawn, PathUnused
  <2> QED
    BY <2>2
<1>4. ASSUME NEW a \in Agents, RollbackAdmission(a)
      PROVE  PathOwnership'
  <2>1. /\ agents' = agents \ {a} /\ path' = path
        /\ paths' = IF paths[path[a]] = a
                    THEN [paths EXCEPT ![path[a]] = NoOwner] ELSE paths
    BY <1>4 DEF RollbackAdmission
  <2>2. \A p \in Paths : paths[p] = a => p = path[a]
    OBVIOUS
  <2> QED
    BY <2>1, <2>2
<1>5. ASSUME NEW a \in Agents, Restore(a)
      PROVE  PathOwnership'
  <2>1. ASSUME NEW s \in Restorable, RestoreExisting(a, s)
        PROVE  PathOwnership'
    BY <2>1 DEF RestoreExisting
  <2>2. ASSUME NEW s \in Restorable, NEW p \in Agents \cup {Root}, NEW pth \in Paths,
               NEW d \in 1..MaxDepth, RestoreMissing(a, p, pth, d, s)
        PROVE  PathOwnership'
    <3>1. /\ a \notin agents /\ paths[pth] = NoOwner
          /\ agents' = agents \cup {a}
          /\ path' = [path EXCEPT ![a] = pth]
          /\ paths' = IF pth = RootPath THEN paths ELSE [paths EXCEPT ![pth] = a]
      BY <2>2 DEF RestoreMissing
    <3> QED
      BY <3>1
  <2> QED
    BY <1>5, <2>1, <2>2 DEF Restore
<1> QED
  BY <1>1, <1>2, <1>3, <1>4, <1>5, PathStepKinds

\* A registered child owns its task path alone, and no path leads to a child
\* that is gone, whatever spawners, rollbacks, restorations and resets do.
THEOREM PathsOwned == Spec => []PathOwnership
<1>1. Init => PathOwnership
  BY DEF Init, PathOwnership
<1>2. TypeOK /\ PathOwnership /\ [Next]_vars => PathOwnership'
  BY PathOwnershipStep
<1> QED
  BY <1>1, <1>2, TypeCorrect, PTL DEF Spec

-----------------------------------------------------------------------------
(* Slots and the threads that drive them                                   *)

\* A thread between taking work and being done with it.
Working == {"reset", "run", "commit", "resolve", "step", "publish", "finish"}

\* A thread in place q fits a record of tag g that is (not) being prepared.
FitsAt(q, g, preparing) ==
    /\ q \in Working => g \in {"running", "interrupting", "closed"}
    /\ q = "await" => g \in {"idle", "pending", "closed"}
    /\ q = "exited" => g = "closed"
    /\ q = "none" => g = "closed" \/ (preparing /\ g \in {"idle", "pending"})
Fits(a) == FitsAt(sup[a], phase[a].tag, a \in prep)

\* The registry is stopped, or being stopped.
Ended == stopped \/ op.kind = "stop"

\* Every supervisor fits its record until the registry is stopped; ids that
\* were not handed out have none, and a shutdown kills the supervisors of
\* closed records only.
ThreadInvariant ==
    /\ \A a \in Agents \ used : sup[a] = "none"
    /\ op.kind \in Shutting =>
         \A a \in Agents : stage[a] = "waiting" => phase[a].tag = "closed"
    /\ Ended \/ \A a \in Agents : Fits(a)

\* A record is interrupting only while the operation that interrupts it waits
\* for its turn to end.
InterruptionIsLocked ==
    \A a \in Agents : phase[a].tag = "interrupting" =>
        op.kind \in {"abort", "interruptAll"} /\ stage[a] \in {"cancelling", "waiting"}

\* A shutdown that waits for a thread has closed its record.
WaitersKept ==
    op'.kind \in Shutting =>
        \A b \in Agents : stage'[b] = "waiting" =>
            \/ op.kind \in Shutting /\ stage[b] = "waiting"
            \/ phase'[b].tag = "closed"

\* Only shutdownRecord waits for a thread under one of the closing operations.
LEMMA WaitersStep ==
    ASSUME TypeOK, [Next]_vars
    PROVE  WaitersKept
<1> USE DEF TypeOK, WaitersKept, Shutting
<1>1. CASE UNCHANGED <<op, stage>>
  BY <1>1
<1>2. ASSUME op'.kind \notin Shutting \/ (\A b \in Agents : stage'[b] # "waiting")
      PROVE  WaitersKept
  BY <1>2
<1>3. ASSUME NEW S, NEW o, NEW first \in {"todo", "ready"}, Lock(o, S, first)
      PROVE  WaitersKept
  <2>1. \A b \in Agents : stage'[b] # "waiting"
    BY <1>3 DEF Lock
  <2> QED
    BY <1>2, <2>1
<1>4. ASSUME Unlock
      PROVE  WaitersKept
  BY <1>2, <1>4 DEF Unlock, NoOp
<1>5. ASSUME NEW b \in Agents, NEW to, Move(b, to), op.kind \notin Shutting \/ to # "waiting"
      PROVE  WaitersKept
  BY <1>5 DEF Move
<1>6. ASSUME NEW b \in Agents, Spawning(b) \/ Starting(b) \/ Supervise(b) \/ Steer(b)
      PROVE  UNCHANGED <<op, stage>>
  BY <1>6 DEF Spawning, Spawn, Starting, StartSupervisor, RollbackAdmission, SpawnerKilled,
              Supervise, TakeStartedWork, ResetCancel, RunReturns, RunCancelled,
              CommitSuspension, ResolveStatus, NextStep, Publish, Finish,
              Steer, SteerAcquire, SteerCommit, SteerRelease, lockVars
<1>7. ASSUME NEW b \in Agents, Messages(b) \/ Suspending(b)
      PROVE  WaitersKept
  BY <1>1, <1>3, <1>4, <1>5, <1>7
     DEF Messages, QueueMessage, SendInput, SendQueue, SendRestart, Suspending,
         RequestSuspension, SendResume, ResumeDueRecord, ResumeSchedule, lockVars
<1>8. ASSUME NEW b \in Agents, Interrupts(b)
      PROVE  WaitersKept
  BY <1>1, <1>3, <1>4, <1>5, <1>8
     DEF Interrupts, InterruptSubagent, CancelSuspension, InterruptOne, InterruptForTurn,
         InterruptRecord, RequestCancel, SlotReleased
<1>9. ASSUME NEW b \in Agents, Shutdown(b) \/ StopRecord(b)
      PROVE  WaitersKept
  <2>1. CASE CloseSubagent(b) \/ ShutdownStop(b) \/ StopRecord(b)
    BY <1>3, <1>4, <1>5, <2>1 DEF CloseSubagent, ShutdownStop, StopRecord
  <2>2. CASE ShutdownCancel(b)
    BY <2>2 DEF ShutdownCancel
  <2>3. CASE ShutdownClose(b)
    BY <2>3 DEF ShutdownClose, Move, ClosedPhase
  <2> QED
    BY <1>9, <2>1, <2>2, <2>3 DEF Shutdown
<1>10. ASSUME NEW b \in Agents, Restore(b)
       PROVE  UNCHANGED <<op, stage>>
  BY <1>10 DEF Restore, RestoreExisting, RestoreMissing, lockVars
<1>11. CASE RegistryWide
  BY <1>1, <1>3, <1>4, <1>11
     DEF RegistryWide, ResumeDue, InterruptActive, InterruptDone, AbortRootTurn, CloseRegistry,
         CloseDone, ResetDone, StopRegistry, StopDone, SetMaxConcurrent, lockVars
<1>12. CASE UNCHANGED vars
  BY <1>1, <1>12 DEF vars, lockVars
<1> QED
  BY <1>1, <1>6, <1>7, <1>8, <1>9, <1>10, <1>11, <1>12, NextCases

\* One record and its thread move on together.
LEMMA RecordMoves ==
    ASSUME TypeOK, ThreadInvariant, NEW a \in Agents, NEW q, NEW r,
           sup' = [sup EXCEPT ![a] = q], phase' = [phase EXCEPT ![a] = r],
           used \subseteq used', WaitersKept, Ended => Ended',
           \A b \in prep \ prep' : b = a,
           a \in used' \/ q = "none",
           op'.kind \in Shutting /\ phase[a].tag = "closed" => r.tag = "closed",
           FitsAt(sup[a], phase[a].tag, a \in prep) => FitsAt(q, r.tag, (a \in prep)')
    PROVE  ThreadInvariant'
<1>1. /\ sup'[a] = q /\ phase'[a] = r
      /\ \A b \in Agents \ {a} : sup'[b] = sup[b] /\ phase'[b] = phase[b]
  BY DEF TypeOK
<1>2. Fits(a) => Fits(a)'
  BY <1>1 DEF Fits
<1>3. \A b \in Agents \ {a} : Fits(b) => Fits(b)'
  BY <1>1 DEF Fits, FitsAt
<1>4. \A b \in Agents \ used' : sup'[b] = "none"
  BY <1>1 DEF ThreadInvariant
<1>5. op'.kind \in Shutting =>
        \A b \in Agents : stage'[b] = "waiting" => phase'[b].tag = "closed"
  BY <1>1 DEF ThreadInvariant, WaitersKept
<1> QED
  BY <1>2, <1>3, <1>4, <1>5 DEF ThreadInvariant

\* A supervisor's step takes its record from one fitting state to another.
LEMMA SuperviseFits ==
    ASSUME TypeOK, ThreadInvariant, NEW a \in Agents, Supervise(a)
    PROVE  ThreadInvariant'
<1>a. sup[a] # "none"
  BY DEF Supervise, TakeStartedWork, ResetCancel, RunReturns, RunCancelled, CommitSuspension,
         ResolveStatus, NextStep, Publish, Finish, At
<1>b. a \in used
  BY <1>a DEF ThreadInvariant
<1>c. UNCHANGED <<used, prep, op, stage, stopped>>
  BY DEF Supervise, TakeStartedWork, ResetCancel, RunReturns, RunCancelled, CommitSuspension,
         ResolveStatus, NextStep, Publish, Finish, identVars, lockVars, limitVars
<1>d. ASSUME NEW q, NEW r, GoTo(a, q), phase' = [phase EXCEPT ![a] = r],
             phase[a].tag = "closed" => r.tag = "closed",
             FitsAt(sup[a], phase[a].tag, a \in prep) => FitsAt(q, r.tag, a \in prep)
      PROVE  ThreadInvariant'
  <2>1. WaitersKept /\ (Ended => Ended')
    BY <1>c, WaitersStep, NextCases DEF Ended
  <2> QED
    BY <1>b, <1>c, <1>d, <2>1, RecordMoves DEF GoTo
<1>e. ASSUME NEW q \in Working, sup[a] \in Working, GoTo(a, q), UNCHANGED phase
      PROVE  ThreadInvariant'
  <2>1. phase' = [phase EXCEPT ![a] = phase[a]]
    BY <1>e DEF TypeOK
  <2>2. FitsAt(sup[a], phase[a].tag, a \in prep) => FitsAt(q, phase[a].tag, a \in prep)
    BY <1>e DEF FitsAt, Working
  <2> QED
    BY <1>d, <1>e, <2>1, <2>2
<1>1. CASE TakeStartedWork(a)
  <2>1. CASE phase[a].tag = "closed" /\ GoTo(a, "exited") /\ UNCHANGED phase
    <3>1. phase' = [phase EXCEPT ![a] = phase[a]]
      BY <2>1 DEF TypeOK
    <3> QED
      BY <1>d, <2>1, <3>1 DEF FitsAt, Working
  <2>2. CASE phase' = [phase EXCEPT ![a] = Running(phase[a].turn)] /\ GoTo(a, "reset")
             /\ phase[a].tag = "pending"
    BY <1>d, <2>2 DEF FitsAt, Running, Working
  <2> QED
    BY <1>1, <2>1, <2>2 DEF TakeStartedWork
<1>2. CASE ResetCancel(a) \/ RunReturns(a) \/ RunCancelled(a) \/ CommitSuspension(a)
           \/ ResolveStatus(a) \/ Publish(a)
  <2>1. sup[a] \in Working /\ UNCHANGED phase /\ \E q \in Working : GoTo(a, q)
    BY <1>2 DEF ResetCancel, RunReturns, RunCancelled, CommitSuspension, ResolveStatus,
                Publish, At, Working
  <2> QED
    BY <1>e, <2>1
<1>3. ASSUME sup[a] \in Working,
             SupervisorStep(a, Complete(a))
             \/ SupervisorStep(a, ToIdle(a, outcome[a]) /\ GoTo(a, "await") /\ UNCHANGED mailbox)
      PROVE  ThreadInvariant'
  <2>1. CASE phase[a].tag = "closed" /\ GoTo(a, "exited") /\ UNCHANGED phase
    <3>1. phase' = [phase EXCEPT ![a] = phase[a]]
      BY <2>1 DEF TypeOK
    <3> QED
      BY <1>d, <2>1, <3>1 DEF FitsAt, Working
  <2>2. ASSUME NEW s, phase' = [phase EXCEPT ![a] = Idle(s, NoTurn)], GoTo(a, "await"),
               phase[a].tag # "closed"
        PROVE  ThreadInvariant'
    BY <1>d, <2>2 DEF FitsAt, Idle, Working
  <2>3. ASSUME NEW t, phase' = [phase EXCEPT ![a] = Running(t)], GoTo(a, "reset"),
               phase[a].tag # "closed"
        PROVE  ThreadInvariant'
    BY <1>d, <2>3 DEF FitsAt, Running, Working
  <2>4. CASE phase[a].tag = "idle" /\ GoTo(a, "await") /\ UNCHANGED phase
    <3>1. phase' = [phase EXCEPT ![a] = phase[a]]
      BY <2>4 DEF TypeOK
    <3> QED
      BY <1>d, <2>4, <3>1 DEF FitsAt, Working
  <2>5. CASE Complete(a)
    <3>1. GoTo(a, "publish") /\ UNCHANGED phase
      BY <2>5 DEF Complete
    <3> QED
      BY <1>3, <1>e, <3>1 DEF Working
  <2> QED
    BY <1>3, <2>1, <2>2, <2>3, <2>4, <2>5 DEF SupervisorStep, ToIdle
<1>4. CASE NextStep(a)
  <2>1. sup[a] \in Working /\ (Complete(a) \/ SupervisorStep(a, Complete(a)))
    BY <1>4 DEF NextStep, At, Working
  <2>2. Complete(a) => GoTo(a, "publish") /\ UNCHANGED phase
    BY DEF Complete
  <2> QED
    BY <1>3, <1>e, <2>1, <2>2 DEF Working
<1>5. CASE Finish(a)
  <2>1. sup[a] \in Working
    BY <1>5 DEF Finish, At, Working
  <2>2. CASE phase[a].tag = "running" /\ ToIdle(a, "suspended") /\ GoTo(a, "await")
    <3>1. phase' = [phase EXCEPT ![a] = Idle("suspended", NoTurn)]
      BY <2>2 DEF ToIdle
    <3> QED
      BY <1>d, <2>1, <2>2, <3>1 DEF FitsAt, Idle, Working
  <2>3. CASE SupervisorStep(a, ToIdle(a, outcome[a]) /\ GoTo(a, "await") /\ UNCHANGED mailbox)
    BY <1>3, <2>1, <2>3
  <2> QED
    BY <1>5, <2>2, <2>3 DEF Finish
<1> QED
  BY <1>1, <1>2, <1>4, <1>5 DEF Supervise
\* A step that leaves phases and threads alone.
LEMMA ThreadsUntouched ==
    ASSUME TypeOK, ThreadInvariant, WaitersKept, Ended => Ended', UNCHANGED <<used, prep, phase, sup>>
    PROVE  ThreadInvariant'
BY DEF ThreadInvariant, WaitersKept, Fits, FitsAt

\* A step that changes the phase of a record whose thread stays where it is.
LEMMA PhaseMoves ==
    ASSUME TypeOK, ThreadInvariant, NEW a \in Agents, NEW r,
           phase' = [phase EXCEPT ![a] = r], UNCHANGED <<used, prep, sup>>,
           WaitersKept, Ended => Ended',
           op'.kind \in Shutting /\ phase[a].tag = "closed" => r.tag = "closed",
           \/ r.tag = "closed"
           \/ phase[a].tag \in {"idle", "pending"} /\ r.tag \in {"idle", "pending"}
           \/ phase[a].tag \in {"running", "interrupting"} /\ r.tag \in {"running", "interrupting"}
    PROVE  ThreadInvariant'
<1>1. sup' = [sup EXCEPT ![a] = sup[a]]
  BY DEF TypeOK
<1>2. a \in used' \/ sup[a] = "none"
  BY DEF ThreadInvariant
<1>3. FitsAt(sup[a], phase[a].tag, a \in prep) => FitsAt(sup[a], r.tag, (a \in prep)')
  BY DEF FitsAt, Working
<1> QED
  BY <1>1, <1>2, <1>3, RecordMoves

\* Only the end of a reset revives a stopped registry.
LEMMA EndedStays ==
    ASSUME TypeOK, [Next]_vars, ~ResetDone
    PROVE  Ended => Ended'
<1> USE DEF Ended
<1>1. CASE UNCHANGED <<op, stopped>>
  BY <1>1
<1>2. CASE stopped \/ op.kind # "stop"
  <2>1. UNCHANGED stopped \/ stopped'
    <3>1. ASSUME NEW a \in Agents, Spawning(a) \/ Starting(a) \/ Supervise(a) \/ Steer(a)
          PROVE  UNCHANGED stopped
      BY <3>1 DEF Spawning, Spawn, Starting, StartSupervisor, RollbackAdmission, SpawnerKilled,
                  Supervise, TakeStartedWork, ResetCancel, RunReturns, RunCancelled,
                  CommitSuspension, ResolveStatus, NextStep, Publish, Finish,
                  Steer, SteerAcquire, SteerCommit, SteerRelease, limitVars
    <3>2. ASSUME NEW a \in Agents, Messages(a) \/ Suspending(a) \/ Interrupts(a)
          PROVE  UNCHANGED stopped
      BY <3>2 DEF Messages, QueueMessage, SendInput, SendQueue, SendRestart, Suspending,
                  RequestSuspension, SendResume, ResumeDueRecord, ResumeSchedule, Interrupts,
                  InterruptSubagent, CancelSuspension, InterruptOne, InterruptForTurn,
                  InterruptRecord, RequestCancel, SlotReleased, limitVars
    <3>3. ASSUME NEW a \in Agents, Shutdown(a) \/ StopRecord(a) \/ Restore(a)
          PROVE  UNCHANGED stopped
      BY <3>3 DEF Shutdown, CloseSubagent, ShutdownCancel, ShutdownClose, ShutdownStop,
                  StopRecord, Restore, RestoreExisting, RestoreMissing, limitVars
    <3>4. CASE RegistryWide
      BY <3>4 DEF RegistryWide, ResumeDue, InterruptActive, InterruptDone, AbortRootTurn,
                  CloseRegistry, CloseDone, StopRegistry, StopDone, SetMaxConcurrent, limitVars
    <3>5. CASE UNCHANGED vars
      BY <3>5 DEF vars, limitVars
    <3> QED
      BY <3>1, <3>2, <3>3, <3>4, <3>5, NextCases
  <2> QED
    BY <1>2, <2>1
<1>3. CASE op.kind = "stop"
  <2>1. ASSUME NEW a \in Agents, Spawning(a) \/ Starting(a) \/ Supervise(a) \/ Steer(a)
        PROVE  UNCHANGED <<op, stopped>>
    BY <2>1 DEF Spawning, Spawn, Starting, StartSupervisor, RollbackAdmission, SpawnerKilled,
                Supervise, TakeStartedWork, ResetCancel, RunReturns, RunCancelled,
                CommitSuspension, ResolveStatus, NextStep, Publish, Finish,
                Steer, SteerAcquire, SteerCommit, SteerRelease, limitVars, lockVars
  <2>2. ASSUME NEW a \in Agents, Messages(a) \/ Suspending(a) \/ Interrupts(a)
        PROVE  FALSE
    BY <1>3, <2>2
       DEF Messages, QueueMessage, SendInput, SendQueue, SendRestart, Suspending,
           RequestSuspension, SendResume, ResumeDueRecord, ResumeSchedule, Interrupts,
           InterruptSubagent, CancelSuspension, InterruptOne, InterruptForTurn,
           InterruptRecord, RequestCancel, SlotReleased, Free
  <2>3. ASSUME NEW a \in Agents, Shutdown(a) \/ StopRecord(a) \/ Restore(a)
        PROVE  UNCHANGED <<op, stopped>>
    BY <1>3, <2>3
       DEF Shutdown, CloseSubagent, ShutdownCancel, ShutdownClose, ShutdownStop, Shutting, Free,
           StopRecord, Move, Restore, RestoreExisting, RestoreMissing, limitVars
  <2>4. CASE RegistryWide
    BY <1>3, <2>4
       DEF RegistryWide, ResumeDue, InterruptActive, InterruptDone, AbortRootTurn, CloseRegistry,
           CloseDone, StopRegistry, StopDone, SetMaxConcurrent, Free, lockVars
  <2>5. CASE UNCHANGED vars
    BY <2>5 DEF vars, limitVars, lockVars
  <2> QED
    BY <1>1, <2>1, <2>2, <2>3, <2>4, <2>5, NextCases
<1> QED
  BY <1>2, <1>3
\* Admission and the start of a supervisor.
LEMMA StartingFits ==
    ASSUME TypeOK, ThreadInvariant, WaitersKept, Ended => Ended',
           NEW a \in Agents, Spawning(a) \/ Starting(a)
    PROVE  ThreadInvariant'
<1>1. CASE Spawning(a)
  <2>1. PICK p \in Agents \cup {Root}, t \in TurnOpt, pth \in Paths : Spawn(a, p, t, pth)
    BY <1>1 DEF Spawning
  <2>2. /\ Free /\ a \notin used /\ used' = used \cup {a} /\ prep' = prep \cup {a}
        /\ phase' = [phase EXCEPT ![a] = Pending(t)] /\ sup' = sup /\ op' = op
    BY <2>1 DEF Spawn, supVars, lockVars
  <2>3. sup[a] = "none" /\ sup' = [sup EXCEPT ![a] = "none"]
    BY <2>2 DEF ThreadInvariant, TypeOK
  <2>4. FitsAt("none", Pending(t).tag, (a \in prep)') /\ op'.kind \notin Shutting
    BY <2>2 DEF FitsAt, Working, Pending, Free, Shutting
  <2> QED
    BY <2>2, <2>3, <2>4, RecordMoves
<1>2. CASE StartSupervisor(a)
  <2>1. /\ sup' = [sup EXCEPT ![a] = "await"] /\ sup[a] = "none"
        /\ prep' = prep \ {a} /\ UNCHANGED <<used, phase, op>> /\ a \in used
    BY <1>2 DEF StartSupervisor, StartAllowed, identVars, lockVars, TypeOK
  <2>2. phase' = [phase EXCEPT ![a] = phase[a]]
    BY <2>1 DEF TypeOK
  <2>3. FitsAt(sup[a], phase[a].tag, a \in prep)
          => FitsAt("await", phase[a].tag, (a \in prep)')
    BY <2>1 DEF FitsAt, Working
  <2> QED
    BY <2>1, <2>2, <2>3, RecordMoves
<1>3. CASE RollbackAdmission(a)
  <2>1. /\ sup' = [sup EXCEPT ![a] = "none"] /\ phase' = [phase EXCEPT ![a] = ClosedPhase]
        /\ prep' = prep \ {a} /\ UNCHANGED used
    BY <1>3 DEF RollbackAdmission, Killed
  <2>2. ClosedPhase.tag = "closed" /\ FitsAt("none", ClosedPhase.tag, (a \in prep)')
    BY DEF FitsAt, Working, ClosedPhase
  <2> QED
    BY <2>1, <2>2, RecordMoves
<1>4. CASE SpawnerKilled(a)
  <2>1. phase' = [phase EXCEPT ![a] = ClosedPhase] /\ UNCHANGED <<used, prep, sup>>
    BY <1>4 DEF SpawnerKilled, identVars, supVars
  <2>2. ClosedPhase.tag = "closed"
    BY DEF ClosedPhase
  <2> QED
    BY <2>1, <2>2, PhaseMoves
<1> QED
  BY <1>1, <1>2, <1>3, <1>4 DEF Starting

\* Steering, messages and resumption: idle work becomes pending.
LEMMA MessagesFit ==
    ASSUME TypeOK, ThreadInvariant, WaitersKept, Ended => Ended',
           NEW a \in Agents, Steer(a) \/ Messages(a) \/ Suspending(a)
    PROVE  ThreadInvariant'
<1>1. UNCHANGED <<used, prep, sup>>
  BY DEF Steer, SteerAcquire, SteerCommit, SteerRelease, Messages, QueueMessage, SendInput,
         SendQueue, SendRestart, Suspending, RequestSuspension, SendResume, ResumeDueRecord,
         ResumeSchedule, identVars, supVars
<1>2. UNCHANGED phase \/ \E t : phase[a].tag = "idle" /\ phase' = [phase EXCEPT ![a] = Pending(t)]
  BY DEF Steer, SteerAcquire, SteerCommit, SteerRelease, Messages, QueueMessage, SendInput,
         SendQueue, SendRestart, Suspending, RequestSuspension, SendResume, ResumeDueRecord,
         ResumeSchedule, Schedulable, Schedule
<1>3. ASSUME NEW t, phase[a].tag = "idle", phase' = [phase EXCEPT ![a] = Pending(t)]
      PROVE  ThreadInvariant'
  <2>1. Pending(t).tag = "pending"
    BY DEF Pending
  <2> QED
    BY <1>1, <1>3, <2>1, PhaseMoves
<1> QED
  BY <1>1, <1>2, <1>3, ThreadsUntouched

\* Interruption: pending work settles, running work is marked.
LEMMA InterruptsFit ==
    ASSUME TypeOK, ThreadInvariant, WaitersKept, Ended => Ended',
           NEW a \in Agents, Interrupts(a)
    PROVE  ThreadInvariant'
<1>1. UNCHANGED <<used, prep, sup>>
  BY DEF Interrupts, InterruptSubagent, CancelSuspension, InterruptOne, InterruptForTurn,
         InterruptRecord, RequestCancel, SlotReleased, identVars, supVars
<1>2. \/ UNCHANGED phase
      \/ \E s, t : /\ phase[a].tag \in {"idle", "pending"}
                   /\ phase' = [phase EXCEPT ![a] = Idle(s, t)]
      \/ \E t : phase[a].tag = "pending" /\ phase' = [phase EXCEPT ![a] = Pending(t)]
      \/ \E t : /\ phase[a].tag \in {"running", "interrupting"}
                /\ phase' = [phase EXCEPT ![a] = Interrupting(t)]
  <2>1. CASE InterruptOne(a)
    BY <2>1 DEF InterruptOne
  <2>2. CASE InterruptForTurn(a)
    BY <2>2 DEF InterruptForTurn
  <2>3. CASE InterruptRecord(a)
    BY <2>3 DEF InterruptRecord, ToIdle
  <2> QED
    BY <2>1, <2>2, <2>3
       DEF Interrupts, InterruptSubagent, CancelSuspension, RequestCancel, SlotReleased
<1>3. ASSUME NEW s, NEW t, phase[a].tag \in {"idle", "pending"},
             phase' = [phase EXCEPT ![a] = Idle(s, t)]
      PROVE  ThreadInvariant'
  <2>1. Idle(s, t).tag = "idle"
    BY DEF Idle
  <2> QED
    BY <1>1, <1>3, <2>1, PhaseMoves
<1>4. ASSUME NEW t, phase[a].tag = "pending", phase' = [phase EXCEPT ![a] = Pending(t)]
      PROVE  ThreadInvariant'
  <2>1. Pending(t).tag = "pending"
    BY DEF Pending
  <2> QED
    BY <1>1, <1>4, <2>1, PhaseMoves
<1>5. ASSUME NEW t, phase[a].tag \in {"running", "interrupting"},
             phase' = [phase EXCEPT ![a] = Interrupting(t)]
      PROVE  ThreadInvariant'
  <2>1. Interrupting(t).tag = "interrupting"
    BY DEF Interrupting
  <2> QED
    BY <1>1, <1>5, <2>1, PhaseMoves
<1> QED
  BY <1>1, <1>2, <1>3, <1>4, <1>5, ThreadsUntouched

\* A shutdown closes a record before it kills the thread; a stop kills threads
\* of a registry that is never used again.
LEMMA ShutdownFits ==
    ASSUME TypeOK, ThreadInvariant, WaitersKept, Ended => Ended',
           NEW a \in Agents, Shutdown(a) \/ StopRecord(a)
    PROVE  ThreadInvariant'
<1>1. CASE CloseSubagent(a) \/ ShutdownCancel(a)
  BY <1>1, ThreadsUntouched DEF CloseSubagent, ShutdownCancel, identVars, supVars
<1>2. CASE ShutdownClose(a)
  <2>1. phase' = [phase EXCEPT ![a] = ClosedPhase] /\ UNCHANGED <<used, prep, sup>>
    BY <1>2 DEF ShutdownClose, identVars, supVars
  <2>2. ClosedPhase.tag = "closed"
    BY DEF ClosedPhase
  <2> QED
    BY <2>1, <2>2, PhaseMoves
<1>3. CASE ShutdownStop(a)
  <2>1. /\ sup' = [sup EXCEPT ![a] = "none"] /\ UNCHANGED <<used, prep, phase>>
        /\ phase[a].tag = "closed"
    BY <1>3 DEF ShutdownStop, Killed, identVars, ThreadInvariant
  <2>2. phase' = [phase EXCEPT ![a] = phase[a]] /\ FitsAt("none", phase[a].tag, (a \in prep)')
    BY <2>1 DEF FitsAt, Working, TypeOK
  <2> QED
    BY <2>1, <2>2, RecordMoves
<1>4. CASE StopRecord(a)
  <2>1. /\ sup' = [sup EXCEPT ![a] = "none"] /\ UNCHANGED <<used, prep, phase>>
        /\ Ended
    BY <1>4 DEF StopRecord, Killed, identVars, Ended
  <2>2. \A b \in Agents \ used' : sup'[b] = "none"
    BY <2>1 DEF ThreadInvariant, TypeOK
  <2> QED
    BY <2>1, <2>2 DEF ThreadInvariant, WaitersKept
<1> QED
  BY <1>1, <1>2, <1>3, <1>4 DEF Shutdown

\* Operations on the whole registry leave threads and phases alone; a reset that
\* is done has closed every record.
LEMMA RegistryWideFits ==
    ASSUME TypeOK, ThreadInvariant, SlotInvariant, WaitersKept, ResetDone \/ (Ended => Ended'),
           RegistryWide
    PROVE  ThreadInvariant'
<1>1. UNCHANGED <<used, prep, phase, sup>>
  BY DEF RegistryWide, ResumeDue, InterruptActive, InterruptDone, AbortRootTurn, CloseRegistry,
         CloseDone, ResetDone, StopRegistry, StopDone, SetMaxConcurrent, identVars, supVars
<1>2. CASE ResetDone
  <2>1. \A a \in Agents : phase[a].tag = "closed"
    <3>1. \A a \in Agents : stage[a] = "none"
      BY <1>2 DEF ResetDone, Drained, NoStage
    <3> QED
      BY <1>2, <3>1 DEF ResetDone, SlotInvariant
  <2>2. \A a \in Agents : Fits(a)'
    BY <1>1, <2>1 DEF Fits, FitsAt, Working
  <2> QED
    BY <1>1, <2>2 DEF ThreadInvariant, WaitersKept
<1> QED
  BY <1>1, <1>2, ThreadsUntouched
\* The status of a phase that is not idle is the one its tag stands for, and a
\* closed child works for no turn.
Matches(r) ==
    /\ r.tag = "closed" => r.status = "closed" /\ r.turn = NoTurn
    /\ r.tag = "pending" => r.status = "pending"
    /\ r.tag = "running" => r.status = "running"
    /\ r.tag = "interrupting" => r.status = "interrupted"
StatusMatches == \A a \in Agents : Matches(phase[a])

\* The phases the code constructs.
Built(r) ==
    \/ r = ClosedPhase \/ \E s, t : r = Idle(s, t)
    \/ \E t : r = Pending(t) \/ r = Running(t) \/ r = Interrupting(t)

\* Each of them has the status of its tag.
LEMMA BuiltMatches ==
    ASSUME NEW r, Built(r)
    PROVE  Matches(r)
BY DEF Built, Matches, ClosedPhase, Idle, Pending, Running, Interrupting

\* Every step writes one phase at most, and one the code constructs.
LEMMA PhaseWritten ==
    ASSUME TypeOK, [Next]_vars
    PROVE  \/ UNCHANGED phase
           \/ \E a \in Agents : \E r : Built(r) /\ phase' = [phase EXCEPT ![a] = r]
<1> DEFINE Writes(a) == \E r : Built(r) /\ phase' = [phase EXCEPT ![a] = r]
<1>1. \A s, t : Built(Idle(s, t)) /\ Built(Pending(t)) /\ Built(Running(t))
                /\ Built(Interrupting(t)) /\ Built(ClosedPhase)
  BY DEF Built
<1>2. ASSUME NEW a \in Agents, Spawning(a) \/ Starting(a)
      PROVE  UNCHANGED phase \/ Writes(a)
  BY <1>1, <1>2 DEF Spawning, Spawn, Starting, StartSupervisor, RollbackAdmission, SpawnerKilled
<1>3. ASSUME NEW a \in Agents, Supervise(a)
      PROVE  UNCHANGED phase \/ Writes(a)
  <2>1. CASE NextStep(a)
    BY <1>1, <2>1 DEF NextStep, SupervisorStep, Complete, ToIdle
  <2>2. CASE Finish(a)
    BY <1>1, <2>2 DEF Finish, SupervisorStep, ToIdle
  <2> QED
    BY <1>1, <1>3, <2>1, <2>2
       DEF Supervise, TakeStartedWork, ResetCancel, RunReturns, RunCancelled, CommitSuspension,
           ResolveStatus, Publish
<1>4. ASSUME NEW a \in Agents, Steer(a) \/ Messages(a) \/ Suspending(a)
      PROVE  UNCHANGED phase \/ Writes(a)
  BY <1>1, <1>4
     DEF Steer, SteerAcquire, SteerCommit, SteerRelease, Messages, QueueMessage, SendInput,
         SendQueue, SendRestart, Suspending, RequestSuspension, SendResume, ResumeDueRecord,
         ResumeSchedule, Schedule
<1>5. ASSUME NEW a \in Agents, Interrupts(a)
      PROVE  UNCHANGED phase \/ Writes(a)
  BY <1>1, <1>5
     DEF Interrupts, InterruptSubagent, CancelSuspension, InterruptOne, InterruptForTurn,
         InterruptRecord, RequestCancel, SlotReleased, ToIdle
<1>6. ASSUME NEW a \in Agents, Shutdown(a) \/ StopRecord(a)
      PROVE  UNCHANGED phase \/ Writes(a)
  BY <1>1, <1>6
     DEF Shutdown, CloseSubagent, ShutdownCancel, ShutdownClose, ShutdownStop, StopRecord
<1>7. ASSUME NEW a \in Agents, Restore(a)
      PROVE  UNCHANGED phase \/ Writes(a)
  BY <1>1, <1>7 DEF Restore, RestoreExisting, RestoreMissing
<1>8. CASE RegistryWide
  BY <1>8 DEF RegistryWide, ResumeDue, InterruptActive, InterruptDone, AbortRootTurn,
              CloseRegistry, CloseDone, ResetDone, StopRegistry, StopDone, SetMaxConcurrent
<1>9. CASE UNCHANGED vars
  BY <1>9 DEF vars
<1> QED
  BY <1>2, <1>3, <1>4, <1>5, <1>6, <1>7, <1>8, <1>9, NextCases

\* So statuses match their tags throughout.
LEMMA StatusStep ==
    ASSUME TypeOK, StatusMatches, [Next]_vars
    PROVE  StatusMatches'
<1>1. CASE UNCHANGED phase
  BY <1>1 DEF StatusMatches
<1>2. ASSUME NEW a \in Agents, NEW r, Built(r), phase' = [phase EXCEPT ![a] = r]
      PROVE  StatusMatches'
  BY <1>2, BuiltMatches DEF StatusMatches, TypeOK
<1> QED
  BY <1>1, <1>2, PhaseWritten

\* A record that is not interrupting is restored to a fitting phase: its thread
\* is idle, or it is given one.
LEMMA RestoreFits ==
    ASSUME TypeOK, ThreadInvariant, StatusMatches, InterruptionIsLocked, WaitersKept,
           Ended => Ended', NEW a \in Agents, Restore(a)
    PROVE  ThreadInvariant'
<1>1. ASSUME NEW s \in Restorable, RestoreExisting(a, s)
      PROVE  ThreadInvariant'
  <2>1. /\ Free /\ UNCHANGED <<used, prep, op>> /\ a \in used
        /\ phase[a].status \notin {"running", "pending"}
    BY <1>1 DEF RestoreExisting, lockVars, TypeOK
  <2>2. op'.kind \notin Shutting
    BY <2>1 DEF Free, Shutting
  <2>3. phase[a].tag \in {"idle", "closed"}
    BY <2>1 DEF Free, InterruptionIsLocked, StatusMatches, Matches, TypeOK, Phases, Tags
  <2>4. CASE Reopens(a, s)
    <3>1. /\ phase' = [phase EXCEPT ![a] = Idle(Normalized(s), NoTurn)]
          /\ sup' = [sup EXCEPT ![a] = "await"]
      BY <1>1, <2>4 DEF RestoreExisting, Reopens
    <3>2. FitsAt("await", Idle(Normalized(s), NoTurn).tag, (a \in prep)')
      BY DEF FitsAt, Idle, Working
    <3> QED
      BY <2>1, <2>2, <3>1, <3>2, RecordMoves
  <2>5. CASE ~Reopens(a, s)
    <3>1. UNCHANGED sup
      BY <1>1, <2>5 DEF RestoreExisting, TypeOK
    <3>2. phase[a].tag = "closed" => phase[a].status = "closed"
      BY DEF StatusMatches, Matches
    <3>3. \/ phase' = [phase EXCEPT ![a] = ClosedPhase]
          \/ phase[a].tag # "closed" /\ phase' = [phase EXCEPT ![a] = Idle(Normalized(s), NoTurn)]
      BY <1>1, <2>5, <3>2 DEF RestoreExisting
    <3>4. ClosedPhase.tag = "closed" /\ Idle(Normalized(s), NoTurn).tag = "idle"
      BY DEF ClosedPhase, Idle
    <3> QED
      BY <2>1, <2>2, <2>3, <3>1, <3>3, <3>4, PhaseMoves
  <2> QED
    BY <2>4, <2>5
<1>2. ASSUME NEW s \in Restorable, NEW p \in Agents \cup {Root}, NEW pth \in Paths,
             NEW d \in 1..MaxDepth, RestoreMissing(a, p, pth, d, s)
      PROVE  ThreadInvariant'
  <2>1. /\ Free /\ UNCHANGED <<prep, op>> /\ used' = used \cup {a}
        /\ phase' = [phase EXCEPT ![a] = Idle(Normalized(s), NoTurn)]
        /\ sup' = [sup EXCEPT ![a] = "await"]
    BY <1>2 DEF RestoreMissing, lockVars
  <2>2. op'.kind \notin Shutting
    BY <2>1 DEF Free, Shutting
  <2>3. FitsAt("await", Idle(Normalized(s), NoTurn).tag, (a \in prep)')
    BY DEF FitsAt, Idle, Working
  <2> QED
    BY <2>1, <2>2, <2>3, RecordMoves
<1> QED
  BY <1>1, <1>2 DEF Restore
\* Records become interrupting by interruptRecord and interruptRecordForTurn only.
LEMMA NewlyInterrupting ==
    ASSUME TypeOK, [Next]_vars, NEW b \in Agents, phase'[b].tag = "interrupting"
    PROVE  phase[b].tag = "interrupting" \/ InterruptForTurn(b) \/ InterruptRecord(b)
<1> DEFINE Plain(a) == \E r : r.tag # "interrupting" /\ phase' = [phase EXCEPT ![a] = r]
<1>1. /\ \A s, t : Idle(s, t).tag # "interrupting" /\ Pending(t).tag # "interrupting"
                   /\ Running(t).tag # "interrupting"
      /\ ClosedPhase.tag # "interrupting"
  BY DEF Idle, Pending, Running, ClosedPhase
<1>2. ASSUME NEW a \in Agents, UNCHANGED phase \/ Plain(a)
      PROVE  phase[b].tag = "interrupting"
  BY <1>2 DEF TypeOK
<1>3. ASSUME NEW a \in Agents, Spawning(a) \/ Starting(a)
      PROVE  UNCHANGED phase \/ Plain(a)
  BY <1>1, <1>3 DEF Spawning, Spawn, Starting, StartSupervisor, RollbackAdmission, SpawnerKilled
<1>4. ASSUME NEW a \in Agents, Supervise(a)
      PROVE  UNCHANGED phase \/ Plain(a)
  <2>1. CASE NextStep(a)
    BY <1>1, <2>1 DEF NextStep, SupervisorStep, Complete, ToIdle
  <2>2. CASE Finish(a)
    BY <1>1, <2>2 DEF Finish, SupervisorStep, ToIdle
  <2> QED
    BY <1>1, <1>4, <2>1, <2>2
       DEF Supervise, TakeStartedWork, ResetCancel, RunReturns, RunCancelled, CommitSuspension,
           ResolveStatus, Publish
<1>5. ASSUME NEW a \in Agents, Steer(a) \/ Messages(a) \/ Suspending(a)
      PROVE  UNCHANGED phase \/ Plain(a)
  BY <1>1, <1>5
     DEF Steer, SteerAcquire, SteerCommit, SteerRelease, Messages, QueueMessage, SendInput,
         SendQueue, SendRestart, Suspending, RequestSuspension, SendResume, ResumeDueRecord,
         ResumeSchedule, Schedule
<1>6. ASSUME NEW a \in Agents, Interrupts(a)
      PROVE  phase[b].tag = "interrupting" \/ InterruptForTurn(b) \/ InterruptRecord(b)
  <2>1. CASE InterruptOne(a)
    BY <1>1, <1>2, <2>1 DEF InterruptOne
  <2>2. CASE InterruptForTurn(a) \/ InterruptRecord(a)
    <3>1. a # b => phase'[b] = phase[b]
      BY <2>2 DEF InterruptForTurn, InterruptRecord, ToIdle, TypeOK
    <3> QED
      BY <2>2, <3>1
  <2>3. CASE UNCHANGED phase
    BY <2>3
  <2> QED
    BY <1>6, <2>1, <2>2, <2>3
       DEF Interrupts, InterruptSubagent, CancelSuspension, RequestCancel, SlotReleased
<1>7. ASSUME NEW a \in Agents, Shutdown(a) \/ StopRecord(a)
      PROVE  UNCHANGED phase \/ Plain(a)
  BY <1>1, <1>7
     DEF Shutdown, CloseSubagent, ShutdownCancel, ShutdownClose, ShutdownStop, StopRecord
<1>8. ASSUME NEW a \in Agents, Restore(a)
      PROVE  UNCHANGED phase \/ Plain(a)
  BY <1>1, <1>8 DEF Restore, RestoreExisting, RestoreMissing
<1>9. CASE RegistryWide \/ UNCHANGED vars
  BY <1>9 DEF RegistryWide, ResumeDue, InterruptActive, InterruptDone, AbortRootTurn,
              CloseRegistry, CloseDone, ResetDone, StopRegistry, StopDone, SetMaxConcurrent, vars
<1> QED
  BY <1>2, <1>3, <1>4, <1>5, <1>6, <1>7, <1>8, <1>9, NextCases

\* What an operation may fail on: storage never fails, or there is one child,
\* so that no other child is being interrupted when it does.
FaultsAreContained == PersistFaults => \A a, b \in Agents : a = b

\* An interrupting record stays under the operation that waits for it.
LEMMA InterruptionStep ==
    ASSUME TypeOK, FaultsAreContained, InterruptionIsLocked, [Next]_vars
    PROVE  InterruptionIsLocked'
<1> SUFFICES ASSUME NEW b \in Agents, phase'[b].tag = "interrupting"
             PROVE  op'.kind \in {"abort", "interruptAll"} /\ stage'[b] \in {"cancelling", "waiting"}
  BY DEF InterruptionIsLocked
<1>1. CASE InterruptForTurn(b) \/ InterruptRecord(b)
  <2>1. Move(b, "cancelling") /\ op.kind \in {"abort", "interruptAll"}
    <3>1. op.kind \in {"abort", "interruptAll"} /\ stage[b] = "ready"
      BY <1>1 DEF InterruptForTurn, InterruptRecord
    <3>2. phase[b].tag # "interrupting"
      BY <3>1 DEF InterruptionIsLocked
    <3>3. ~UNCHANGED phase /\ \A s, t : phase' # [phase EXCEPT ![b] = Idle(s, t)]
      BY <3>2 DEF Idle, TypeOK
    <3> QED
      BY <1>1, <3>1, <3>3 DEF InterruptForTurn, InterruptRecord, ToIdle
  <2> QED
    BY <2>1 DEF Move, TypeOK
<1>2. CASE ~(InterruptForTurn(b) \/ InterruptRecord(b))
  <2>1. /\ phase[b].tag = "interrupting" /\ op.kind \in {"abort", "interruptAll"}
        /\ stage[b] \in {"cancelling", "waiting"} /\ HoldsSlot(phase[b])
    BY <1>2, NewlyInterrupting DEF InterruptionIsLocked, HoldsSlot
  <2> DEFINE Same == UNCHANGED <<op, stage>>
  <2>2. Same => op'.kind \in {"abort", "interruptAll"} /\ stage'[b] \in {"cancelling", "waiting"}
    BY <2>1
  <2>3. ASSUME NEW a \in Agents, Spawning(a) \/ Starting(a) \/ Supervise(a) \/ Steer(a) \/ Restore(a)
        PROVE  Same
    BY <2>3 DEF Spawning, Spawn, Starting, StartSupervisor, RollbackAdmission, SpawnerKilled,
                Supervise, TakeStartedWork, ResetCancel, RunReturns, RunCancelled,
                CommitSuspension, ResolveStatus, NextStep, Publish, Finish,
                Steer, SteerAcquire, SteerCommit, SteerRelease, Restore, RestoreExisting,
                RestoreMissing, lockVars
  <2>4. ASSUME NEW a \in Agents, Messages(a) \/ Suspending(a)
        PROVE  Same
    BY <2>1, <2>4
       DEF Messages, QueueMessage, SendInput, SendQueue, SendRestart, Suspending,
           RequestSuspension, SendResume, ResumeDueRecord, ResumeSchedule, Free, lockVars
  <2>5. ASSUME NEW a \in Agents, Interrupts(a)
        PROVE  op'.kind \in {"abort", "interruptAll"} /\ stage'[b] \in {"cancelling", "waiting"}
    <3>1. CASE a = b
      <4>1. RequestCancel(b)
        BY <1>2, <2>1, <2>5, <3>1
           DEF Interrupts, InterruptSubagent, CancelSuspension, InterruptOne, SlotReleased, Free
      <4> QED
        BY <2>1, <4>1 DEF RequestCancel, Move, TypeOK
    <3>2. CASE a # b
      <4>1. ~PersistFaults
        BY <3>2 DEF FaultsAreContained
      <4>2. \E to : Move(a, to)
        BY <2>1, <2>5, <4>1
           DEF Interrupts, InterruptSubagent, CancelSuspension, InterruptOne, SlotReleased, Free,
               InterruptForTurn, InterruptRecord, RequestCancel
      <4> QED
        BY <2>1, <3>2, <4>2 DEF Move, TypeOK
    <3> QED
      BY <3>1, <3>2
  <2>6. ASSUME NEW a \in Agents, Shutdown(a) \/ StopRecord(a)
        PROVE  FALSE
    BY <2>1, <2>6 DEF Shutdown, CloseSubagent, ShutdownCancel, ShutdownClose, ShutdownStop,
                      StopRecord, Free, Shutting
  <2>7. CASE RegistryWide
    <3>1. ~Drained
      BY <2>1 DEF Drained, NoStage
    <3>2. \A n : SetMaxConcurrent(n) => Same
      BY DEF SetMaxConcurrent, lockVars
    <3>3. ~Free
      BY <2>1 DEF Free
    <3> QED
      BY <2>2, <2>7, <3>1, <3>2, <3>3
         DEF RegistryWide, ResumeDue, InterruptActive, InterruptDone, AbortRootTurn, CloseRegistry,
             CloseDone, ResetDone, StopRegistry, StopDone
  <2>8. CASE UNCHANGED vars
    BY <2>2, <2>8 DEF vars, lockVars
  <2> QED
    BY <2>2, <2>3, <2>4, <2>5, <2>6, <2>7, <2>8, NextCases
<1> QED
  BY <1>1, <1>2

\* The threads and the phases of the records fit together after every step.
LEMMA ThreadStep ==
    ASSUME TypeOK, SlotInvariant, StatusMatches, ThreadInvariant, [Next]_vars,
           InterruptionIsLocked \/ [Session]_vars
    PROVE  ThreadInvariant'
<1>1. WaitersKept
  BY WaitersStep
<1>2. ResetDone \/ (Ended => Ended')
  BY EndedStays
<1>3. CASE ResetDone
  BY <1>1, <1>3, RegistryWideFits DEF RegistryWide
<1>4. CASE UNCHANGED vars
  BY <1>4 DEF ThreadInvariant, Fits, FitsAt, Ended, vars, identVars, supVars, limitVars, lockVars
<1>5. ASSUME NEW a \in Agents, Restore(a), ~ResetDone, InterruptionIsLocked
      PROVE  ThreadInvariant'
  BY <1>1, <1>2, <1>5, RestoreFits
<1>6. CASE Session /\ ~ResetDone
  BY <1>1, <1>2, <1>6, StartingFits, SuperviseFits, MessagesFit, InterruptsFit, ShutdownFits,
     RegistryWideFits DEF Session, RegistryWide
<1> QED
  BY <1>3, <1>4, <1>5, <1>6 DEF Next

\* What SlotsAreDriven says follows from the fit.
LEMMA FitsMeansDriven ==
    TypeOK /\ ThreadInvariant => SlotsAreDriven
BY DEF TypeOK, ThreadInvariant, Ended, Fits, FitsAt, Working, SlotsAreDriven, Holding, HoldsSlot,
       Dead, Points

\* Initially there are neither threads nor open records.
LEMMA ThreadInit ==
    Init => ThreadInvariant /\ StatusMatches /\ InterruptionIsLocked
BY DEF Init, ThreadInvariant, Fits, FitsAt, Working, Ended, Shutting, NoOp, NoStage, StatusMatches,
       Matches, InterruptionIsLocked, ClosedPhase

\* No slot leaks, in a registry of any size: a child that holds a slot has a
\* supervisor that is in a turn or about to take the work, or a spawner that is
\* still preparing it. Where storage may fail this is proved for one child: the
\* failure of an abort leaves other children interrupting without an operation
\* that waits for them, and a restoration may then take them for idle ones.
THEOREM SlotsDriven == Spec /\ FaultsAreContained => []SlotsAreDriven
<1> SUFFICES ASSUME FaultsAreContained PROVE Spec => []SlotsAreDriven
  OBVIOUS
<1>1. Init => StatusMatches /\ ThreadInvariant /\ InterruptionIsLocked
  BY ThreadInit
<1>2. /\ TypeOK /\ SlotInvariant /\ StatusMatches /\ ThreadInvariant /\ InterruptionIsLocked
      /\ [Next]_vars
      => (StatusMatches /\ ThreadInvariant /\ InterruptionIsLocked)'
  BY StatusStep, ThreadStep, InterruptionStep
<1>3. TypeOK /\ ThreadInvariant => SlotsAreDriven
  BY FitsMeansDriven
<1> QED
  BY <1>1, <1>2, <1>3, TypeCorrect, SlotsCounted, PTL DEF Spec

\* In a session that restores no children, no slot leaks whatever storage does.
THEOREM SessionSlotsDriven == SessionSpec => []SlotsAreDriven
<1>1. Init => StatusMatches /\ ThreadInvariant
  BY ThreadInit
<1>2. [Session]_vars => [Next]_vars
  BY DEF Next
<1>3. TypeOK /\ SlotInvariant /\ StatusMatches /\ ThreadInvariant /\ [Session]_vars
      => (StatusMatches /\ ThreadInvariant)'
  BY <1>2, StatusStep, ThreadStep
<1>4. TypeOK /\ ThreadInvariant => SlotsAreDriven
  BY FitsMeansDriven
<1> QED
  BY <1>1, <1>2, <1>3, <1>4, TypeCorrect, SlotsCounted, PTL DEF Spec, SessionSpec

-----------------------------------------------------------------------------
(* The tree of children and the order in which it is closed                *)

\* The next steps of a session by groups of actions.
LEMMA SessionCases ==
    Session <=> \/ RegistryWide
                \/ \E a \in Agents :
                     \/ Spawning(a) \/ Starting(a) \/ Supervise(a) \/ Steer(a)
                     \/ Messages(a) \/ Suspending(a) \/ Interrupts(a)
                     \/ Shutdown(a) \/ StopRecord(a)
BY DEF Session, RegistryWide

\* In a session a record is opened by its admission, and closed by rollback, by
\* the death of its spawner or by shutdownRecord.
LEMMA OpenedAndClosed ==
    ASSUME TypeOK, [Session]_vars, NEW b \in Agents
    PROVE  \/ phase'[b].tag = "closed" <=> phase[b].tag = "closed"
           \/ Spawning(b) \/ RollbackAdmission(b) \/ SpawnerKilled(b) \/ ShutdownClose(b)
<1> DEFINE Same == phase'[b].tag = "closed" <=> phase[b].tag = "closed"
           Open(a) == phase[a].tag # "closed" /\ \E r : r.tag # "closed"
                                                         /\ phase' = [phase EXCEPT ![a] = r]
<1>1. \A s, t : Idle(s, t).tag # "closed" /\ Pending(t).tag # "closed"
                /\ Running(t).tag # "closed" /\ Interrupting(t).tag # "closed"
  BY DEF Idle, Pending, Running, Interrupting
<1>2. ASSUME NEW a \in Agents, UNCHANGED phase \/ Open(a)
      PROVE  Same
  BY <1>2 DEF TypeOK
<1>3. ASSUME NEW a \in Agents, a # b, Spawning(a) \/ Starting(a) \/ Shutdown(a)
      PROVE  Same
  BY <1>3, ZenonT(60) DEF Spawning, Spawn, Starting, StartSupervisor, RollbackAdmission, SpawnerKilled,
              Shutdown, CloseSubagent, ShutdownCancel, ShutdownClose, ShutdownStop, TypeOK
<1>4. Starting(b) => Same \/ RollbackAdmission(b) \/ SpawnerKilled(b)
  BY DEF Starting, StartSupervisor
<1>5. Shutdown(b) => Same \/ ShutdownClose(b)
  BY DEF Shutdown, CloseSubagent, ShutdownCancel, ShutdownStop
<1>6. ASSUME NEW a \in Agents, Supervise(a)
      PROVE  UNCHANGED phase \/ Open(a)
  <2>1. CASE NextStep(a)
    BY <1>1, <2>1 DEF NextStep, SupervisorStep, Complete, ToIdle
  <2>2. CASE Finish(a)
    BY <1>1, <2>2 DEF Finish, SupervisorStep, ToIdle
  <2> QED
    BY <1>1, <1>6, <2>1, <2>2
       DEF Supervise, TakeStartedWork, ResetCancel, RunReturns, RunCancelled, CommitSuspension,
           ResolveStatus, Publish
<1>7. ASSUME NEW a \in Agents, Steer(a) \/ Messages(a) \/ Suspending(a)
      PROVE  UNCHANGED phase \/ Open(a)
  BY <1>1, <1>7
     DEF Steer, SteerAcquire, SteerCommit, SteerRelease, Messages, QueueMessage, SendInput,
         SendQueue, SendRestart, Suspending, RequestSuspension, SendResume, ResumeDueRecord,
         ResumeSchedule, Schedule, Schedulable
<1>8. ASSUME NEW a \in Agents, Interrupts(a)
      PROVE  UNCHANGED phase \/ Open(a)
  <2>1. CASE InterruptOne(a)
    <3>1. \/ UNCHANGED phase
          \/ /\ phase[a].tag \in {"idle", "pending"}
             /\ \E u, v : phase' = [phase EXCEPT ![a] = Idle(u, v)]
          \/ phase[a].tag = "pending" /\ \E v : phase' = [phase EXCEPT ![a] = Pending(v)]
      BY <2>1 DEF InterruptOne
    <3> QED
      BY <1>1, <3>1
  <2>2. CASE InterruptForTurn(a)
    BY <1>1, <2>2 DEF InterruptForTurn
  <2>3. CASE InterruptRecord(a)
    BY <1>1, <2>3 DEF InterruptRecord, ToIdle
  <2> QED
    BY <1>8, <2>1, <2>2, <2>3
       DEF Interrupts, InterruptSubagent, CancelSuspension, RequestCancel, SlotReleased
<1>9. ASSUME NEW a \in Agents, StopRecord(a)
      PROVE  UNCHANGED phase
  BY <1>9 DEF StopRecord
<1>10. CASE RegistryWide \/ UNCHANGED vars
  BY <1>10 DEF RegistryWide, ResumeDue, InterruptActive, InterruptDone, AbortRootTurn,
               CloseRegistry, CloseDone, ResetDone, StopRegistry, StopDone, SetMaxConcurrent, vars
<1> QED
  BY <1>2, <1>3, <1>4, <1>5, <1>6, <1>7, <1>8, <1>9, <1>10, SessionCases

\* The parent of a child was handed out before it and is one level above, and a
\* child still in preparation has no thread, and so no children.
TreeShape ==
    /\ \A c \in used : parent[c] \in used \cup {Root}
    /\ \A c \in agents : parent[c] \in agents => depth[c] = depth[parent[c]] + 1
    /\ \A a \in prep : sup[a] = "none" /\ \A c \in used : parent[c] # a

\* Steps that add no child keep the shape if they start no thread in preparation.
LEMMA TreeKept ==
    ASSUME TypeOK, TreeShape, agents' \subseteq agents, prep' \subseteq prep,
           UNCHANGED <<used, parent, depth>>, \A a \in prep' : sup'[a] = sup[a] \/ sup'[a] = "none"
    PROVE  TreeShape'
BY DEF TreeShape

\* A session keeps the shape of the tree.
LEMMA TreeStep ==
    ASSUME TypeOK, ThreadInvariant, TreeShape, [Session]_vars
    PROVE  TreeShape'
<1>1. ASSUME NEW a \in Agents, Spawning(a)
      PROVE  TreeShape'
  <2>1. PICK p \in Agents \cup {Root}, t \in TurnOpt, pth \in Paths : Spawn(a, p, t, pth)
    BY <1>1 DEF Spawning
  <2>2. /\ a \notin used /\ used' = used \cup {a} /\ agents' = agents \cup {a}
        /\ prep' = prep \cup {a} /\ parent' = [parent EXCEPT ![a] = p]
        /\ depth' = [depth EXCEPT ![a] = ChildDepth(p)] /\ sup' = sup
        /\ ParentOpen(p) /\ (p \in Agents => sup[p] = "run")
    BY <2>1 DEF Spawn, supVars
  <2>3. (p = Root \/ p \in agents) /\ p # a /\ p \notin prep
    BY <2>2, ConstantsAssumption DEF ParentOpen, TypeOK, TreeShape
  <2>4. p \in agents => ChildDepth(p) = depth[p] + 1
    BY ConstantsAssumption DEF ChildDepth, TypeOK
  <2>5. \A c \in used : c # a /\ parent[c] # a
    BY <2>2, ConstantsAssumption DEF TypeOK, TreeShape
  <2>6. \A c \in Agents \ {a} : parent'[c] = parent[c] /\ depth'[c] = depth[c]
    BY <2>2 DEF TypeOK
  <2>7. parent'[a] = p /\ depth'[a] = ChildDepth(p) /\ sup'[a] = "none"
    BY <2>2 DEF TypeOK, ThreadInvariant
  <2>8. \A c \in used' : parent'[c] \in used' \cup {Root}
    BY <2>2, <2>3, <2>5, <2>6, <2>7 DEF TypeOK, TreeShape
  <2>9. \A c \in agents' : parent'[c] \in agents' => depth'[c] = depth'[parent'[c]] + 1
    BY <2>2, <2>3, <2>4, <2>5, <2>6, <2>7, ConstantsAssumption DEF TypeOK, TreeShape
  <2>10. \A b \in prep' : sup'[b] = "none" /\ \A c \in used' : parent'[c] # b
    BY <2>2, <2>3, <2>5, <2>6, <2>7 DEF TypeOK, TreeShape
  <2> QED
    BY <2>8, <2>9, <2>10 DEF TreeShape
<1>2. ASSUME NEW a \in Agents, Starting(a)
      PROVE  TreeShape'
  <2>1. /\ agents' \subseteq agents /\ prep' \subseteq prep /\ UNCHANGED <<used, parent, depth>>
        /\ \A b \in prep' : sup'[b] = sup[b] \/ sup'[b] = "none"
    BY <1>2 DEF Starting, StartSupervisor, RollbackAdmission, SpawnerKilled, Killed, identVars,
                supVars, TypeOK
  <2> QED
    BY <2>1, TreeKept
<1>3. ASSUME NEW a \in Agents, Supervise(a)
      PROVE  TreeShape'
  <2>1. UNCHANGED <<used, agents, parent, depth, prep>> /\ sup[a] # "none" /\ \E q : GoTo(a, q)
    BY <1>3 DEF Supervise, TakeStartedWork, ResetCancel, RunReturns, RunCancelled,
                CommitSuspension, ResolveStatus, NextStep, SupervisorStep, Complete, Publish,
                Finish, identVars, At
  <2>2. \A b \in prep' : sup'[b] = sup[b]
    BY <2>1 DEF GoTo, TreeShape, TypeOK
  <2> QED
    BY <2>1, <2>2, TreeKept
<1>4. ASSUME NEW a \in Agents, Steer(a) \/ Messages(a) \/ Suspending(a) \/ Interrupts(a)
      PROVE  TreeShape'
  <2>1. UNCHANGED <<used, agents, parent, depth, prep, sup>>
    BY <1>4 DEF Steer, SteerAcquire, SteerCommit, SteerRelease, Messages, QueueMessage, SendInput,
                SendQueue, SendRestart, Suspending, RequestSuspension, SendResume,
                ResumeDueRecord, ResumeSchedule, Interrupts, InterruptSubagent, CancelSuspension,
                InterruptOne, InterruptForTurn, InterruptRecord, RequestCancel, SlotReleased,
                identVars, supVars
  <2> QED
    BY <2>1, TreeKept
<1>5. ASSUME NEW a \in Agents, Shutdown(a) \/ StopRecord(a)
      PROVE  TreeShape'
  <2>1. /\ UNCHANGED <<used, agents, parent, depth, prep>>
        /\ \A b \in prep' : sup'[b] = sup[b] \/ sup'[b] = "none"
    BY <1>5 DEF Shutdown, CloseSubagent, ShutdownCancel, ShutdownClose, ShutdownStop, StopRecord,
                Killed, identVars, supVars, TypeOK
  <2> QED
    BY <2>1, TreeKept
<1>6. CASE RegistryWide \/ UNCHANGED vars
  <2>1. UNCHANGED <<used, parent, depth, prep, sup>> /\ agents' \subseteq agents
    BY <1>6 DEF RegistryWide, ResumeDue, InterruptActive, InterruptDone, AbortRootTurn,
                CloseRegistry, CloseDone, ResetDone, StopRegistry, StopDone, SetMaxConcurrent,
                vars, identVars, supVars
  <2> QED
    BY <2>1, TreeKept
<1> QED
  BY <1>1, <1>2, <1>3, <1>4, <1>5, <1>6, SessionCases

\* A closing operation that still has to do with a parent has to do with each of
\* its children too, or has closed it, and touches the parent only after them.
LeavesFirst ==
    op.kind \in Shutting =>
        \A c \in agents : parent[c] \in agents =>
            /\ stage[parent[c]] # "none" => stage[c] # "none" \/ phase[c].tag = "closed"
            /\ stage[parent[c]] \in {"ready", "waiting"} => phase[c].tag = "closed"

\* The children of a member of a subtree belong to the subtree.
LEMMA SubtreeClosed ==
    ASSUME NEW a, NEW c \in agents, parent[c] \in Descendants(a) \cup {a}
    PROVE  c \in Descendants(a) \cup {a}
BY DEF Descendants

\* The record that a closing operation turns to has no open child left.
LEMMA ShutdownOrderMeans ==
    ASSUME TypeOK, TreeShape, LeavesFirst, NEW a \in Agents, ShutdownCancel(a),
           NEW c \in agents, parent[c] = a, a \in agents
    PROVE  phase[c].tag = "closed"
<1>1. op.kind \in Shutting /\ stage[a] = "todo" /\ ShutdownOrder(a)
  BY DEF ShutdownCancel
<1>2. depth[c] = depth[a] + 1 /\ c \in Agents /\ depth[a] \in Nat
  BY DEF TreeShape, TypeOK
<1>3. c # a
  BY <1>2
<1>4. c \in Descendants(a)
  BY <1>3 DEF Descendants
<1>5. stage[c] = "none"
  <2>1. CASE op.kind = "close"
    BY <1>1, <1>2, <1>3, <1>4, <2>1 DEF ShutdownOrder
  <2>2. CASE op.kind # "close"
    <3>1. stage[c] # "none" => depth[c] <= depth[a]
      BY <1>1, <1>2, <1>3, <2>2 DEF ShutdownOrder
    <3> QED
      BY <1>2, <3>1
  <2> QED
    BY <2>1, <2>2
<1> QED
  BY <1>1, <1>5 DEF LeavesFirst

\* Steps that add no child, reopen none and leave the lock alone.
LEMMA LeavesKept ==
    ASSUME LeavesFirst, agents' \subseteq agents, UNCHANGED <<parent, op, stage>>,
           \A c \in agents' : phase[c].tag = "closed" => phase'[c].tag = "closed"
    PROVE  LeavesFirst'
BY DEF LeavesFirst

\* A session closes leaves first.
LEMMA LeavesStep ==
    ASSUME TypeOK, ThreadInvariant, TreeShape, LeavesFirst, [Session]_vars
    PROVE  LeavesFirst'
<1>1. ASSUME op'.kind \notin Shutting
      PROVE  LeavesFirst'
  BY <1>1 DEF LeavesFirst
<1>2. \A c \in Agents : (phase[c].tag = "closed" => phase'[c].tag = "closed") \/ Spawning(c)
  <2>1. \A c \in Agents : RollbackAdmission(c) \/ SpawnerKilled(c) \/ ShutdownClose(c)
                            => phase'[c].tag = "closed"
    BY DEF RollbackAdmission, SpawnerKilled, ShutdownClose, ClosedPhase, TypeOK
  <2> QED
    BY <2>1, OpenedAndClosed
<1>3. ASSUME UNCHANGED <<parent, op, stage>>, agents' \subseteq agents, ~\E c \in Agents : Spawning(c)
      PROVE  LeavesFirst'
  BY <1>2, <1>3, LeavesKept DEF TypeOK
<1>4. ASSUME NEW a \in Agents, Spawning(a)
      PROVE  LeavesFirst'
  BY <1>1, <1>4 DEF Spawning, Spawn, Free, lockVars, Shutting
<1>5. ASSUME NEW a \in Agents, Starting(a) \/ Supervise(a) \/ Steer(a), ~\E c \in Agents : Spawning(c)
      PROVE  LeavesFirst'
  <2>1. UNCHANGED <<parent, op, stage>> /\ agents' \subseteq agents
    BY <1>5 DEF Starting, StartSupervisor, RollbackAdmission, SpawnerKilled, Supervise,
                TakeStartedWork, ResetCancel, RunReturns, RunCancelled, CommitSuspension,
                ResolveStatus, NextStep, Publish, Finish, Steer, SteerAcquire, SteerCommit,
                SteerRelease, identVars, lockVars
  <2> QED
    BY <1>3, <1>5, <2>1
<1>6. ASSUME NEW a \in Agents, Messages(a) \/ Suspending(a)
      PROVE  op'.kind \notin Shutting
  <2>1. op.kind \in {"none", "send", "resume"}
    BY <1>6 DEF Messages, QueueMessage, SendInput, SendQueue, SendRestart, Suspending,
                RequestSuspension, SendResume, ResumeDueRecord, ResumeSchedule, Free
  <2>2. \/ UNCHANGED op \/ Unlock
        \/ \E v, w, x, S : Lock(Call("send", v, w, x), S, "todo")
    BY <1>6 DEF Messages, QueueMessage, SendInput, SendQueue, SendRestart, Suspending,
                RequestSuspension, SendResume, ResumeDueRecord, ResumeSchedule, Move, lockVars
  <2> QED
    BY <2>1, <2>2 DEF Lock, Call, Unlock, NoOp, Shutting
<1>7. ASSUME NEW a \in Agents, Interrupts(a)
      PROVE  op'.kind \notin Shutting
  BY <1>7 DEF Interrupts, InterruptSubagent, CancelSuspension, InterruptOne, InterruptForTurn,
              InterruptRecord, RequestCancel, SlotReleased, Free, Shutting,
              Lock, Call, Move, Unlock, NoOp
<1>8. ASSUME NEW a \in Agents, StopRecord(a)
      PROVE  op'.kind \notin Shutting
  BY <1>8 DEF StopRecord, Move, Shutting
<1>9. ASSUME NEW a \in Agents, CloseSubagent(a)
      PROVE  LeavesFirst'
  <2>1. /\ UNCHANGED <<agents, parent>>
        /\ stage' = [b \in Agents |-> IF b \in Descendants(a) \cup {a} THEN "todo" ELSE "none"]
    BY <1>9 DEF CloseSubagent, Lock, identVars
  <2>2. \A c \in agents : parent[c] \in agents /\ stage'[parent[c]] # "none" => stage'[c] = "todo"
    BY <2>1, SubtreeClosed DEF TypeOK
  <2>3. \A b \in agents : stage'[b] \notin {"ready", "waiting"}
    BY <2>1 DEF TypeOK
  <2> QED
    BY <2>1, <2>2, <2>3 DEF LeavesFirst
<1>10. ASSUME NEW a \in Agents, ShutdownCancel(a)
       PROVE  LeavesFirst'
  <2>1. UNCHANGED <<agents, parent, op, phase>> /\ stage' = [stage EXCEPT ![a] = "ready"]
    BY <1>10 DEF ShutdownCancel, identVars
  <2>2. op.kind \in Shutting /\ stage[a] = "todo"
    BY <1>10 DEF ShutdownCancel
  <2>3. \A c \in agents : parent[c] = a /\ a \in agents => phase[c].tag = "closed"
    BY <1>10, ShutdownOrderMeans
  <2> QED
    BY <2>1, <2>2, <2>3 DEF LeavesFirst, TypeOK
<1>11. ASSUME NEW a \in Agents, ShutdownClose(a)
       PROVE  LeavesFirst'
  <2>1. /\ UNCHANGED <<agents, parent, op>> /\ stage' = [stage EXCEPT ![a] = "waiting"]
        /\ phase' = [phase EXCEPT ![a] = ClosedPhase]
    BY <1>11 DEF ShutdownClose, Move, identVars
  <2>2. op.kind \in Shutting /\ stage[a] = "ready"
    BY <1>11 DEF ShutdownClose
  <2>3. phase'[a].tag = "closed" /\ \A b \in Agents \ {a} : phase'[b] = phase[b]
    BY <2>1 DEF TypeOK, ClosedPhase
  <2>4. stage'[a] = "waiting" /\ \A b \in Agents \ {a} : stage'[b] = stage[b]
    BY <2>1 DEF TypeOK
  <2>5. agents \subseteq Agents
    BY DEF TypeOK
  <2> QED
    BY <2>1, <2>2, <2>3, <2>4, <2>5 DEF LeavesFirst
<1>12. ASSUME NEW a \in Agents, ShutdownStop(a)
       PROVE  LeavesFirst'
  <2>1. CASE Unlock
    BY <1>1, <2>1 DEF Unlock, NoOp, Shutting
  <2>2. CASE Move(a, "none")
    <3>1. /\ UNCHANGED <<agents, parent, op, phase>> /\ stage' = [stage EXCEPT ![a] = "none"]
          /\ op.kind \in Shutting /\ stage[a] = "waiting"
      BY <1>12, <2>2 DEF ShutdownStop, Move, identVars
    <3>2. phase[a].tag = "closed"
      BY <3>1 DEF ThreadInvariant
    <3>3. stage'[a] = "none" /\ \A b \in Agents \ {a} : stage'[b] = stage[b]
      BY <3>1 DEF TypeOK
    <3>4. agents \subseteq Agents
      BY DEF TypeOK
    <3> QED
      BY <3>1, <3>2, <3>3, <3>4 DEF LeavesFirst
  <2> QED
    BY <1>12, <2>1, <2>2 DEF ShutdownStop
<1>13. CASE RegistryWide
  <2>1. ASSUME NEW k \in {"closeAll", "reset"}, CloseRegistry(k)
        PROVE  LeavesFirst'
    <3>1. /\ UNCHANGED <<agents, parent>>
          /\ stage' = [b \in Agents |-> IF b \in agents THEN "todo" ELSE "none"]
      BY <2>1 DEF CloseRegistry, Lock, identVars
    <3>2. \A b \in agents : stage'[b] = "todo"
      BY <3>1 DEF TypeOK
    <3> QED
      BY <3>1, <3>2 DEF LeavesFirst
  <2>2. ASSUME NEW n \in Limits, SetMaxConcurrent(n)
        PROVE  UNCHANGED <<parent, op, stage, agents, phase>>
    BY <2>2 DEF SetMaxConcurrent, identVars, lockVars
  <2>3. ASSUME \/ ResumeDue \/ InterruptActive \/ InterruptDone
               \/ \E t \in Turns : AbortRootTurn(t)
               \/ CloseDone \/ ResetDone \/ StopRegistry \/ StopDone
        PROVE  op'.kind \notin Shutting
    <3>1. \/ Unlock
          \/ \E k \in {"resume", "interruptAll", "abort", "stop"} : \E v, w, x, S, first :
                Lock(Call(k, v, w, x), S, first)
      BY <2>3, Zenon DEF ResumeDue, InterruptActive, InterruptDone, AbortRootTurn, CloseDone,
                         ResetDone, StopRegistry, StopDone
    <3> QED
      BY <3>1 DEF Lock, Call, Unlock, NoOp, Shutting
  <2> QED
    BY <1>1, <1>13, <2>1, <2>2, <2>3, LeavesKept DEF RegistryWide
<1>14. CASE UNCHANGED vars
  BY <1>14, LeavesKept DEF vars, identVars, lockVars
<1> QED
  BY <1>1, <1>4, <1>5, <1>6, <1>7, <1>8, <1>9, <1>10, <1>11, <1>12, <1>13, <1>14, SessionCases
     DEF Shutdown

\* A record that a step closes has no open children left.
LEMMA ClosedFromTheLeavesStep ==
    ASSUME TypeOK, StatusMatches, TreeShape, LeavesFirst, ClosedFromTheLeaves, [Session]_vars
    PROVE  ClosedFromTheLeaves'
<1> SUFFICES ASSUME NEW c \in agents', parent'[c] \in agents', phase'[parent'[c]].tag = "closed"
             PROVE  phase'[c].tag = "closed"
  BY DEF ClosedFromTheLeaves
<1>1. ASSUME NEW a \in Agents, Spawning(a)
      PROVE  phase'[c].tag = "closed"
  <2>1. PICK p \in Agents \cup {Root}, t \in TurnOpt, pth \in Paths : Spawn(a, p, t, pth)
    BY <1>1 DEF Spawning
  <2>2. /\ a \notin used /\ agents' = agents \cup {a} /\ parent' = [parent EXCEPT ![a] = p]
        /\ phase' = [phase EXCEPT ![a] = Pending(t)] /\ ParentOpen(p)
    BY <2>1 DEF Spawn
  <2>3. CASE c = a
    <3>1. parent'[c] = p /\ p \in agents' /\ p # Root
      BY <2>2, <2>3, ConstantsAssumption DEF TypeOK
    <3>2. p \in agents /\ phase[p].status # "closed" /\ p # a
      BY <2>2, <3>1 DEF ParentOpen, TypeOK
    <3>3. phase'[p].tag # "closed"
      BY <2>2, <3>2 DEF StatusMatches, Matches, TypeOK
    <3> QED
      BY <3>1, <3>3
  <2>4. CASE c # a
    <3>1. c \in agents /\ parent'[c] = parent[c] /\ parent[c] # a
      BY <2>2, <2>4, ConstantsAssumption DEF TypeOK, TreeShape
    <3>2. parent[c] \in agents
      BY <2>2, <3>1
    <3>3. phase'[c] = phase[c] /\ phase'[parent[c]] = phase[parent[c]]
      BY <2>2, <2>4, <3>1, <3>2 DEF TypeOK
    <3> QED
      BY <3>1, <3>2, <3>3 DEF ClosedFromTheLeaves
  <2> QED
    BY <2>3, <2>4
<1>2. CASE ~\E a \in Agents : Spawning(a)
  <2>1. UNCHANGED parent /\ agents' \subseteq agents
    <3>1. ASSUME NEW a \in Agents, Starting(a) \/ Supervise(a) \/ Steer(a)
          PROVE  UNCHANGED parent /\ agents' \subseteq agents
      BY <3>1 DEF Starting, StartSupervisor, RollbackAdmission, SpawnerKilled, Supervise,
                  TakeStartedWork, ResetCancel, RunReturns, RunCancelled, CommitSuspension,
                  ResolveStatus, NextStep, Publish, Finish, Steer, SteerAcquire, SteerCommit,
                  SteerRelease, identVars
    <3>2. ASSUME NEW a \in Agents, Messages(a) \/ Suspending(a) \/ Interrupts(a)
          PROVE  UNCHANGED parent /\ agents' \subseteq agents
      BY <3>2 DEF Messages, QueueMessage, SendInput, SendQueue, SendRestart, Suspending,
                  RequestSuspension, SendResume, ResumeDueRecord, ResumeSchedule, Interrupts,
                  InterruptSubagent, CancelSuspension, InterruptOne, InterruptForTurn,
                  InterruptRecord, RequestCancel, SlotReleased, identVars
    <3>3. ASSUME NEW a \in Agents, Shutdown(a) \/ StopRecord(a)
          PROVE  UNCHANGED parent /\ agents' \subseteq agents
      BY <3>3 DEF Shutdown, CloseSubagent, ShutdownCancel, ShutdownClose, ShutdownStop,
                  StopRecord, identVars
    <3>4. CASE RegistryWide \/ UNCHANGED vars
      BY <3>4 DEF RegistryWide, ResumeDue, InterruptActive, InterruptDone, AbortRootTurn,
                  CloseRegistry, CloseDone, ResetDone, StopRegistry, StopDone, SetMaxConcurrent,
                  vars, identVars
    <3> QED
      BY <1>2, <3>1, <3>2, <3>3, <3>4, SessionCases
  <2>2. c \in agents /\ c \in Agents /\ parent[c] \in agents /\ parent[c] \in Agents
    BY <2>1 DEF TypeOK
  <2>3. phase[c].tag = "closed" => phase'[c].tag = "closed"
    <3>1. RollbackAdmission(c) \/ SpawnerKilled(c) \/ ShutdownClose(c) => phase'[c].tag = "closed"
      BY <2>2 DEF RollbackAdmission, SpawnerKilled, ShutdownClose, ClosedPhase, TypeOK
    <3> QED
      BY <1>2, <2>2, <3>1, OpenedAndClosed
  <2>4. CASE phase[parent[c]].tag = "closed"
    BY <2>2, <2>3, <2>4 DEF ClosedFromTheLeaves
  <2>5. CASE phase[parent[c]].tag # "closed"
    <3>1. RollbackAdmission(parent[c]) \/ SpawnerKilled(parent[c]) \/ ShutdownClose(parent[c])
      BY <1>2, <2>1, <2>2, <2>5, OpenedAndClosed
    <3>2. ~RollbackAdmission(parent[c])
      BY <2>1 DEF RollbackAdmission
    <3>3. ~SpawnerKilled(parent[c])
      BY <2>2 DEF SpawnerKilled, TreeShape, TypeOK
    <3>4. phase[c].tag = "closed"
      BY <2>2, <3>1, <3>2, <3>3 DEF ShutdownClose, LeavesFirst
    <3> QED
      BY <2>3, <3>4
  <2> QED
    BY <2>4, <2>5
<1> QED
  BY <1>1, <1>2

\* In a session, children are closed before their parents, for trees of any size
\* and depth, whatever spawners, supervisors and failing storage do meanwhile.
\* (Restoration is left out: it takes the parent a file names as it is.)
THEOREM LeavesClosedFirst == SessionSpec => []ClosedFromTheLeaves
<1>1. Init => /\ StatusMatches /\ ThreadInvariant
              /\ TreeShape /\ LeavesFirst /\ ClosedFromTheLeaves
  <2>1. Init => TreeShape /\ LeavesFirst /\ ClosedFromTheLeaves
    BY DEF Init, TreeShape, LeavesFirst, ClosedFromTheLeaves
  <2> QED
    BY <2>1, ThreadInit
<1>2. [Session]_vars => [Next]_vars
  BY DEF Next
<1>3. /\ TypeOK /\ SlotInvariant /\ StatusMatches /\ ThreadInvariant
      /\ TreeShape /\ LeavesFirst /\ ClosedFromTheLeaves /\ [Session]_vars
      => /\ StatusMatches' /\ ThreadInvariant'
         /\ TreeShape' /\ LeavesFirst' /\ ClosedFromTheLeaves'
  BY <1>2, StatusStep, ThreadStep, TreeStep, LeavesStep, ClosedFromTheLeavesStep
<1> QED
  BY <1>1, <1>2, <1>3, TypeCorrect, SlotsCounted, PTL DEF Spec, SessionSpec

-----------------------------------------------------------------------------
(* What is left of a closed child                                          *)

\* A child is steered only while its turn runs.
SteeredRuns == \A a \in steerOn : sup[a] = "run"

\* Steering ends before the turn does, or with the thread.
LEMMA SteeringStep ==
    ASSUME TypeOK, SteeredRuns, [Session]_vars
    PROVE  SteeredRuns'
<1> USE DEF SteeredRuns
<1>1. CASE UNCHANGED <<steerOn, sup>>
  BY <1>1
<1>2. ASSUME NEW a \in Agents, steerOn' = steerOn \ {a} \/ (UNCHANGED steerOn /\ a \notin steerOn),
             \A b \in Agents \ {a} : sup'[b] = sup[b]
      PROVE  SteeredRuns'
  BY <1>2 DEF TypeOK
<1>3. ASSUME NEW a \in Agents, Spawning(a) \/ Messages(a) \/ Suspending(a) \/ Interrupts(a)
      PROVE  UNCHANGED <<steerOn, sup>>
  BY <1>3 DEF Spawning, Spawn, Messages, QueueMessage, SendInput, SendQueue, SendRestart,
              Suspending, RequestSuspension, SendResume, ResumeDueRecord, ResumeSchedule,
              Interrupts, InterruptSubagent, CancelSuspension, InterruptOne, InterruptForTurn,
              InterruptRecord, RequestCancel, SlotReleased, mailVars, supVars
<1>4. ASSUME NEW a \in Agents, Starting(a)
      PROVE  SteeredRuns'
  <2>1. CASE StartSupervisor(a)
    <3>1. UNCHANGED steerOn /\ sup' = [sup EXCEPT ![a] = "await"] /\ sup[a] = "none"
      BY <2>1 DEF StartSupervisor, StartAllowed, mailVars
    <3> QED
      BY <1>2, <3>1 DEF TypeOK
  <2>2. CASE RollbackAdmission(a)
    BY <1>2, <2>2 DEF RollbackAdmission, Killed, TypeOK
  <2>3. CASE SpawnerKilled(a)
    BY <1>1, <2>3 DEF SpawnerKilled, supVars
  <2> QED
    BY <1>4, <2>1, <2>2, <2>3 DEF Starting
<1>5. ASSUME NEW a \in Agents, Supervise(a)
      PROVE  SteeredRuns'
  <2>1. UNCHANGED steerOn /\ \E q : GoTo(a, q)
    BY <1>5 DEF Supervise, TakeStartedWork, ResetCancel, RunReturns, RunCancelled,
                CommitSuspension, ResolveStatus, NextStep, SupervisorStep, Complete, Publish,
                Finish, mailVars
  <2>2. a \notin steerOn
    BY <1>5 DEF Supervise, TakeStartedWork, ResetCancel, RunReturns, RunCancelled,
                CommitSuspension, ResolveStatus, NextStep, Publish, Finish, At
  <2> QED
    BY <1>2, <2>1, <2>2 DEF GoTo, TypeOK
<1>6. ASSUME NEW a \in Agents, Steer(a)
      PROVE  SteeredRuns'
  BY <1>6 DEF Steer, SteerAcquire, SteerCommit, SteerRelease, SteeringEnded, At, supVars
<1>7. ASSUME NEW a \in Agents, Shutdown(a) \/ StopRecord(a)
      PROVE  SteeredRuns'
  <2>1. CASE CloseSubagent(a) \/ ShutdownCancel(a) \/ ShutdownClose(a)
    BY <1>1, <2>1 DEF CloseSubagent, ShutdownCancel, ShutdownClose, mailVars, supVars
  <2>2. CASE ShutdownStop(a) \/ StopRecord(a)
    BY <1>2, <2>2 DEF ShutdownStop, StopRecord, SteeringEnded, Killed, TypeOK
  <2> QED
    BY <1>7, <2>1, <2>2 DEF Shutdown
<1>8. CASE RegistryWide \/ UNCHANGED vars
  BY <1>1, <1>8
     DEF RegistryWide, ResumeDue, InterruptActive, InterruptDone, AbortRootTurn, CloseRegistry,
         CloseDone, ResetDone, StopRegistry, StopDone, SetMaxConcurrent, vars, mailVars, supVars
<1> QED
  BY <1>1, <1>3, <1>4, <1>5, <1>6, <1>7, <1>8, SessionCases

\* A closed record has no thread, but for the one a shutdown is about to kill.
ThreadsEnd ==
    \A a \in Agents : phase[a].tag = "closed" =>
        sup[a] = "none" \/ (op.kind \in Shutting /\ stage[a] = "waiting")

\* A shutdown that does not fail gets to every thread of a record it closed.
LEMMA ThreadsEndStep ==
    ASSUME TypeOK, StatusMatches, ThreadInvariant, TreeShape, ThreadsEnd, [Session]_vars,
           ~PersistFaults \/ claims = {}
    PROVE  ThreadsEnd'
<1> SUFFICES ASSUME NEW b \in Agents, phase'[b].tag = "closed"
             PROVE  sup'[b] = "none" \/ (op'.kind \in Shutting /\ stage'[b] = "waiting")
  BY DEF ThreadsEnd
<1> DEFINE Waits == op.kind \in Shutting /\ stage[b] = "waiting"
           Goal == sup'[b] = "none" \/ (op'.kind \in Shutting /\ stage'[b] = "waiting")
<1>1. CASE RollbackAdmission(b) \/ SpawnerKilled(b) \/ ShutdownClose(b)
  BY <1>1 DEF RollbackAdmission, SpawnerKilled, ShutdownClose, Killed, Move, supVars, TypeOK
<1>2. ASSUME phase[b].tag = "closed", ~Spawning(b)
      PROVE  Goal
  <2>1. sup[b] = "none" \/ Waits
    BY <1>2 DEF ThreadsEnd
  <2>2. Waits => ~Free
    BY DEF Free, Shutting
  <2>3. ASSUME UNCHANGED <<op, stage>>, sup'[b] = sup[b]
        PROVE  Goal
    BY <2>1, <2>3
  <2>4. ASSUME ~Waits, sup'[b] = sup[b]
        PROVE  Goal
    BY <2>1, <2>4
  <2>5. ASSUME NEW a \in Agents, Spawning(a)
        PROVE  Goal
    BY <2>3, <2>5 DEF Spawning, Spawn, lockVars, supVars
  <2>6. ASSUME NEW a \in Agents, Starting(a)
        PROVE  Goal
    <3>1. UNCHANGED <<op, stage>>
      BY <2>6 DEF Starting, StartSupervisor, RollbackAdmission, SpawnerKilled, lockVars
    <3>2. sup'[b] = sup[b] \/ sup'[b] = "none"
      BY <1>2, <2>6 DEF Starting, StartSupervisor, StartAllowed, RollbackAdmission, SpawnerKilled,
                        Killed, supVars, StatusMatches, Matches, TypeOK
    <3> QED
      BY <2>3, <3>1, <3>2
  <2>7. ASSUME NEW a \in Agents, Supervise(a)
        PROVE  Goal
    <3>1. UNCHANGED <<op, stage>> /\ sup[a] # "none" /\ \E q : GoTo(a, q)
      BY <2>7 DEF Supervise, TakeStartedWork, ResetCancel, RunReturns, RunCancelled,
                  CommitSuspension, ResolveStatus, NextStep, SupervisorStep, Complete, Publish,
                  Finish, lockVars, At
    <3>2. a # b => sup'[b] = sup[b]
      BY <3>1 DEF GoTo, TypeOK
    <3> QED
      BY <2>1, <2>3, <3>1, <3>2
  <2>8. ASSUME NEW a \in Agents, Steer(a)
        PROVE  Goal
    BY <2>3, <2>8 DEF Steer, SteerAcquire, SteerCommit, SteerRelease, lockVars, supVars
  <2>9. ASSUME NEW a \in Agents, Messages(a) \/ Suspending(a)
        PROVE  Goal
    <3>1. ~Waits /\ UNCHANGED sup
      BY <2>2, <2>9 DEF Messages, QueueMessage, SendInput, SendQueue, SendRestart, Suspending,
                        RequestSuspension, SendResume, ResumeDueRecord, ResumeSchedule, Shutting,
                        supVars
    <3> QED
      BY <2>4, <3>1
  <2>10. ASSUME NEW a \in Agents, Interrupts(a)
         PROVE  Goal
    <3>1. ~Waits /\ UNCHANGED sup
      BY <2>2, <2>10 DEF Interrupts, InterruptSubagent, CancelSuspension, InterruptOne,
                         InterruptForTurn, InterruptRecord, RequestCancel, SlotReleased, Shutting,
                         supVars
    <3> QED
      BY <2>4, <3>1
  <2>11. ASSUME NEW a \in Agents, Shutdown(a) \/ StopRecord(a)
         PROVE  Goal
    <3>1. CASE CloseSubagent(a)
      BY <2>2, <2>4, <3>1 DEF CloseSubagent, supVars
    <3>2. CASE ShutdownCancel(a)
      BY <2>1, <3>2 DEF ShutdownCancel, supVars, TypeOK
    <3>3. CASE ShutdownClose(a)
      BY <2>1, <3>3 DEF ShutdownClose, Move, supVars, TypeOK
    <3>4. CASE ShutdownStop(a)
      BY <2>1, <3>4 DEF ShutdownStop, Move, Killed, TypeOK
    <3>5. CASE StopRecord(a)
      BY <2>1, <3>5 DEF StopRecord, Killed, Shutting, TypeOK
    <3> QED
      BY <2>11, <3>1, <3>2, <3>3, <3>4, <3>5 DEF Shutdown
  <2>12. CASE RegistryWide
    <3>1. UNCHANGED sup
      BY <2>12 DEF RegistryWide, ResumeDue, InterruptActive, InterruptDone, AbortRootTurn,
                   CloseRegistry, CloseDone, ResetDone, StopRegistry, StopDone, SetMaxConcurrent,
                   supVars
    <3>2. Waits => ~Drained
      BY DEF Drained, NoStage
    <3>3. ~Waits \/ UNCHANGED <<op, stage>>
      BY <2>2, <2>12, <3>2
         DEF RegistryWide, ResumeDue, InterruptActive, InterruptDone, AbortRootTurn,
             CloseRegistry, CloseDone, ResetDone, StopRegistry, StopDone, SetMaxConcurrent,
             lockVars
    <3> QED
      BY <2>3, <2>4, <3>1, <3>3
  <2>13. CASE UNCHANGED vars
    BY <2>3, <2>13 DEF vars, lockVars, supVars
  <2> QED
    BY <2>5, <2>6, <2>7, <2>8, <2>9, <2>10, <2>11, <2>12, <2>13, SessionCases
<1>3. CASE Spawning(b)
  BY <1>3 DEF Spawning, Spawn, Pending, TypeOK
<1> QED
  BY <1>1, <1>2, <1>3, OpenedAndClosed
\* Filtering an empty mailbox leaves it empty.
LEMMA WithoutEmpty ==
    ASSUME NEW T
    PROVE  Without(<<>>, T) = <<>>
<1> DEFINE kept == {i \in 1..Len(<<>>) : <<>>[i].turn \notin T}
           nth(j) == CHOOSE i \in kept : Cardinality({k \in kept : k <= i}) = j
<1>1. Len(<<>>) = 0
  BY EmptySeq
<1>2. kept = {}
  BY <1>1
<1>3. Cardinality(kept) = 0
  BY <1>2, FS_EmptySet
<1>4. Without(<<>>, T) = [j \in 1..Cardinality(kept) |-> <<>>[nth(j)]]
  BY DEF Without
<1> HIDE DEF kept, nth
<1>5. Without(<<>>, T) = [j \in 1..0 |-> <<>>[nth(j)]]
  BY <1>3, <1>4
<1>6. DOMAIN Without(<<>>, T) = {}
  BY <1>5
<1> QED
  BY <1>5, EmptySeq, IsASeq

\* The mailbox of a closed child gets mail only from a message that was accepted
\* while the child was open.
LEMMA NoMailForClosed ==
    ASSUME TypeOK, StatusMatches, [Session]_vars, NEW b \in Agents,
           phase[b].tag = "closed", mailbox[b] = <<>>, ~SendQueue(b)
    PROVE  mailbox'[b] = <<>>
<1>1. CASE mailbox'[b] = mailbox[b]
  BY <1>1
<1>2. phase[b].status = "closed"
  BY DEF StatusMatches, Matches
<1>3. ASSUME NEW a \in Agents, Spawning(a) \/ Starting(a)
      PROVE  mailbox'[b] = <<>>
  BY <1>3 DEF Spawning, Spawn, Starting, StartSupervisor, RollbackAdmission, SpawnerKilled,
              mailVars, TypeOK
<1>4. ASSUME NEW a \in Agents, NEW w, Enqueue(a, w), a # b
      PROVE  mailbox'[b] = <<>>
  BY <1>4 DEF Enqueue, TypeOK
<1>5. ASSUME NEW a \in Agents, SteeringEnded(a)
      PROVE  mailbox'[b] = <<>>
  BY <1>5 DEF SteeringEnded, TypeOK
<1>6. ASSUME NEW a \in Agents, Supervise(a)
      PROVE  mailbox'[b] = <<>>
  <2>1. CASE NextStep(a)
    <3>1. UNCHANGED mailbox \/ (phase[a].tag = "running"
                                /\ mailbox' = [mailbox EXCEPT ![a] = Tail(@)])
      BY <2>1 DEF NextStep, SupervisorStep, Complete
    <3> QED
      BY <3>1 DEF TypeOK
  <2>2. CASE Finish(a)
    <3>1. UNCHANGED mailbox \/ (phase[a].tag = "running"
                                /\ mailbox' = [mailbox EXCEPT ![a] = Tail(@)])
      BY <2>2 DEF Finish, SupervisorStep
    <3> QED
      BY <3>1 DEF TypeOK
  <2>3. CASE Publish(a)
    <3>1. UNCHANGED mailbox \/ \E w : Enqueue(parent[a], w)
                                      /\ phase[parent[a]].status \in {"running", "pending"}
                                      /\ parent[a] \in agents
      BY <2>3 DEF Publish
    <3> QED
      BY <1>2, <1>4, <3>1 DEF TypeOK
  <2> QED
    BY <1>6, <2>1, <2>2, <2>3
       DEF Supervise, TakeStartedWork, ResetCancel, RunReturns, RunCancelled, CommitSuspension,
           ResolveStatus, mailVars
<1>7. ASSUME NEW a \in Agents, Steer(a)
      PROVE  mailbox'[b] = <<>>
  <2>1. CASE SteerAcquire(a)
    <3>1. PICK k \in 0..Len(mailbox[a]) :
            mailbox' = [mailbox EXCEPT ![a] = SubSeq(@, k + 1, Len(@))]
      BY <2>1 DEF SteerAcquire
    <3>2. a # b => mailbox'[b] = mailbox[b]
      BY <3>1 DEF TypeOK
    <3>3. CASE a = b
      <4>1. mailbox'[b] = SubSeq(mailbox[b], k + 1, Len(mailbox[b]))
        BY <3>1, <3>3 DEF TypeOK
      <4>2. Len(mailbox[b]) = 0 /\ k = 0
        BY <3>1, <3>3, EmptySeq
      <4>3. SubSeq(mailbox[b], 1, 0) = <<>>
        BY SubSeqEmpty DEF TypeOK
      <4> QED
        BY <4>1, <4>2, <4>3
    <3> QED
      BY <3>2, <3>3
  <2> QED
    BY <1>5, <1>7, <2>1 DEF Steer, SteerCommit, SteerRelease
<1>8. ASSUME NEW a \in Agents, Messages(a)
      PROVE  mailbox'[b] = <<>>
  <2>1. UNCHANGED mailbox \/ (a # b /\ \E w : Enqueue(a, w))
    BY <1>2, <1>8 DEF Messages, QueueMessage, SendInput, SendQueue, SendRestart, mailVars
  <2> QED
    BY <1>4, <2>1
<1>9. ASSUME NEW a \in Agents, Suspending(a)
      PROVE  mailbox'[b] = <<>>
  <2>1. UNCHANGED mailbox \/ (phase[a].tag = "idle" /\ mailbox' = [mailbox EXCEPT ![a] = Tail(@)])
    BY <1>9 DEF Suspending, RequestSuspension, SendResume, ResumeDueRecord, ResumeSchedule,
                Schedulable, mailVars
  <2> QED
    BY <2>1 DEF TypeOK
<1>10. ASSUME NEW a \in Agents, Interrupts(a)
       PROVE  mailbox'[b] = <<>>
  <2>1. \/ UNCHANGED mailbox
        \/ phase[a].tag = "pending" /\ mailbox' = [mailbox EXCEPT ![a] = Tail(@)]
        \/ mailbox' = [mailbox EXCEPT ![a] = <<>>]
    BY <1>10 DEF Interrupts, InterruptSubagent, CancelSuspension, InterruptOne, InterruptForTurn,
                 InterruptRecord, RequestCancel, SlotReleased, mailVars
  <2> QED
    BY <2>1 DEF TypeOK
<1>11. ASSUME NEW a \in Agents, Shutdown(a) \/ StopRecord(a)
       PROVE  mailbox'[b] = <<>>
  <2>1. CASE ShutdownStop(a) \/ StopRecord(a)
    BY <1>5, <2>1 DEF ShutdownStop, StopRecord
  <2> QED
    BY <1>11, <2>1 DEF Shutdown, CloseSubagent, ShutdownCancel, ShutdownClose, mailVars, TypeOK
<1>12. CASE RegistryWide
  <2>1. ASSUME NEW t \in Turns, AbortRootTurn(t)
        PROVE  mailbox'[b] = <<>>
    BY <2>1, WithoutEmpty DEF AbortRootTurn
  <2> QED
    BY <1>12, <2>1
       DEF RegistryWide, ResumeDue, InterruptActive, InterruptDone, CloseRegistry, CloseDone,
           ResetDone, StopRegistry, StopDone, SetMaxConcurrent, mailVars
<1>13. CASE UNCHANGED vars
  BY <1>13 DEF vars, mailVars
<1> QED
  BY <1>3, <1>6, <1>7, <1>8, <1>9, <1>10, <1>11, <1>12, <1>13, SessionCases

\* A closed child has no mail, and a message under way is for an open child,
\* unless the spawner of the child has still to roll it back.
MailEnds ==
    /\ \A a \in agents \ prep : phase[a].tag = "closed" => mailbox[a] = <<>>
    /\ op.kind = "send" =>
         \A a \in agents \ prep : stage[a] # "none" => phase[a].tag # "closed"

\* How a child leaves preparation, and how it enters the map.
LEMMA Registered ==
    ASSUME TypeOK, [Session]_vars, NEW b \in agents' \ prep'
    PROVE  b \in agents /\ (b \notin prep \/ StartSupervisor(b))
<1>1. ASSUME NEW a \in Agents, Spawning(a) \/ Starting(a)
      PROVE  b \in agents /\ (b \notin prep \/ StartSupervisor(b))
  BY <1>1 DEF Spawning, Spawn, Starting, StartSupervisor, RollbackAdmission, SpawnerKilled,
              identVars
<1>2. ASSUME NEW a \in Agents, Supervise(a) \/ Steer(a) \/ Messages(a) \/ Suspending(a)
      PROVE  UNCHANGED <<agents, prep>>
  BY <1>2 DEF Supervise, TakeStartedWork, ResetCancel, RunReturns, RunCancelled,
              CommitSuspension, ResolveStatus, NextStep, Publish, Finish, Steer, SteerAcquire,
              SteerCommit, SteerRelease, Messages, QueueMessage, SendInput, SendQueue,
              SendRestart, Suspending, RequestSuspension, SendResume, ResumeDueRecord,
              ResumeSchedule, identVars
<1>3. ASSUME NEW a \in Agents, Interrupts(a) \/ Shutdown(a) \/ StopRecord(a)
      PROVE  UNCHANGED <<agents, prep>>
  BY <1>3 DEF Interrupts, InterruptSubagent, CancelSuspension, InterruptOne, InterruptForTurn,
              InterruptRecord, RequestCancel, SlotReleased, Shutdown, CloseSubagent,
              ShutdownCancel, ShutdownClose, ShutdownStop, StopRecord, identVars
<1>4. CASE RegistryWide \/ UNCHANGED vars
  BY <1>4 DEF RegistryWide, ResumeDue, InterruptActive, InterruptDone, AbortRootTurn,
              CloseRegistry, CloseDone, ResetDone, StopRegistry, StopDone, SetMaxConcurrent,
              vars, identVars
<1> QED
  BY <1>1, <1>2, <1>3, <1>4, SessionCases

\* A message is sent to a child that was open when the lock was taken for it.
LEMMA SendsUnderWay ==
    ASSUME TypeOK, [Session]_vars, NEW b \in Agents, op'.kind = "send", stage'[b] # "none"
    PROVE  \/ op.kind = "send" /\ stage[b] # "none"
           \/ phase[b].status # "closed" /\ \E t \in TurnOpt, i \in BOOLEAN : SendInput(b, t, i)
<1> DEFINE Goal == \/ op.kind = "send" /\ stage[b] # "none"
                   \/ /\ phase[b].status # "closed"
                      /\ \E t \in TurnOpt, i \in BOOLEAN : SendInput(b, t, i)
<1>1. CASE UNCHANGED <<op, stage>>
  BY <1>1
<1>2. ~Unlock
  BY DEF Unlock, NoOp
<1>3. ASSUME NEW a \in Agents, NEW to, Move(a, to), stage[a] # "none"
      PROVE  Goal
  BY <1>3 DEF Move, TypeOK
<1>4. ASSUME NEW a \in Agents, Spawning(a) \/ Starting(a) \/ Supervise(a) \/ Steer(a)
      PROVE  UNCHANGED <<op, stage>>
  BY <1>4 DEF Spawning, Spawn, Starting, StartSupervisor, RollbackAdmission, SpawnerKilled,
              Supervise, TakeStartedWork, ResetCancel, RunReturns, RunCancelled,
              CommitSuspension, ResolveStatus, NextStep, Publish, Finish,
              Steer, SteerAcquire, SteerCommit, SteerRelease, lockVars
<1>5. ASSUME NEW a \in Agents, NEW t \in TurnOpt, NEW i \in BOOLEAN, SendInput(a, t, i)
      PROVE  Goal
  <2>1. stage' = [c \in Agents |-> IF c \in {a} THEN "todo" ELSE "none"]
    BY <1>5 DEF SendInput, Lock
  <2>2. a = b
    BY <2>1
  <2> QED
    BY <1>5, <2>2 DEF SendInput
<1>6. ASSUME NEW a \in Agents, Messages(a) \/ Suspending(a)
      PROVE  Goal
  BY <1>1, <1>2, <1>3, <1>5, <1>6
     DEF Messages, QueueMessage, SendQueue, SendRestart, Suspending, RequestSuspension,
         SendResume, ResumeDueRecord, ResumeSchedule, lockVars
<1>7. ASSUME NEW a \in Agents, Interrupts(a)
      PROVE  Goal
  <2>1. ~InterruptSubagent(a)
    BY DEF InterruptSubagent, Lock, Call
  <2> QED
    BY <1>2, <1>3, <1>7, <2>1
       DEF Interrupts, CancelSuspension, InterruptOne, InterruptForTurn, InterruptRecord,
           RequestCancel, SlotReleased
<1>8. ASSUME NEW a \in Agents, Shutdown(a) \/ StopRecord(a)
      PROVE  Goal
  BY <1>2, <1>8 DEF Shutdown, CloseSubagent, ShutdownCancel, ShutdownClose, ShutdownStop, Shutting,
              StopRecord, Move, Lock, Call
<1>9. CASE RegistryWide
  <2>1. \/ Unlock \/ UNCHANGED <<op, stage>>
        \/ \E k \in OpKinds \ {"send"} : \E v, w, x, S, first : Lock(Call(k, v, w, x), S, first)
    <3>1. {"resume", "interruptAll", "abort", "stop", "closeAll", "reset"} \subseteq OpKinds \ {"send"}
      BY DEF OpKinds
    <3> QED
      BY <1>9, <3>1
         DEF RegistryWide, ResumeDue, InterruptActive, InterruptDone, AbortRootTurn,
             CloseRegistry, CloseDone, ResetDone, StopRegistry, StopDone, SetMaxConcurrent,
             lockVars
  <2> QED
    BY <1>1, <1>2, <2>1 DEF Lock, Call
<1>10. CASE UNCHANGED vars
  BY <1>1, <1>10 DEF vars, lockVars
<1> QED
  BY <1>1, <1>4, <1>6, <1>7, <1>8, <1>9, <1>10, SessionCases

\* Closing a child discards its mail and no more gets there.
LEMMA MailEndsStep ==
    ASSUME TypeOK, StatusMatches, MailEnds, [Session]_vars
    PROVE  MailEnds'
<1>1. ASSUME NEW b \in agents' \ prep'
      PROVE  /\ b \in agents /\ b \in Agents /\ ~Spawning(b) /\ ~RollbackAdmission(b)
             /\ ~SpawnerKilled(b)
             /\ phase[b].tag = "closed" => b \notin prep
             /\ b \in prep => StartSupervisor(b)
  <2>1. b \in agents /\ (b \notin prep \/ StartSupervisor(b))
    BY <1>1, Registered
  <2>2. StartSupervisor(b) => phase[b].tag # "closed"
    BY <2>1 DEF StartSupervisor, StartAllowed, StatusMatches, Matches, TypeOK
  <2>3. ~Spawning(b) /\ ~RollbackAdmission(b) /\ ~SpawnerKilled(b)
    BY <1>1, <2>1 DEF Spawning, Spawn, RollbackAdmission, SpawnerKilled
  <2> QED
    BY <2>1, <2>2, <2>3 DEF TypeOK
<1>2. ASSUME NEW b \in agents' \ prep', phase'[b].tag = "closed"
      PROVE  mailbox'[b] = <<>>
  <2>1. CASE phase[b].tag = "closed"
    <3>1. mailbox[b] = <<>> /\ ~SendQueue(b)
      BY <1>1, <2>1 DEF MailEnds, SendQueue
    <3> QED
      BY <1>1, <2>1, <3>1, NoMailForClosed
  <2>2. CASE phase[b].tag # "closed"
    <3>1. ShutdownClose(b)
      BY <1>1, <1>2, <2>2, OpenedAndClosed
    <3> QED
      BY <1>1, <3>1 DEF ShutdownClose, TypeOK
  <2> QED
    BY <2>1, <2>2
<1>3. ASSUME NEW b \in agents' \ prep', op'.kind = "send", stage'[b] # "none"
      PROVE  phase'[b].tag # "closed"
  <2>1. b \in Agents
    BY <1>1
  <2>2. \/ op.kind = "send" /\ stage[b] # "none"
        \/ phase[b].status # "closed" /\ \E t \in TurnOpt, i \in BOOLEAN : SendInput(b, t, i)
    BY <1>3, <2>1, SendsUnderWay
  <2>3. CASE op.kind = "send" /\ stage[b] # "none"
    <3>1. ~ShutdownClose(b) /\ ~StartSupervisor(b)
      BY <2>3 DEF ShutdownClose, Shutting, StartSupervisor, Free
    <3>2. phase[b].tag # "closed"
      BY <1>1, <2>3, <3>1 DEF MailEnds
    <3> QED
      BY <1>1, <3>1, <3>2, OpenedAndClosed
  <2>4. ASSUME phase[b].status # "closed", NEW t \in TurnOpt, NEW i \in BOOLEAN, SendInput(b, t, i)
        PROVE  phase'[b].tag # "closed"
    BY <1>1, <2>4 DEF SendInput, StatusMatches, Matches
  <2> QED
    BY <2>2, <2>3, <2>4
<1> QED
  BY <1>2, <1>3 DEF MailEnds
\* What holds of a session in which storage does not fail, for the children
\* whose spawners are done with them.
ClosedChildIsInert ==
    \A a \in agents \ prep :
        Free /\ phase[a].tag = "closed" =>
            sup[a] = "none" /\ mailbox[a] = <<>> /\ a \notin steerOn

\* It follows from the three facts above.
LEMMA InertFacts ==
    TypeOK /\ SteeredRuns /\ ThreadsEnd /\ MailEnds => ClosedChildIsInert
BY DEF TypeOK, SteeredRuns, ThreadsEnd, MailEnds, ClosedChildIsInert, Free, Shutting

\* In a session whose storage does not fail, a closed child has no thread, no mail
\* and no steering, whatever messages, resumptions, interruptions and aborts were
\* under way when it was closed. A child whose spawner was killed is left out
\* until it is rolled back: a message under way may still reach its record.
THEOREM ClosedChildrenInert == SessionSpec /\ ~PersistFaults => []ClosedChildIsInert
<1> SUFFICES ASSUME ~PersistFaults PROVE SessionSpec => []ClosedChildIsInert
  OBVIOUS
<1>1. Init => /\ StatusMatches /\ ThreadInvariant /\ TreeShape
              /\ SteeredRuns /\ ThreadsEnd /\ MailEnds
  <2>1. Init => TreeShape /\ SteeredRuns /\ ThreadsEnd /\ MailEnds
    BY DEF Init, TreeShape, SteeredRuns, ThreadsEnd, MailEnds
  <2> QED
    BY <2>1, ThreadInit
<1>2. [Session]_vars => [Next]_vars
  BY DEF Next
<1>3. /\ TypeOK /\ SlotInvariant /\ StatusMatches /\ ThreadInvariant /\ TreeShape
      /\ SteeredRuns /\ ThreadsEnd /\ MailEnds /\ [Session]_vars
      => /\ StatusMatches' /\ ThreadInvariant' /\ TreeShape'
         /\ SteeredRuns' /\ ThreadsEnd' /\ MailEnds'
  BY <1>2, StatusStep, ThreadStep, TreeStep, SteeringStep, ThreadsEndStep, MailEndsStep
<1>4. TypeOK /\ SteeredRuns /\ ThreadsEnd /\ MailEnds => ClosedChildIsInert
  BY InertFacts
<1> QED
  BY <1>1, <1>2, <1>3, <1>4, TypeCorrect, SlotsCounted, PTL DEF Spec, SessionSpec

\* Where nobody asks for a suspension, there is nothing for storage to fail on.
NobodySleeps ==
    /\ suspensions = {} /\ claims = {}
    /\ \A a \in Agents : phase[a].status # "suspended" /\ outcome[a] # "suspended"

\* No suspension comes up in a host that closes children and asks for none.
LEMMA NobodySleepsStep ==
    ASSUME TypeOK, ResultKnown, NobodySleeps, [Closing]_vars
    PROVE  NobodySleeps'
<1> USE DEF NobodySleeps
<1>a. ASSUME NEW a \in Agents, NEW r, phase' = [phase EXCEPT ![a] = r], r.status # "suspended"
      PROVE  \A b \in Agents : phase'[b].status # "suspended"
  BY <1>a DEF TypeOK
<1>b. /\ \A t : Pending(t).status # "suspended" /\ Running(t).status # "suspended"
      /\ \A s, t : Idle(s, t).status = s
      /\ ClosedPhase.status # "suspended"
  BY DEF Pending, Running, Idle, ClosedPhase
<1>c. ASSUME NEW a \in Agents, NEW o, outcome' = [outcome EXCEPT ![a] = o], o # "suspended"
      PROVE  \A b \in Agents : outcome'[b] # "suspended"
  BY <1>c DEF TypeOK
<1>1. ASSUME NEW a \in Agents, Spawning(a) \/ Starting(a)
      PROVE  NobodySleeps'
  <2>1. suspensions' = {} /\ UNCHANGED claims
    BY <1>1 DEF Spawning, Spawn, Starting, StartSupervisor, RollbackAdmission, SpawnerKilled,
                suspVars, lockVars
  <2>2. \A b \in Agents : phase'[b].status # "suspended"
    BY <1>1, <1>a, <1>b DEF Spawning, Spawn, Starting, StartSupervisor, RollbackAdmission,
                SpawnerKilled
  <2>3. \A b \in Agents : outcome'[b] # "suspended"
    BY <1>1, <1>c DEF Spawning, Spawn, Starting, StartSupervisor, RollbackAdmission,
                SpawnerKilled, Killed, supVars
  <2> QED
    BY <2>1, <2>2, <2>3
<1>2. ASSUME NEW a \in Agents, Supervise(a)
      PROVE  NobodySleeps'
  <2>1. suspensions' = {} /\ UNCHANGED claims
    BY <1>2 DEF Supervise, TakeStartedWork, ResetCancel, RunReturns, RunCancelled,
                CommitSuspension, ResolveStatus, NextStep, SupervisorStep, Complete, ToIdle,
                Publish, Finish, suspVars, lockVars
  <2>2. \A b \in Agents : phase'[b].status # "suspended"
    <3>1. UNCHANGED phase \/ \E r : r.status # "suspended" /\ phase' = [phase EXCEPT ![a] = r]
      <4>1. CASE NextStep(a)
        BY <1>b, <4>1 DEF NextStep, SupervisorStep, Complete, ToIdle
      <4>2. CASE Finish(a)
        BY <1>b, <4>2 DEF Finish, SupervisorStep, ToIdle
      <4> QED
        BY <1>2, <1>b, <4>1, <4>2
           DEF Supervise, TakeStartedWork, ResetCancel, RunReturns, RunCancelled,
               CommitSuspension, ResolveStatus, Publish
    <3> QED
      BY <1>a, <3>1
  <2>3. \A b \in Agents : outcome'[b] # "suspended"
    <3>1. UNCHANGED outcome \/ \E o : o # "suspended" /\ outcome' = [outcome EXCEPT ![a] = o]
      BY <1>2 DEF Supervise, TakeStartedWork, ResetCancel, RunReturns, RunCancelled,
                  CommitSuspension, ResolveStatus, NextStep, Publish, Finish
    <3> QED
      BY <1>c, <3>1
  <2> QED
    BY <2>1, <2>2, <2>3
<1>3. ASSUME NEW a \in Agents, Shutdown(a)
      PROVE  NobodySleeps'
  <2>1. suspensions' = {} /\ claims' = {}
    BY <1>3 DEF Shutdown, CloseSubagent, ShutdownCancel, ShutdownClose, ShutdownStop, Lock, Move,
                Unlock, suspVars
  <2>2. \A b \in Agents : phase'[b].status # "suspended"
    BY <1>3, <1>a, <1>b DEF Shutdown, CloseSubagent, ShutdownCancel, ShutdownClose, ShutdownStop
  <2>3. \A b \in Agents : outcome'[b] # "suspended"
    BY <1>3, <1>c DEF Shutdown, CloseSubagent, ShutdownCancel, ShutdownClose, ShutdownStop, Killed,
                supVars
  <2> QED
    BY <2>1, <2>2, <2>3
<1>4. CASE (\E k \in {"closeAll", "reset"} : CloseRegistry(k)) \/ CloseDone \/ ResetDone
  BY <1>4 DEF CloseRegistry, CloseDone, ResetDone, Lock, Unlock, supVars, suspVars
<1>5. CASE UNCHANGED vars
  BY <1>5 DEF vars, supVars, suspVars, lockVars
<1> QED
  BY <1>1, <1>2, <1>3, <1>4, <1>5 DEF Closing, Children

\* No mail waits for a child before its first turn: its mail comes from children.
NoMailBeforeStart == \A a \in Agents : a \in prep \/ a \notin used => mailbox[a] = <<>>

\* Only a child's own children write to it, and it has none before it starts.
LEMMA NoMailBeforeStartStep ==
    ASSUME TypeOK, ThreadInvariant, TreeShape, NoMailBeforeStart, [Closing]_vars
    PROVE  NoMailBeforeStart'
<1> USE DEF NoMailBeforeStart
<1>1. ASSUME NEW a \in Agents, Spawning(a) \/ Starting(a)
      PROVE  NoMailBeforeStart'
  BY <1>1 DEF Spawning, Spawn, Starting, StartSupervisor, RollbackAdmission, SpawnerKilled,
              identVars, mailVars, TypeOK
<1>2. ASSUME NEW a \in Agents, UNCHANGED <<used, prep>>, a \in used, a \notin prep,
             \A b \in Agents \ {a} : mailbox'[b] = mailbox[b]
      PROVE  NoMailBeforeStart'
  BY <1>2
<1>3. ASSUME NEW a \in Agents, Supervise(a)
      PROVE  NoMailBeforeStart'
  <2>1. UNCHANGED <<used, prep>> /\ sup[a] # "none"
    BY <1>3 DEF Supervise, TakeStartedWork, ResetCancel, RunReturns, RunCancelled,
                CommitSuspension, ResolveStatus, NextStep, Publish, Finish, identVars, At
  <2>2. a \in used /\ a \notin prep
    BY <2>1 DEF ThreadInvariant, TreeShape
  <2>3. CASE Publish(a)
    <3>1. UNCHANGED mailbox \/ (parent[a] \in agents /\ \E w : Enqueue(parent[a], w))
      BY <2>3 DEF Publish
    <3>2. CASE UNCHANGED mailbox
      BY <1>2, <2>1, <2>2, <3>2
    <3>3. ASSUME parent[a] \in agents, NEW w, Enqueue(parent[a], w)
          PROVE  NoMailBeforeStart'
      <4>1. parent[a] \in used /\ parent[a] \in Agents /\ parent[a] \notin prep
        BY <2>2, <3>3 DEF TreeShape, TypeOK
      <4>2. \A b \in Agents \ {parent[a]} : mailbox'[b] = mailbox[b]
        BY <3>3, <4>1 DEF Enqueue, TypeOK
      <4> QED
        BY <1>2, <2>1, <4>1, <4>2
    <3> QED
      BY <3>1, <3>2, <3>3
  <2>4. CASE ~Publish(a)
    <3>1. \A b \in Agents \ {a} : mailbox'[b] = mailbox[b]
      BY <1>3, <2>4 DEF Supervise, TakeStartedWork, ResetCancel, RunReturns, RunCancelled,
                  CommitSuspension, ResolveStatus, NextStep, SupervisorStep, Complete, Finish,
                  mailVars, TypeOK
    <3> QED
      BY <1>2, <2>1, <2>2, <3>1
  <2> QED
    BY <2>3, <2>4
<1>4. ASSUME NEW a \in Agents, Shutdown(a)
      PROVE  NoMailBeforeStart'
  <2>1. UNCHANGED <<used, prep>>
    BY <1>4 DEF Shutdown, CloseSubagent, ShutdownCancel, ShutdownClose, ShutdownStop, identVars
  <2>2. CASE ShutdownStop(a)
    <3>1. phase[a].tag = "closed"
      BY <2>2 DEF ShutdownStop, ThreadInvariant
    <3>2. UNCHANGED mailbox
      BY <2>2, <3>1 DEF ShutdownStop, SteeringEnded
    <3> QED
      BY <2>1, <3>2
  <2> QED
    BY <1>4, <2>1, <2>2
       DEF Shutdown, CloseSubagent, ShutdownCancel, ShutdownClose, mailVars, TypeOK
<1>5. CASE (\E k \in {"closeAll", "reset"} : CloseRegistry(k)) \/ CloseDone \/ ResetDone
  BY <1>5 DEF CloseRegistry, CloseDone, ResetDone, identVars, mailVars
<1>6. CASE UNCHANGED vars
  BY <1>6 DEF vars, identVars, mailVars
<1> QED
  BY <1>1, <1>3, <1>4, <1>5, <1>6 DEF Closing, Children

\* In a host that runs, closes and resets children, a closed child has no thread,
\* no mail and no steering, down to the ones whose spawners were killed.
THEOREM ClosingLeavesInert == ClosingSpec => []ClosedIsInert
<1>1. Init => /\ StatusMatches /\ ThreadInvariant /\ TreeShape /\ ResultKnown /\ TypeOK
              /\ SteeredRuns /\ ThreadsEnd /\ MailEnds /\ NobodySleeps /\ NoMailBeforeStart
  <2>1. Init => TreeShape /\ SteeredRuns /\ ThreadsEnd /\ MailEnds /\ NoMailBeforeStart
    BY DEF Init, TreeShape, SteeredRuns, ThreadsEnd, MailEnds, NoMailBeforeStart
  <2>2. Init => NobodySleeps /\ ResultKnown
    BY DEF Init, NobodySleeps, ResultKnown, Settling, ClosedPhase
  <2> QED
    BY <2>1, <2>2, ThreadInit, InitType
<1>2. [Closing]_vars => [Session]_vars /\ [Next]_vars
  BY DEF Closing, Children, Session, Next
<1>3. /\ TypeOK /\ SlotInvariant /\ StatusMatches /\ ThreadInvariant /\ TreeShape /\ ResultKnown
      /\ SteeredRuns /\ ThreadsEnd /\ MailEnds /\ NobodySleeps /\ NoMailBeforeStart
      /\ [Closing]_vars
      => /\ StatusMatches' /\ ThreadInvariant' /\ TreeShape' /\ ResultKnown'
         /\ SteeredRuns' /\ ThreadsEnd' /\ MailEnds' /\ NobodySleeps' /\ NoMailBeforeStart'
  <2> SUFFICES ASSUME TypeOK, SlotInvariant, StatusMatches, ThreadInvariant, TreeShape,
                      ResultKnown, SteeredRuns, ThreadsEnd, MailEnds, NobodySleeps,
                      NoMailBeforeStart, [Closing]_vars
               PROVE  /\ StatusMatches' /\ ThreadInvariant' /\ TreeShape' /\ ResultKnown'
                      /\ SteeredRuns' /\ ThreadsEnd' /\ MailEnds' /\ NobodySleeps'
                      /\ NoMailBeforeStart'
    OBVIOUS
  <2>1. claims = {}
    BY DEF NobodySleeps
  <2> QED
    BY <1>2, <2>1, StatusStep, ThreadStep, TreeStep, ResultStep, SteeringStep, ThreadsEndStep,
       MailEndsStep, NobodySleepsStep, NoMailBeforeStartStep
<1>4. TypeOK /\ SteeredRuns /\ ThreadsEnd /\ MailEnds /\ NoMailBeforeStart => ClosedIsInert
  <2>1. ClosedChildIsInert /\ TypeOK /\ SteeredRuns /\ ThreadsEnd /\ NoMailBeforeStart
          => ClosedIsInert
    BY DEF ClosedChildIsInert, TypeOK, SteeredRuns, ThreadsEnd, NoMailBeforeStart, ClosedIsInert,
           Free, Shutting
  <2> QED
    BY <2>1, InertFacts
<1> QED
  BY <1>1, <1>2, <1>3, <1>4, TypeCorrect, SlotsCounted, PTL DEF Spec, ClosingSpec

-----------------------------------------------------------------------------
(* Aborted root turns                                                      *)

\* No work of a sequence belongs to a turn of T.
Clean(s, T) == \A i \in 1..Len(s) : s[i].turn \notin T

\* What queueing, taking and returning work do to a clean mailbox.
LEMMA CleanEmpty ==
    ASSUME NEW T
    PROVE  Clean(<<>>, T)
<1>1. Len(<<>>) = 0
  BY EmptySeq
<1> QED
  BY <1>1 DEF Clean

\* The first work of a clean mailbox, and the rest.
LEMMA CleanTail ==
    ASSUME NEW s \in Seq(Work), NEW T, Clean(s, T), s # <<>>
    PROVE  Head(s).turn \notin T /\ Clean(Tail(s), T)
<1>1. PICK n \in Nat : n = Len(s)
  BY LenProperties
<1>2. n # 0
  BY <1>1, EmptySeq
<1>3. Head(s) = s[1] /\ 1 \in 1..n
  BY <1>1, <1>2, HeadTailProperties
<1>4. /\ Len(Tail(s)) = n - 1
      /\ \A i \in 1..(n - 1) : Tail(s)[i] = s[i + 1]
  BY <1>1, HeadTailProperties
<1>5. \A i \in 1..(n - 1) : i + 1 \in 1..n
  OBVIOUS
<1> QED
  BY <1>1, <1>3, <1>4, <1>5 DEF Clean

\* Queueing work of a turn that is not aborted.
LEMMA CleanAppend ==
    ASSUME NEW s \in Seq(Work), NEW T, NEW w \in Work, Clean(s, T), w.turn \notin T
    PROVE  Clean(Append(s, w), T)
<1>1. PICK n \in Nat : n = Len(s)
  BY LenProperties
<1>2. /\ Len(Append(s, w)) = n + 1
      /\ \A i \in 1..n : Append(s, w)[i] = s[i]
      /\ Append(s, w)[n + 1] = w
  BY <1>1, AppendProperties
<1>3. \A i \in 1..(n + 1) : i \in 1..n \/ i = n + 1
  OBVIOUS
<1> QED
  BY <1>1, <1>2, <1>3 DEF Clean

\* Returning unacknowledged work to the front.
LEMMA CleanConcat ==
    ASSUME NEW s \in Seq(Work), NEW t \in Seq(Work), NEW T, Clean(s, T), Clean(t, T)
    PROVE  Clean(s \o t, T)
<1>1. PICK n \in Nat : n = Len(s)
  BY LenProperties
<1>2. PICK m \in Nat : m = Len(t)
  BY LenProperties
<1>3. /\ Len(s \o t) = n + m
      /\ \A i \in 1..(n + m) : (s \o t)[i] = IF i <= n THEN s[i] ELSE t[i - n]
  BY <1>1, <1>2, ConcatProperties
<1>4. \A i \in 1..(n + m) : (i <= n => i \in 1..n) /\ (~(i <= n) => i - n \in 1..m)
  OBVIOUS
<1> QED
  BY <1>1, <1>2, <1>3, <1>4 DEF Clean

\* What a turn leaves in the mailbox when it takes a prefix.
LEMMA CleanSuffix ==
    ASSUME NEW s \in Seq(Work), NEW T, Clean(s, T), NEW k \in 0..Len(s)
    PROVE  Clean(SubSeq(s, k + 1, Len(s)), T)
<1>1. PICK n \in Nat : n = Len(s)
  BY LenProperties
<1>2. PICK j \in Nat : j = k /\ j <= n
  BY <1>1
<1>3. SubSeq(s, j + 1, n) = [i \in 1..(n - j) |-> s[i + j]]
  <2>1. SubSeq(s, j + 1, n) = [i \in 1..(n - (j + 1) + 1) |-> s[i + (j + 1) - 1]]
    BY <1>1, <1>2
  <2>2. n - (j + 1) + 1 = n - j /\ \A i \in 1..(n - j) : i + (j + 1) - 1 = i + j
    BY <1>1, <1>2
  <2> QED
    BY <2>1, <2>2
<1>4. Len(SubSeq(s, j + 1, n)) = n - j
  BY <1>2, <1>3
<1>5. \A i \in 1..(n - j) : i + j \in 1..n
  BY <1>2
<1> QED
  BY <1>1, <1>2, <1>3, <1>4, <1>5 DEF Clean
\* Discarding work keeps a mailbox clean and rids it of the turns discarded.
LEMMA CleanWithout ==
    ASSUME NEW s \in Seq(Work), NEW T
    PROVE  /\ Clean(Without(s, T), T)
           /\ \A U : Clean(s, U) => Clean(Without(s, T), U)
<1> DEFINE kept == {i \in 1..Len(s) : s[i].turn \notin T}
           nth(j) == CHOOSE i \in kept : Cardinality({k \in kept : k <= i}) = j
<1>1. Len(s) \in Nat /\ kept \subseteq 1..Len(s)
  BY LenProperties
<1>2. IsFiniteSet(kept)
  <2>1. IsFiniteSet(1..Len(s))
    BY <1>1, FS_Interval
  <2> HIDE DEF kept
  <2> QED
    BY <1>1, <2>1, FS_Subset
<1>3. PICK c \in Nat : c = Cardinality(kept)
  BY <1>2, FS_CardinalityType
<1>4. \A j \in 1..Cardinality(kept) : nth(j) \in kept
  <2> SUFFICES ASSUME NEW j \in 1..Cardinality(kept) PROVE nth(j) \in kept
    OBVIOUS
  <2>1. \E i \in kept : Cardinality({k \in kept : k <= i}) = j
    <3> HIDE DEF kept
    <3>1. PICK n \in Nat : n = Len(s)
      BY <1>1
    <3>2. kept \in SUBSET (1..n)
      BY <1>1, <3>1
    <3> QED BY <3>2, NthExists, ZenonT(60)
  <2> QED
    BY <2>1
<1>5. Without(s, T) = [j \in 1..Cardinality(kept) |-> s[nth(j)]]
  BY DEF Without
<1>6. \A i \in kept : s[i].turn \notin T /\ i \in 1..Len(s)
  OBVIOUS
<1> HIDE DEF kept, nth
<1>7. Len(Without(s, T)) = c
  BY <1>3, <1>5
<1>8. \A j \in 1..c : Without(s, T)[j] = s[nth(j)] /\ nth(j) \in kept
  BY <1>3, <1>4, <1>5
<1> QED
  BY <1>6, <1>7, <1>8 DEF Clean

\* How the sets of turns and of children change.
LEMMA TurnsAborted ==
    ASSUME TypeOK, [Session]_vars
    PROVE  /\ used \subseteq used'
           /\ UNCHANGED aborted \/ agents' = {} \/ \E t \in Turns : AbortRootTurn(t)
           /\ \A b \in Agents : b \in agents' => b \in agents \/ Spawning(b)
<1> DEFINE Quiet == UNCHANGED <<used, agents, aborted>>
<1>1. ASSUME NEW a \in Agents, Spawning(a) \/ Starting(a)
      PROVE  /\ used \subseteq used' /\ UNCHANGED aborted
             /\ \A b \in Agents : b \in agents' => b \in agents \/ Spawning(b)
  <2>1. CASE Spawning(a)
    <3>1. used' = used \cup {a} /\ agents' = agents \cup {a} /\ UNCHANGED aborted
      BY <2>1 DEF Spawning, Spawn
    <3> QED
      BY <2>1, <3>1
  <2>2. CASE Starting(a)
    BY <2>2 DEF Starting, StartSupervisor, RollbackAdmission, SpawnerKilled, identVars, limitVars
  <2> QED
    BY <1>1, <2>1, <2>2
<1>2. ASSUME NEW a \in Agents, Supervise(a) \/ Steer(a) \/ Messages(a) \/ Suspending(a)
      PROVE  Quiet
  BY <1>2 DEF Supervise, TakeStartedWork, ResetCancel, RunReturns, RunCancelled,
              CommitSuspension, ResolveStatus, NextStep, Publish, Finish, Steer, SteerAcquire,
              SteerCommit, SteerRelease, Messages, QueueMessage, SendInput, SendQueue,
              SendRestart, Suspending, RequestSuspension, SendResume, ResumeDueRecord,
              ResumeSchedule, identVars, limitVars
<1>3. ASSUME NEW a \in Agents, Interrupts(a) \/ Shutdown(a) \/ StopRecord(a)
      PROVE  Quiet
  BY <1>3 DEF Interrupts, InterruptSubagent, CancelSuspension, InterruptOne, InterruptForTurn,
              InterruptRecord, RequestCancel, SlotReleased, Shutdown, CloseSubagent,
              ShutdownCancel, ShutdownClose, ShutdownStop, StopRecord, identVars, limitVars
<1>4. CASE RegistryWide \/ UNCHANGED vars
  <2>1. UNCHANGED used /\ (UNCHANGED agents \/ agents' = {})
        /\ (UNCHANGED aborted \/ agents' = {} \/ \E t \in Turns : AbortRootTurn(t))
    BY <1>4 DEF RegistryWide, ResumeDue, InterruptActive, InterruptDone, AbortRootTurn,
                CloseRegistry, CloseDone, ResetDone, StopRegistry, StopDone, SetMaxConcurrent,
                vars, identVars, limitVars
  <2> QED
    BY <2>1
<1> QED
  BY <1>1, <1>2, <1>3, <1>4, SessionCases

\* A child without children had none before.
LEMMA ChildlessBefore ==
    ASSUME TypeOK, [Session]_vars, NEW b \in Agents, Childless(b)'
    PROVE  Childless(b)
<1>0. used \subseteq used'
  BY TurnsAborted
<1>1. CASE UNCHANGED parent
  BY <1>0, <1>1 DEF Childless
<1>2. ASSUME NEW a \in Agents, Spawning(a)
      PROVE  Childless(b)
  <2>1. a \notin used /\ \A c \in Agents \ {a} : parent'[c] = parent[c]
    BY <1>2 DEF Spawning, Spawn, TypeOK
  <2> QED
    BY <1>0, <2>1 DEF Childless, TypeOK
<1>3. ASSUME NEW a \in Agents, Starting(a) \/ Supervise(a) \/ Steer(a)
      PROVE  UNCHANGED parent
  BY <1>3 DEF Starting, StartSupervisor, RollbackAdmission, SpawnerKilled, Supervise,
              TakeStartedWork, ResetCancel, RunReturns, RunCancelled, CommitSuspension,
              ResolveStatus, NextStep, Publish, Finish, Steer, SteerAcquire, SteerCommit,
              SteerRelease, identVars
<1>4. ASSUME NEW a \in Agents, Messages(a) \/ Suspending(a) \/ Interrupts(a)
      PROVE  UNCHANGED parent
  BY <1>4 DEF Messages, QueueMessage, SendInput, SendQueue, SendRestart, Suspending,
              RequestSuspension, SendResume, ResumeDueRecord, ResumeSchedule, Interrupts,
              InterruptSubagent, CancelSuspension, InterruptOne, InterruptForTurn,
              InterruptRecord, RequestCancel, SlotReleased, identVars
<1>5. ASSUME NEW a \in Agents, Shutdown(a) \/ StopRecord(a)
      PROVE  UNCHANGED parent
  BY <1>5 DEF Shutdown, CloseSubagent, ShutdownCancel, ShutdownClose, ShutdownStop, StopRecord,
              identVars
<1>6. CASE RegistryWide \/ UNCHANGED vars
  BY <1>1, <1>6 DEF RegistryWide, ResumeDue, InterruptActive, InterruptDone, AbortRootTurn,
              CloseRegistry, CloseDone, ResetDone, StopRegistry, StopDone, SetMaxConcurrent,
              vars, identVars
<1> QED
  BY <1>1, <1>2, <1>3, <1>4, <1>5, <1>6, SessionCases

\* An operation works on registered children only.
LEMMA StagesEntered ==
    ASSUME TypeOK, [Session]_vars, NEW b \in Agents, stage'[b] # "none"
    PROVE  stage[b] # "none" \/ b \in agents
<1> DEFINE Goal == stage[b] # "none" \/ b \in agents
<1>1. CASE UNCHANGED stage
  BY <1>1
<1>2. ~Unlock
  BY DEF Unlock, NoStage
<1>3. ASSUME NEW a \in Agents, NEW to, Move(a, to), stage[a] # "none"
      PROVE  Goal
  BY <1>3 DEF Move, TypeOK
<1>4. ASSUME NEW o, NEW S \in SUBSET agents, NEW first, Lock(o, S, first)
      PROVE  Goal
  BY <1>4 DEF Lock
<1>5. ASSUME NEW a \in Agents, Spawning(a) \/ Starting(a) \/ Supervise(a) \/ Steer(a)
      PROVE  UNCHANGED stage
  BY <1>5 DEF Spawning, Spawn, Starting, StartSupervisor, RollbackAdmission, SpawnerKilled,
              Supervise, TakeStartedWork, ResetCancel, RunReturns, RunCancelled,
              CommitSuspension, ResolveStatus, NextStep, Publish, Finish,
              Steer, SteerAcquire, SteerCommit, SteerRelease, lockVars
<1>6. ASSUME NEW a \in Agents, Messages(a) \/ Suspending(a)
      PROVE  Goal
  <2>1. ASSUME NEW t, NEW i, SendInput(a, t, i)
        PROVE  Goal
    BY <1>4, <2>1 DEF SendInput
  <2> QED
    BY <1>1, <1>2, <1>3, <1>6, <2>1
       DEF Messages, QueueMessage, SendQueue, SendRestart, Suspending, RequestSuspension,
           SendResume, ResumeDueRecord, ResumeSchedule, lockVars
<1>7. ASSUME NEW a \in Agents, Interrupts(a)
      PROVE  Goal
  <2>1. CASE InterruptSubagent(a)
    BY <1>4, <2>1 DEF InterruptSubagent
  <2> QED
    BY <1>2, <1>3, <1>7, <2>1
       DEF Interrupts, CancelSuspension, InterruptOne, InterruptForTurn, InterruptRecord,
           RequestCancel, SlotReleased
<1>8. ASSUME NEW a \in Agents, Shutdown(a) \/ StopRecord(a)
      PROVE  Goal
  <2>1. CASE CloseSubagent(a)
    <3>1. Descendants(a) \cup {a} \subseteq agents
      BY <2>1 DEF CloseSubagent, Descendants
    <3> QED
      BY <1>4, <2>1, <3>1 DEF CloseSubagent
  <2>2. CASE ShutdownCancel(a)
    BY <2>2 DEF ShutdownCancel, TypeOK
  <2> QED
    BY <1>2, <1>3, <1>8, <2>1, <2>2 DEF Shutdown, ShutdownClose, ShutdownStop, StopRecord
<1>9. CASE RegistryWide \/ UNCHANGED vars
  <2>1. Unlock \/ UNCHANGED stage \/ \E o, first : \E S \in SUBSET agents : Lock(o, S, first)
    <3>1. \A t : {a \in agents : phase[a].turn = t /\ phase[a].status \in {"pending", "running"}}
                 \in SUBSET agents
      OBVIOUS
    <3>2. {a \in agents : phase[a].status \in {"pending", "running"}} \in SUBSET agents
          /\ agents \in SUBSET agents
      OBVIOUS
    <3>3. \A t : AbortRootTurn(t) => \E o, first : \E S \in SUBSET agents : Lock(o, S, first)
      BY <3>1 DEF AbortRootTurn
    <3>4. InterruptActive => \E o, first : \E S \in SUBSET agents : Lock(o, S, first)
      BY <3>2 DEF InterruptActive
    <3> QED
      BY <1>9, <3>2, <3>3, <3>4
         DEF RegistryWide, ResumeDue, InterruptDone, CloseRegistry, CloseDone, ResetDone,
             StopRegistry, StopDone, SetMaxConcurrent, vars, lockVars
  <2> QED
    BY <1>1, <1>2, <1>4, <2>1
<1> QED
  BY <1>1, <1>5, <1>6, <1>7, <1>8, <1>9, SessionCases

\* Whatever puts work into a mailbox, it is the mailbox of a child that was handed
\* out, and the work is of no aborted turn, unless it is a completion of one of
\* the child's own children.
LEMMA MailMoves ==
    ASSUME TypeOK, ThreadInvariant, [Session]_vars, NEW b \in Agents,
           mailbox'[b] # mailbox[b], mailbox'[b] # <<>>
    PROVE  /\ b \in used \/ stage[b] # "none"
           /\ Childless(b) /\ Clean(mailbox[b], aborted) => Clean(mailbox'[b], aborted)
<1> DEFINE Fine == Childless(b) /\ Clean(mailbox[b], aborted) => Clean(mailbox'[b], aborted)
           Known == b \in used \/ stage[b] # "none"
<1>a. mailbox[b] \in Seq(Work) /\ steered[b] \in Seq(Work) /\ agents \subseteq used
  BY DEF TypeOK
<1>1. sup[b] # "none" \/ b \in agents => Known
  BY <1>a DEF ThreadInvariant
<1>2. ASSUME mailbox[b] # <<>>, mailbox'[b] = Tail(mailbox[b])
      PROVE  Fine
  BY <1>2, <1>a, CleanTail
<1>3. ASSUME NEW w \in Work, w.turn \notin aborted, mailbox'[b] = Append(mailbox[b], w)
      PROVE  Fine
  BY <1>3, <1>a, CleanAppend
<1>4. ASSUME NEW a \in Agents, SteeringEnded(a)
      PROVE  a = b /\ b \in steerOn /\ Fine
  <2>1. a = b /\ b \in steerOn /\ mailbox'[b] = Retained(b) \o mailbox[b]
    BY <1>4 DEF SteeringEnded, TypeOK
  <2>2. Retained(b) \in Seq(Work) /\ Clean(Retained(b), aborted)
    BY <1>a, WithoutType, CleanWithout DEF Retained
  <2> QED
    BY <1>a, <2>1, <2>2, CleanConcat
<1>5. ASSUME NEW a \in Agents, NEW t \in TurnOpt, NEW k \in Kinds, ~TurnAborted(t),
             Enqueue(a, [turn |-> t, kind |-> k])
      PROVE  a = b /\ Fine
  <2>1. PICK w : w = [turn |-> t, kind |-> k]
    OBVIOUS
  <2>2. w \in Work /\ w.turn \notin aborted
    BY <1>5, <2>1 DEF Work, TurnAborted
  <2>3. a = b /\ mailbox'[b] = Append(mailbox[b], w)
    BY <1>5, <2>1 DEF Enqueue, TypeOK
  <2> QED
    BY <1>3, <2>2, <2>3
<1>6. ASSUME NEW a \in Agents, Spawning(a) \/ Starting(a)
      PROVE  FALSE
  BY <1>6 DEF Spawning, Spawn, Starting, StartSupervisor, RollbackAdmission, SpawnerKilled,
              mailVars, TypeOK
<1>7. ASSUME NEW a \in Agents, Supervise(a)
      PROVE  Known /\ Fine
  <2>1. CASE Publish(a)
    <3>1. b = parent[a] /\ b \in agents
      BY <2>1 DEF Publish, Enqueue, TypeOK
    <3>2. a \in used
      BY <2>1 DEF Publish, At, ThreadInvariant
    <3> QED
      BY <1>1, <3>1, <3>2 DEF Childless
  <2>2. CASE ~Publish(a)
    <3>1. UNCHANGED mailbox
          \/ (sup[a] # "none" /\ mailbox[a] # <<>> /\ mailbox' = [mailbox EXCEPT ![a] = Tail(@)])
      <4>1. CASE NextStep(a)
        BY <4>1 DEF NextStep, SupervisorStep, Complete, At
      <4>2. CASE Finish(a)
        BY <4>2 DEF Finish, SupervisorStep, At
      <4> QED
        BY <1>7, <2>2, <4>1, <4>2
           DEF Supervise, TakeStartedWork, ResetCancel, RunReturns, RunCancelled,
               CommitSuspension, ResolveStatus, mailVars
    <3>2. a = b /\ sup[b] # "none" /\ mailbox[b] # <<>> /\ mailbox'[b] = Tail(mailbox[b])
      BY <3>1 DEF TypeOK
    <3> QED
      BY <1>1, <1>2, <3>2
  <2> QED
    BY <2>1, <2>2
<1>8. ASSUME NEW a \in Agents, Steer(a)
      PROVE  Known /\ Fine
  <2>1. CASE SteerAcquire(a)
    <3>1. PICK k \in 0..Len(mailbox[a]) :
            a \in agents /\ mailbox' = [mailbox EXCEPT ![a] = SubSeq(@, k + 1, Len(@))]
      BY <2>1 DEF SteerAcquire
    <3>2. a = b /\ mailbox'[b] = SubSeq(mailbox[b], k + 1, Len(mailbox[b]))
      BY <3>1 DEF TypeOK
    <3> QED
      BY <1>1, <1>a, <3>1, <3>2, CleanSuffix
  <2>2. CASE SteerRelease(a)
    <3>1. SteeringEnded(a) /\ sup[a] = "run"
      BY <2>2 DEF SteerRelease, At
    <3> QED
      BY <1>1, <1>4, <3>1
  <2> QED
    BY <1>8, <2>1, <2>2 DEF Steer, SteerCommit
<1>9. ASSUME NEW a \in Agents, Messages(a)
      PROVE  Known /\ Fine
  <2>1. CASE SendQueue(a)
    <3>1. /\ stage[a] # "none" /\ ~TurnAborted(op.turn)
          /\ Enqueue(a, [turn |-> op.turn, kind |-> "followup"])
      BY <2>1 DEF SendQueue
    <3>2. op.turn \in TurnOpt /\ "followup" \in Kinds
      BY DEF TypeOK, Op, Kinds
    <3> QED
      BY <1>1, <1>5, <3>1, <3>2
  <2>2. ASSUME NEW t \in TurnOpt, QueueMessage(a, t)
        PROVE  Known /\ Fine
    <3>1. a \in agents /\ ~TurnAborted(t) /\ Enqueue(a, [turn |-> t, kind |-> "queued"])
      BY <2>2 DEF QueueMessage
    <3>2. "queued" \in Kinds
      BY DEF Kinds
    <3> QED
      BY <1>1, <1>5, <3>1, <3>2
  <2> QED
    BY <1>9, <2>1, <2>2 DEF Messages, SendInput, SendRestart, mailVars
<1>10. ASSUME NEW a \in Agents, Suspending(a) \/ Interrupts(a)
       PROVE  Known /\ Fine
  <2>1. \/ UNCHANGED mailbox
        \/ /\ stage[a] # "none" /\ mailbox[a] # <<>>
           /\ mailbox' = [mailbox EXCEPT ![a] = Tail(@)]
        \/ mailbox' = [mailbox EXCEPT ![a] = <<>>]
    BY <1>10 DEF Suspending, RequestSuspension, SendResume, ResumeDueRecord, ResumeSchedule,
                 Interrupts, InterruptSubagent, CancelSuspension, InterruptOne, InterruptForTurn,
                 InterruptRecord, RequestCancel, SlotReleased, mailVars
  <2>2. a = b /\ stage[b] # "none" /\ mailbox[b] # <<>> /\ mailbox'[b] = Tail(mailbox[b])
    BY <2>1 DEF TypeOK
  <2> QED
    BY <1>2, <2>2
<1>11. ASSUME NEW a \in Agents, Shutdown(a) \/ StopRecord(a)
       PROVE  Known /\ Fine
  <2>1. CASE ShutdownStop(a) \/ StopRecord(a)
    <3>1. SteeringEnded(a) /\ stage[a] # "none"
      BY <2>1 DEF ShutdownStop, StopRecord
    <3> QED
      BY <1>4, <3>1
  <2>2. ~(CloseSubagent(a) \/ ShutdownCancel(a) \/ ShutdownClose(a))
    BY DEF CloseSubagent, ShutdownCancel, ShutdownClose, mailVars, TypeOK
  <2> QED
    BY <1>11, <2>1, <2>2 DEF Shutdown
<1>12. CASE RegistryWide \/ UNCHANGED vars
  <2>1. PICK t \in Turns : AbortRootTurn(t)
    BY <1>12 DEF RegistryWide, ResumeDue, InterruptActive, InterruptDone, CloseRegistry, CloseDone,
                 ResetDone, StopRegistry, StopDone, SetMaxConcurrent, mailVars, vars
  <2>2. b \in agents /\ mailbox'[b] = Without(mailbox[b], {t})
    BY <2>1 DEF AbortRootTurn
  <2> QED
    BY <1>1, <1>a, <2>2, CleanWithout
<1> QED
  BY <1>6, <1>7, <1>8, <1>9, <1>10, <1>11, <1>12, SessionCases

\* An id that was not handed out has no mail and no part in an operation.
UnusedIsBlank == \A a \in Agents \ used : mailbox[a] = <<>> /\ stage[a] = "none"

\* It stays so until it is handed out.
LEMMA UnusedStep ==
    ASSUME TypeOK, ThreadInvariant, UnusedIsBlank, [Session]_vars
    PROVE  UnusedIsBlank'
<1> SUFFICES ASSUME NEW b \in Agents, b \notin used'
             PROVE  mailbox'[b] = <<>> /\ stage'[b] = "none"
  BY DEF UnusedIsBlank
<1>1. b \notin used /\ b \notin agents
  BY TurnsAborted DEF TypeOK
<1>2. mailbox[b] = <<>> /\ stage[b] = "none"
  BY <1>1 DEF UnusedIsBlank
<1> QED
  BY <1>1, <1>2, MailMoves, StagesEntered

\* No work of an aborted turn is in the mailbox of a child without children.
MailIsLive == \A a \in agents : Childless(a) => Clean(mailbox[a], aborted)

\* Aborting a turn discards its work, and no step brings it back.
LEMMA MailIsLiveStep ==
    ASSUME TypeOK, TypeOK', ThreadInvariant, UnusedIsBlank, MailIsLive, [Session]_vars
    PROVE  MailIsLive'
<1> SUFFICES ASSUME NEW b \in agents', Childless(b)' PROVE Clean(mailbox'[b], aborted')
  BY DEF MailIsLive
<1>0. b \in Agents
  BY DEF TypeOK
<1>a. Childless(b)
  BY <1>0, ChildlessBefore
<1>1. CASE \E t \in Turns : AbortRootTurn(t)
  <2>1. PICK t \in Turns : AbortRootTurn(t)
    BY <1>1
  <2>2. b \in agents /\ mailbox'[b] = Without(mailbox[b], {t}) /\ aborted' = aborted \cup {t}
    BY <1>0, <2>1 DEF AbortRootTurn, identVars
  <2>3. mailbox[b] \in Seq(Work) /\ Clean(mailbox[b], aborted)
    BY <1>0, <1>a, <2>2 DEF TypeOK, MailIsLive
  <2>4. Clean(mailbox'[b], aborted) /\ Clean(mailbox'[b], {t})
    BY <2>2, <2>3, CleanWithout
  <2> QED
    BY <2>2, <2>4 DEF Clean
<1>2. CASE UNCHANGED aborted
  <2>1. b \in agents \/ b \notin used
    BY <1>0, TurnsAborted DEF Spawning, Spawn
  <2>2. Clean(mailbox[b], aborted)
    BY <1>0, <1>a, <2>1, CleanEmpty DEF MailIsLive, UnusedIsBlank
  <2>3. Clean(mailbox'[b], aborted)
    BY <1>0, <1>a, <2>2, MailMoves, CleanEmpty
  <2> QED
    BY <1>2, <2>3
<1> QED
  BY <1>1, <1>2, TurnsAborted

\* A resumption under way is for work of a turn that is not aborted.
SendIsLive ==
    op.kind = "send" => \A a \in Agents : stage[a] = "ready" => op.turn \notin aborted

\* Its admission checked that, and no abort gets the lock before it is done.
LEMMA SendIsLiveStep ==
    ASSUME TypeOK, SendIsLive, [Session]_vars
    PROVE  SendIsLive'
<1> USE DEF SendIsLive
<1>1. CASE UNCHANGED <<op, stage, aborted>>
  BY <1>1
<1>2. ASSUME op'.kind # "send" \/ (\A b \in Agents : stage'[b] # "ready")
      PROVE  SendIsLive'
  BY <1>2
<1>3. ASSUME Unlock
      PROVE  SendIsLive'
  BY <1>2, <1>3 DEF Unlock, NoOp
<1>4. ASSUME NEW a \in Agents, NEW to, Move(a, to), UNCHANGED aborted,
             to # "ready" \/ op.kind # "send" \/ ~TurnAborted(op.turn)
      PROVE  SendIsLive'
  BY <1>4 DEF Move, TurnAborted, TypeOK
<1>5. ASSUME NEW o, NEW S, NEW first, Lock(o, S, first), o.kind # "send" \/ first # "ready"
      PROVE  SendIsLive'
  <2>1. first # "ready" => \A b \in Agents : stage'[b] # "ready"
    BY <1>5 DEF Lock
  <2>2. op' = o
    BY <1>5 DEF Lock
  <2> QED
    BY <1>2, <1>5, <2>1, <2>2
<1>6. ASSUME NEW a \in Agents, Spawning(a) \/ Starting(a) \/ Supervise(a) \/ Steer(a)
      PROVE  UNCHANGED <<op, stage, aborted>>
  BY <1>6 DEF Spawning, Spawn, Starting, StartSupervisor, RollbackAdmission, SpawnerKilled,
              Supervise, TakeStartedWork, ResetCancel, RunReturns, RunCancelled,
              CommitSuspension, ResolveStatus, NextStep, Publish, Finish,
              Steer, SteerAcquire, SteerCommit, SteerRelease, lockVars, limitVars
<1>7. ASSUME NEW a \in Agents, Messages(a)
      PROVE  SendIsLive'
  <2>1. ASSUME NEW t, NEW i, SendInput(a, t, i)
        PROVE  SendIsLive'
    BY <1>5, <2>1 DEF SendInput
  <2> QED
    BY <1>1, <1>3, <1>4, <1>7, <2>1
       DEF Messages, QueueMessage, SendQueue, SendRestart, lockVars, limitVars
<1>8. ASSUME NEW a \in Agents, Suspending(a)
      PROVE  SendIsLive'
  BY <1>1, <1>3, <1>4, <1>8
     DEF Suspending, RequestSuspension, SendResume, ResumeDueRecord, ResumeSchedule,
         ResumeAdmitted, lockVars, limitVars
<1>9. ASSUME NEW a \in Agents, Interrupts(a)
      PROVE  SendIsLive'
  <2>1. CASE InterruptSubagent(a)
    BY <1>5, <2>1 DEF InterruptSubagent
  <2> QED
    BY <1>3, <1>4, <1>9, <2>1
       DEF Interrupts, CancelSuspension, InterruptOne, InterruptForTurn, InterruptRecord,
           RequestCancel, SlotReleased, limitVars
<1>10. ASSUME NEW a \in Agents, Shutdown(a) \/ StopRecord(a)
       PROVE  SendIsLive'
  <2>1. CASE CloseSubagent(a)
    BY <1>5, <2>1 DEF CloseSubagent
  <2>2. CASE ShutdownCancel(a)
    BY <1>2, <2>2 DEF ShutdownCancel, Shutting
  <2> QED
    BY <1>3, <1>4, <1>10, <2>1, <2>2
       DEF Shutdown, ShutdownClose, ShutdownStop, StopRecord, limitVars
<1>11. CASE RegistryWide \/ UNCHANGED vars
  <2>1. \/ UNCHANGED <<op, stage, aborted>> \/ Unlock
        \/ \E k \in OpKinds \ {"send"} : \E v, w, x, S, first : Lock(Call(k, v, w, x), S, first)
    <3>1. {"resume", "interruptAll", "abort", "stop", "closeAll", "reset"} \subseteq OpKinds \ {"send"}
      BY DEF OpKinds
    <3> QED
      BY <1>11, <3>1
         DEF RegistryWide, ResumeDue, InterruptActive, InterruptDone, AbortRootTurn,
             CloseRegistry, CloseDone, ResetDone, StopRegistry, StopDone, SetMaxConcurrent,
             lockVars, limitVars, vars
  <2>2. \A k, v, w, x : Call(k, v, w, x).kind = k
    BY DEF Call
  <2> QED
    BY <1>1, <1>3, <1>5, <2>1, <2>2
<1> QED
  BY <1>1, <1>6, <1>7, <1>8, <1>9, <1>10, <1>11, SessionCases

\* A child that ends a step with a slot for work of an aborted turn began it so:
\* no admission, resumption or mailbox hands such work out.
LEMMA TurnsTaken ==
    ASSUME TypeOK, UnusedIsBlank, MailIsLive, SendIsLive, [Session]_vars,
           NEW b \in agents', b \in Agents, Childless(b), HoldsSlot(phase'[b]), phase'[b].turn \in aborted
    PROVE  b \in agents /\ HoldsSlot(phase[b]) /\ phase'[b].turn = phase[b].turn
<1> DEFINE Goal == HoldsSlot(phase[b]) /\ phase'[b].turn = phase[b].turn
           Writes(a, r) == phase' = [phase EXCEPT ![a] = r]
<1>0. ~Spawning(b)
  <2> SUFFICES ASSUME Spawning(b) PROVE FALSE
    OBVIOUS
  <2>1. PICK p \in Agents \cup {Root}, t \in TurnOpt, pth \in Paths : Spawn(b, p, t, pth)
    BY DEF Spawning
  <2>2. Writes(b, Pending(t)) /\ t \notin aborted
    BY <2>1 DEF Spawn, TurnAborted
  <2> QED
    BY <2>2 DEF Pending, TypeOK
<1>1. b \in agents
  BY <1>0, TurnsAborted
<1>2. CASE phase'[b] = phase[b]
  BY <1>1, <1>2
<1>3. ASSUME NEW a \in Agents, NEW r, Writes(a, r), ~HoldsSlot(r) \/ r.turn \notin aborted
      PROVE  phase'[b] = phase[b]
  BY <1>3 DEF TypeOK
<1>4. ASSUME NEW a \in Agents, NEW r, Writes(a, r), HoldsSlot(phase[a]), r.turn = phase[a].turn
      PROVE  Goal
  <2>1. CASE a # b
    BY <1>2, <1>4, <2>1 DEF TypeOK
  <2>2. CASE a = b
    BY <1>4, <2>2 DEF TypeOK
  <2> QED
    BY <2>1, <2>2
<1>5. /\ ~HoldsSlot(ClosedPhase) /\ \A s, t : ~HoldsSlot(Idle(s, t))
      /\ \A t : Pending(t).turn = t /\ Running(t).turn = t /\ Interrupting(t).turn = t
  BY DEF HoldsSlot, ClosedPhase, Idle, Pending, Running, Interrupting
<1>6. NoTurn \notin aborted
  BY ConstantsAssumption DEF TypeOK
<1>7. mailbox[b] # <<>> => Head(mailbox[b]).turn \notin aborted
  BY <1>1, CleanTail DEF MailIsLive, TypeOK
<1>8. ASSUME NEW a \in Agents, mailbox[a] # <<>>,
             Writes(a, Running(Head(mailbox[a]).turn)) \/ Writes(a, Pending(Head(mailbox[a]).turn))
      PROVE  phase'[b] = phase[b]
  <2>1. CASE a # b
    BY <1>8, <2>1 DEF TypeOK
  <2>2. CASE a = b
    BY <1>3, <1>5, <1>7, <1>8, <2>2
  <2> QED
    BY <2>1, <2>2
<1>9. ASSUME NEW a \in Agents, Spawning(a) \/ Starting(a)
      PROVE  phase'[b] = phase[b]
  <2>1. CASE Spawning(a)
    <3>1. a # b /\ \E t : Writes(a, Pending(t))
      BY <1>0, <2>1, ZenonT(60) DEF Spawning, Spawn
    <3> QED
      BY <3>1 DEF TypeOK
  <2> QED
    BY <1>3, <1>5, <1>9, <2>1 DEF Starting, StartSupervisor, RollbackAdmission, SpawnerKilled
<1>10. ASSUME NEW a \in Agents, Supervise(a)
       PROVE  Goal
  <2>0. phase'[b] = phase[b] => Goal
    BY <1>2
  <2>1. \/ UNCHANGED phase
        \/ \E s, t : Writes(a, Idle(s, t))
        \/ phase[a].tag = "pending" /\ Writes(a, Running(phase[a].turn))
        \/ mailbox[a] # <<>> /\ Writes(a, Running(Head(mailbox[a]).turn))
    <3>1. CASE NextStep(a)
      BY <3>1 DEF NextStep, SupervisorStep, Complete, ToIdle
    <3>2. CASE Finish(a)
      BY <3>2 DEF Finish, SupervisorStep, ToIdle
    <3> QED
      BY <1>10, <3>1, <3>2
         DEF Supervise, TakeStartedWork, ResetCancel, RunReturns, RunCancelled,
             CommitSuspension, ResolveStatus, Publish
  <2>2. phase[a].tag = "pending" => HoldsSlot(phase[a])
    BY DEF HoldsSlot
  <2> QED
    BY <1>3, <1>4, <1>5, <1>8, <2>0, <2>1, <2>2
<1>11. ASSUME NEW a \in Agents, Steer(a) \/ Messages(a)
       PROVE  phase'[b] = phase[b]
  <2>1. UNCHANGED phase \/ (op.turn \notin aborted /\ Writes(a, Pending(op.turn)))
    BY <1>11 DEF Steer, SteerAcquire, SteerCommit, SteerRelease, Messages, QueueMessage, SendInput,
         SendQueue, SendRestart, Schedule, TurnAborted
  <2> QED
    BY <1>3, <1>5, <2>1
<1>12. ASSUME NEW a \in Agents, Suspending(a)
       PROVE  phase'[b] = phase[b]
  <2>1. \/ UNCHANGED phase
        \/ op.kind = "send" /\ stage[a] = "ready" /\ Writes(a, Pending(op.turn))
        \/ Writes(a, Pending(DueTurn(a)))
    BY <1>12 DEF Suspending, RequestSuspension, SendResume, ResumeDueRecord, ResumeSchedule,
                 Schedule
  <2>2. Writes(a, Pending(DueTurn(a))) => phase'[b] = phase[b]
    <3>1. CASE mailbox[a] # <<>>
      BY <1>8, <3>1 DEF DueTurn
    <3>2. CASE mailbox[a] = <<>>
      BY <1>3, <1>5, <1>6, <3>2 DEF DueTurn
    <3> QED
      BY <3>1, <3>2
  <2>3. op.kind = "send" /\ stage[a] = "ready" => op.turn \notin aborted
    BY DEF SendIsLive
  <2> QED
    BY <1>3, <1>5, <2>1, <2>2, <2>3
<1>13. ASSUME NEW a \in Agents, Interrupts(a)
       PROVE  Goal
  <2>0. phase'[b] = phase[b] => Goal
    BY <1>2
  <2>1. \/ UNCHANGED phase
        \/ \E s, t : Writes(a, Idle(s, t))
        \/ mailbox[a] # <<>> /\ Writes(a, Pending(Head(mailbox[a]).turn))
        \/ /\ phase[a].tag \in {"running", "interrupting"}
           /\ Writes(a, Interrupting(phase[a].turn))
    BY <1>13, ZenonT(60) DEF Interrupts, InterruptSubagent, CancelSuspension, InterruptOne, InterruptForTurn,
                 InterruptRecord, RequestCancel, SlotReleased, ToIdle
  <2>2. phase[a].tag \in {"running", "interrupting"} => HoldsSlot(phase[a])
    BY DEF HoldsSlot
  <2> QED
    BY <1>3, <1>4, <1>5, <1>8, <2>0, <2>1, <2>2
<1>14. ASSUME NEW a \in Agents, Shutdown(a) \/ StopRecord(a)
       PROVE  phase'[b] = phase[b]
  BY <1>3, <1>5, <1>14
     DEF Shutdown, CloseSubagent, ShutdownCancel, ShutdownClose, ShutdownStop, StopRecord
<1>15. CASE RegistryWide \/ UNCHANGED vars
  BY <1>2, <1>15 DEF RegistryWide, ResumeDue, InterruptActive, InterruptDone, AbortRootTurn,
               CloseRegistry, CloseDone, ResetDone, StopRegistry, StopDone, SetMaxConcurrent, vars
<1> HIDE DEF Goal
<1>16. Goal
  BY <1>2, <1>9, <1>10, <1>11, <1>12, <1>13, <1>14, <1>15, SessionCases DEF Goal
<1> QED
  BY <1>1, <1>16 DEF Goal

\* An abort works on each child it selected until it holds no slot.
LEMMA AbortGoesOn ==
    ASSUME TypeOK, ~PersistFaults, [Session]_vars, NEW b \in Agents,
           op.kind = "abort", stage[b] # "none", HoldsSlot(phase'[b]), phase'[b].turn = op.turn,
           phase[b].turn = op.turn, HoldsSlot(phase[b])
    PROVE  op' = op /\ stage'[b] # "none"
<1> DEFINE Goal == op' = op /\ stage'[b] # "none"
<1>1. CASE UNCHANGED <<op, stage>>
  BY <1>1
<1>2. ASSUME NEW a \in Agents, NEW to, Move(a, to), a # b \/ to # "none"
      PROVE  Goal
  BY <1>2 DEF Move, TypeOK
<1>3. ASSUME NEW a \in Agents, Spawning(a) \/ Starting(a) \/ Supervise(a) \/ Steer(a)
      PROVE  UNCHANGED <<op, stage>>
  BY <1>3 DEF Spawning, Spawn, Starting, StartSupervisor, RollbackAdmission, SpawnerKilled,
              Supervise, TakeStartedWork, ResetCancel, RunReturns, RunCancelled,
              CommitSuspension, ResolveStatus, NextStep, Publish, Finish,
              Steer, SteerAcquire, SteerCommit, SteerRelease, lockVars
<1>4. ASSUME NEW a \in Agents, Messages(a) \/ Suspending(a) \/ Shutdown(a) \/ StopRecord(a)
      PROVE  FALSE
  BY <1>4 DEF Messages, QueueMessage, SendInput, SendQueue, SendRestart, Suspending,
              RequestSuspension, SendResume, ResumeDueRecord, ResumeSchedule, Shutdown,
              CloseSubagent, ShutdownCancel, ShutdownClose, ShutdownStop, StopRecord, Free,
              Shutting
<1>5. ASSUME NEW a \in Agents, Interrupts(a)
      PROVE  Goal
  <2>1. CASE CancelSuspension(a)
    BY <1>2, <2>1 DEF CancelSuspension
  <2>2. CASE RequestCancel(a)
    BY <1>2, <2>2 DEF RequestCancel
  <2>3. CASE SlotReleased(a)
    BY <1>2, <2>3 DEF SlotReleased
  <2>4. CASE InterruptForTurn(a)
    <3>1. \/ Move(a, "cancelling")
          \/ Move(a, "none") /\ phase' = [phase EXCEPT ![a] = Idle("interrupted", op.turn)]
          \/ Move(a, "none") /\ (phase[a].turn # op.turn \/ ~HoldsSlot(phase[a]))
      BY <2>4 DEF InterruptForTurn
    <3>2. phase' = [phase EXCEPT ![a] = Idle("interrupted", op.turn)] => a # b
      BY DEF Idle, HoldsSlot, TypeOK
    <3> QED
      BY <1>2, <3>1, <3>2
  <2> QED
    BY <1>5, <2>1, <2>2, <2>3, <2>4
       DEF Interrupts, InterruptSubagent, InterruptOne, InterruptRecord, Free
<1>6. CASE RegistryWide \/ UNCHANGED vars
  <2>1. ~Drained /\ ~Free
    BY DEF Drained, NoStage, Free
  <2>2. UNCHANGED <<op, stage>>
    BY <1>6, <2>1
       DEF RegistryWide, ResumeDue, InterruptActive, InterruptDone, AbortRootTurn,
           CloseRegistry, CloseDone, ResetDone, StopRegistry, StopDone, SetMaxConcurrent,
           lockVars, vars
  <2> QED
    BY <1>1, <2>2
<1> QED
  BY <1>1, <1>3, <1>4, <1>5, <1>6, SessionCases

\* A child without children that holds a slot for an aborted turn is in the hands
\* of the abort.
TurnsSettle ==
    \A a \in agents : Childless(a) /\ HoldsSlot(phase[a]) /\ phase[a].turn \in aborted =>
        op.kind = "abort" /\ op.turn = phase[a].turn /\ stage[a] # "none"

\* The abort selects every such child, and leaves it only when it holds no slot.
LEMMA TurnsSettleStep ==
    ASSUME TypeOK, TypeOK', ~PersistFaults, StatusMatches, InterruptionIsLocked,
           UnusedIsBlank, MailIsLive, SendIsLive, TurnsSettle, [Session]_vars
    PROVE  TurnsSettle'
<1> SUFFICES ASSUME NEW b \in agents', Childless(b)', HoldsSlot(phase'[b]), phase'[b].turn \in aborted'
             PROVE  op'.kind = "abort" /\ op'.turn = phase'[b].turn /\ stage'[b] # "none"
  BY DEF TurnsSettle
<1>0. b \in Agents
  BY DEF TypeOK
<1>a. Childless(b)
  BY <1>0, ChildlessBefore
<1>1. CASE phase'[b].turn \in aborted
  <2>1. b \in agents /\ HoldsSlot(phase[b]) /\ phase'[b].turn = phase[b].turn
    BY <1>0, <1>a, <1>1, TurnsTaken
  <2>2. op.kind = "abort" /\ op.turn = phase[b].turn /\ stage[b] # "none"
    BY <1>a, <1>1, <2>1 DEF TurnsSettle
  <2> QED
    BY <1>0, <2>1, <2>2, AbortGoesOn
<1>2. ASSUME NEW t \in Turns, AbortRootTurn(t), phase'[b].turn \notin aborted
      PROVE  op'.kind = "abort" /\ op'.turn = phase'[b].turn /\ stage'[b] # "none"
  <2>1. /\ phase'[b] = phase[b] /\ b \in agents /\ aborted' = aborted \cup {t} /\ Free
        /\ Lock(Call("abort", t, "closed", FALSE),
                {a \in agents : phase[a].turn = t /\ phase[a].status \in {"pending", "running"}},
                "todo")
    BY <1>2 DEF AbortRootTurn, identVars
  <2>2. phase[b].turn = t
    BY <1>2, <2>1
  <2>3. phase[b].status \in {"pending", "running"}
    BY <1>0, <2>1 DEF StatusMatches, Matches, InterruptionIsLocked, Free, HoldsSlot
  <2>4. op' = Call("abort", t, "closed", FALSE) /\ stage'[b] = "todo"
    BY <1>0, <2>1, <2>2, <2>3 DEF Lock
  <2> QED
    BY <2>1, <2>2, <2>4 DEF Call
<1> QED
  BY <1>1, <1>2, TurnsAborted

\* A supervisor that works on a turn does so for a record that is not idle and not
\* pending, also while the registry is stopped.
WorkersRun == \A a \in Agents : sup[a] \in Working => phase[a].tag \notin {"idle", "pending"}

\* Records are made pending or idle by their own supervisor, or while it waits.
LEMMA WorkersRunStep ==
    ASSUME TypeOK, ThreadInvariant, WorkersRun, [Session]_vars
    PROVE  WorkersRun'
<1> USE DEF WorkersRun
<1>1. CASE UNCHANGED <<sup, phase>>
  BY <1>1
<1>2. ASSUME NEW a \in Agents,
             \A b \in Agents \ {a} : sup'[b] = sup[b] /\ phase'[b] = phase[b],
             sup'[a] \in Working => phase'[a].tag \notin {"idle", "pending"}
      PROVE  WorkersRun'
  BY <1>2
<1>3. ASSUME NEW a \in Agents, NEW r, phase' = [phase EXCEPT ![a] = r], UNCHANGED sup,
             r.tag \notin {"idle", "pending"} \/ sup[a] \notin Working
      PROVE  WorkersRun'
  BY <1>2, <1>3 DEF TypeOK
<1>4. ASSUME NEW a \in Agents, NEW r, NEW q, phase' = [phase EXCEPT ![a] = r],
             sup' = [sup EXCEPT ![a] = q], q \notin Working \/ r.tag \notin {"idle", "pending"}
      PROVE  WorkersRun'
  BY <1>2, <1>4 DEF TypeOK
<1>5. ASSUME NEW a \in Agents, NEW q, sup' = [sup EXCEPT ![a] = q], UNCHANGED phase,
             q \notin Working \/ sup[a] \in Working
      PROVE  WorkersRun'
  BY <1>2, <1>5 DEF TypeOK
<1>6. /\ ClosedPhase.tag = "closed" /\ \A t : Running(t).tag = "running"
      /\ \A t : Interrupting(t).tag = "interrupting"
      /\ "await" \notin Working /\ "exited" \notin Working /\ "none" \notin Working
  BY DEF ClosedPhase, Running, Interrupting, Working
<1>7. ASSUME NEW a \in Agents, Spawning(a) \/ Starting(a)
      PROVE  WorkersRun'
  <2>1. CASE Spawning(a)
    <3>1. a \notin used /\ UNCHANGED sup /\ \E r : phase' = [phase EXCEPT ![a] = r]
      BY <2>1, ZenonT(60) DEF Spawning, Spawn, supVars
    <3> QED
      BY <1>3, <1>6, <3>1 DEF ThreadInvariant
  <2> QED
    BY <1>3, <1>4, <1>5, <1>6, <1>7, <2>1
       DEF Starting, StartSupervisor, RollbackAdmission, SpawnerKilled, Killed, supVars
<1>8. ASSUME NEW a \in Agents, Supervise(a)
      PROVE  WorkersRun'
  <2>1. \/ GoTo(a, "await") /\ \E s : phase' = [phase EXCEPT ![a] = Idle(s, NoTurn)]
        \/ GoTo(a, "reset") /\ \E t : phase' = [phase EXCEPT ![a] = Running(t)]
        \/ UNCHANGED phase /\ (GoTo(a, "await") \/ GoTo(a, "exited"))
        \/ UNCHANGED phase /\ sup[a] \in Working /\ \E q : GoTo(a, q)
    <3>1. CASE NextStep(a)
      BY <3>1 DEF NextStep, SupervisorStep, Complete, ToIdle, At, Working
    <3>2. CASE Finish(a)
      BY <3>2 DEF Finish, SupervisorStep, ToIdle
    <3>3. CASE TakeStartedWork(a)
      BY <3>3 DEF TakeStartedWork
    <3> QED
      BY <1>8, <3>1, <3>2, <3>3
         DEF Supervise, ResetCancel, RunReturns, RunCancelled, CommitSuspension, ResolveStatus,
             Publish, At, Working
  <2> QED
    BY <1>4, <1>5, <1>6, <2>1 DEF GoTo
<1>9. ASSUME NEW a \in Agents, Steer(a) \/ Messages(a) \/ Suspending(a)
      PROVE  WorkersRun'
  <2>1. /\ UNCHANGED sup
        /\ \/ UNCHANGED phase
           \/ phase[a].tag = "idle" /\ \E r : phase' = [phase EXCEPT ![a] = r]
    BY <1>9 DEF Steer, SteerAcquire, SteerCommit, SteerRelease, Messages, QueueMessage, SendInput,
         SendQueue, SendRestart, Suspending, RequestSuspension, SendResume, ResumeDueRecord,
         ResumeSchedule, Schedule, Schedulable, supVars
  <2> QED
    BY <1>1, <1>3, <2>1
<1>10. ASSUME NEW a \in Agents, Interrupts(a)
       PROVE  WorkersRun'
  <2>1. /\ UNCHANGED sup
        /\ \/ UNCHANGED phase
           \/ phase[a].tag \in {"idle", "pending"} /\ \E r : phase' = [phase EXCEPT ![a] = r]
           \/ \E t : phase' = [phase EXCEPT ![a] = Interrupting(t)]
    BY <1>10, ZenonT(60)
       DEF Interrupts, InterruptSubagent, CancelSuspension, InterruptOne, InterruptForTurn,
           InterruptRecord, RequestCancel, SlotReleased, ToIdle, supVars
  <2> QED
    BY <1>1, <1>3, <1>6, <2>1
<1>11. ASSUME NEW a \in Agents, Shutdown(a) \/ StopRecord(a)
       PROVE  WorkersRun'
  BY <1>1, <1>3, <1>5, <1>6, <1>11
     DEF Shutdown, CloseSubagent, ShutdownCancel, ShutdownClose, ShutdownStop, StopRecord, Killed,
         supVars
<1>12. CASE RegistryWide \/ UNCHANGED vars
  BY <1>1, <1>12
     DEF RegistryWide, ResumeDue, InterruptActive, InterruptDone, AbortRootTurn, CloseRegistry,
         CloseDone, ResetDone, StopRegistry, StopDone, SetMaxConcurrent, vars, supVars
<1> QED
  BY <1>1, <1>7, <1>8, <1>9, <1>10, <1>11, <1>12, SessionCases

\* Work waits in the input queue of a turn only while the turn takes messages.
SteeredIsHeld == \A a \in Agents : steered[a] # <<>> => a \in steerOn

\* The queue is emptied when steering ends, and takes nothing before it begins.
LEMMA SteeredIsHeldStep ==
    ASSUME TypeOK, SteeredIsHeld, [Session]_vars
    PROVE  SteeredIsHeld'
<1> USE DEF SteeredIsHeld
<1>1. CASE UNCHANGED <<steerOn, steered>>
  BY <1>1
<1>2. ASSUME NEW a \in Agents, steerOn' = steerOn \ {a}, steered' = [steered EXCEPT ![a] = <<>>]
      PROVE  SteeredIsHeld'
  BY <1>2 DEF TypeOK
<1>3. ASSUME NEW a \in Agents, NEW w, Enqueue(a, w), UNCHANGED steerOn
      PROVE  SteeredIsHeld'
  BY <1>3 DEF Enqueue, TypeOK
<1>4. ASSUME NEW a \in Agents, Spawning(a) \/ Starting(a)
      PROVE  SteeredIsHeld'
  BY <1>1, <1>2, <1>4
     DEF Spawning, Spawn, Starting, StartSupervisor, RollbackAdmission, SpawnerKilled, mailVars
<1>5. ASSUME NEW a \in Agents, Supervise(a)
      PROVE  SteeredIsHeld'
  <2>1. CASE Publish(a)
    <3>1. UNCHANGED steerOn
          /\ (UNCHANGED steered \/ \E c \in Agents : \E w : Enqueue(c, w))
      BY <2>1 DEF Publish, TypeOK
    <3> QED
      BY <1>1, <1>3, <3>1
  <2> QED
    BY <1>1, <1>5, <2>1
       DEF Supervise, TakeStartedWork, ResetCancel, RunReturns, RunCancelled, CommitSuspension,
           ResolveStatus, NextStep, Finish, mailVars
<1>6. ASSUME NEW a \in Agents, Steer(a)
      PROVE  SteeredIsHeld'
  <2>1. CASE SteerAcquire(a)
    BY <2>1 DEF SteerAcquire, TypeOK
  <2>2. CASE SteerCommit(a)
    BY <2>2 DEF SteerCommit, TypeOK
  <2> QED
    BY <1>2, <1>6, <2>1, <2>2 DEF Steer, SteerRelease, SteeringEnded
<1>7. ASSUME NEW a \in Agents, Messages(a)
      PROVE  SteeredIsHeld'
  BY <1>1, <1>3, <1>7 DEF Messages, QueueMessage, SendInput, SendQueue, SendRestart, mailVars
<1>8. ASSUME NEW a \in Agents, Suspending(a) \/ Interrupts(a)
      PROVE  UNCHANGED <<steerOn, steered>>
  BY <1>8 DEF Suspending, RequestSuspension, SendResume, ResumeDueRecord, ResumeSchedule,
              Interrupts, InterruptSubagent, CancelSuspension, InterruptOne, InterruptForTurn,
              InterruptRecord, RequestCancel, SlotReleased, mailVars
<1>9. ASSUME NEW a \in Agents, Shutdown(a) \/ StopRecord(a)
      PROVE  SteeredIsHeld'
  BY <1>1, <1>2, <1>9
     DEF Shutdown, CloseSubagent, ShutdownCancel, ShutdownClose, ShutdownStop, StopRecord,
         SteeringEnded, mailVars
<1>10. CASE RegistryWide \/ UNCHANGED vars
  BY <1>1, <1>10
     DEF RegistryWide, ResumeDue, InterruptActive, InterruptDone, AbortRootTurn, CloseRegistry,
         CloseDone, ResetDone, StopRegistry, StopDone, SetMaxConcurrent, vars, mailVars
<1> QED
  BY <1>1, <1>4, <1>5, <1>6, <1>7, <1>8, <1>9, <1>10, SessionCases

\* Whatever is spawned, nested, sent, resumed, returned or restarted, and whatever
\* storage does: from the moment abortRootTurn marks a turn, no child without
\* children of its own has mail of that turn.
THEOREM AbortedMailDiscarded == SessionSpec => []AbortDiscardsMail
<1>1. Init => StatusMatches /\ ThreadInvariant /\ UnusedIsBlank /\ MailIsLive
  <2>1. Init => UnusedIsBlank /\ MailIsLive
    BY DEF Init, UnusedIsBlank, MailIsLive, NoStage
  <2> QED
    BY <2>1, ThreadInit
<1>2. [Session]_vars => [Next]_vars
  BY DEF Next
<1>3. /\ TypeOK /\ TypeOK' /\ SlotInvariant /\ StatusMatches /\ ThreadInvariant
      /\ UnusedIsBlank /\ MailIsLive /\ [Session]_vars
      => StatusMatches' /\ ThreadInvariant' /\ UnusedIsBlank' /\ MailIsLive'
  BY <1>2, StatusStep, ThreadStep, UnusedStep, MailIsLiveStep
<1>4. MailIsLive => AbortDiscardsMail
  BY DEF MailIsLive, Clean, AbortDiscardsMail
<1> QED
  BY <1>1, <1>2, <1>3, <1>4, TypeCorrect, SlotsCounted, PTL DEF Spec, SessionSpec

\* After abortRootTurn returned, a child without children of its own holds no slot
\* for the turn and has no mail of it, and a turn that still holds work of it in
\* its input queue runs for another owner. Storage is assumed not to fail: the
\* failure of a cancelled suspension is thrown, and then the abort does not return.
THEOREM AbortedTurnsSettled == SessionSpec /\ ~PersistFaults => []AbortedTurnSettled
<1> SUFFICES ASSUME ~PersistFaults PROVE SessionSpec => []AbortedTurnSettled
  OBVIOUS
<1>1. Init => /\ StatusMatches /\ ThreadInvariant /\ InterruptionIsLocked
              /\ UnusedIsBlank /\ MailIsLive /\ SendIsLive /\ TurnsSettle
              /\ SteeredRuns /\ SteeredIsHeld /\ WorkersRun
  <2>1. Init => UnusedIsBlank /\ MailIsLive /\ SendIsLive /\ TurnsSettle
    BY DEF Init, UnusedIsBlank, MailIsLive, SendIsLive, TurnsSettle, NoStage
  <2>2. Init => SteeredRuns /\ SteeredIsHeld /\ WorkersRun
    BY DEF Init, SteeredRuns, SteeredIsHeld, WorkersRun, Working
  <2> QED
    BY <2>1, <2>2, ThreadInit
<1>2. [Session]_vars => [Next]_vars
  BY DEF Next
<1>3. /\ TypeOK /\ TypeOK' /\ SlotInvariant /\ StatusMatches /\ ThreadInvariant
      /\ InterruptionIsLocked /\ UnusedIsBlank /\ MailIsLive /\ SendIsLive
      /\ TurnsSettle /\ SteeredRuns /\ SteeredIsHeld /\ WorkersRun /\ [Session]_vars
      => /\ StatusMatches' /\ ThreadInvariant' /\ InterruptionIsLocked'
         /\ UnusedIsBlank' /\ MailIsLive' /\ SendIsLive' /\ TurnsSettle'
         /\ SteeredRuns' /\ SteeredIsHeld' /\ WorkersRun'
  <2>1. FaultsAreContained
    BY DEF FaultsAreContained
  <2> QED
    BY <1>2, <2>1, StatusStep, ThreadStep, InterruptionStep, UnusedStep, MailIsLiveStep,
       SendIsLiveStep, TurnsSettleStep, SteeringStep, SteeredIsHeldStep, WorkersRunStep
<1>4. /\ TypeOK /\ StatusMatches /\ MailIsLive /\ TurnsSettle /\ SteeredRuns /\ SteeredIsHeld
      /\ WorkersRun
      => AbortedTurnSettled
  <2> SUFFICES ASSUME TypeOK, StatusMatches, MailIsLive, TurnsSettle, SteeredRuns, SteeredIsHeld,
                      WorkersRun, NEW t \in aborted, ~(op.kind = "abort" /\ op.turn = t),
                      NEW a \in agents, Childless(a)
               PROVE  /\ HoldsSlot(phase[a]) => phase[a].turn # t
                      /\ \A i \in 1..Len(mailbox[a]) : mailbox[a][i].turn # t
                      /\ \A i \in 1..Len(steered[a]) :
                           steered[a][i].turn = t => sup[a] = "run" /\ phase[a].turn # t
    BY DEF AbortedTurnSettled
  <2>0. a \in Agents /\ t \in Turns
    BY DEF TypeOK
  <2>1. HoldsSlot(phase[a]) => phase[a].turn # t
    BY DEF TurnsSettle
  <2>2. \A i \in 1..Len(mailbox[a]) : mailbox[a][i].turn # t
    BY DEF MailIsLive, Clean
  <2>3. ASSUME NEW i \in 1..Len(steered[a])
        PROVE  sup[a] = "run" /\ phase[a].turn # t
    <3>1. steered[a] # <<>>
      BY <2>0, <2>3 DEF TypeOK
    <3>2. sup[a] = "run"
      BY <2>0, <3>1 DEF SteeredIsHeld, SteeredRuns
    <3>3. phase[a].tag \in {"running", "interrupting", "closed"}
      BY <2>0, <3>2 DEF WorkersRun, Working, TypeOK, Phases, Tags
    <3>4. phase[a].tag = "closed" => phase[a].turn # t
      BY <2>0, ConstantsAssumption DEF StatusMatches, Matches
    <3> QED
      BY <2>1, <3>2, <3>3, <3>4 DEF HoldsSlot
  <2> QED
    BY <2>1, <2>2, <2>3
<1> QED
  BY <1>1, <1>2, <1>3, <1>4, TypeCorrect, SlotsCounted, PTL DEF Spec, SessionSpec

-----------------------------------------------------------------------------
(* Children that sleep                                                     *)

\* A host whose children suspend themselves closes single children, and never
\* the registry.
StaysOpen == ~closed /\ op.kind \in {"none", "send", "resume", "interrupt", "close"}

\* Its operations are steps of a session.
LEMMA SleepersAreSession ==
    [Sleepers]_vars => [Session]_vars /\ [Next]_vars
BY DEF Sleepers, Children, Rousing, InterruptSleeping, Session, Interrupts, Next

\* Nothing it does closes the registry.
LEMMA StaysOpenStep ==
    ASSUME TypeOK, StaysOpen, [Sleepers]_vars
    PROVE  StaysOpen'
<1> USE DEF StaysOpen
<1>1. CASE UNCHANGED <<op, closed>>
  BY <1>1
<1>2. ASSUME Unlock, UNCHANGED closed
      PROVE  StaysOpen'
  BY <1>2 DEF Unlock, NoOp
<1>3. ASSUME NEW a, NEW to, Move(a, to), UNCHANGED closed
      PROVE  StaysOpen'
  BY <1>3 DEF Move
<1>4. ASSUME NEW k \in {"send", "resume", "interrupt", "close"}, NEW t, NEW s, NEW f, NEW S, NEW first,
             Lock(Call(k, t, s, f), S, first), UNCHANGED closed
      PROVE  StaysOpen'
  BY <1>4 DEF Lock, Call
<1>5. ASSUME NEW a \in Agents, Children(a)
      PROVE  UNCHANGED <<op, closed>>
  BY <1>5 DEF Children, Spawning, Spawn, Starting, StartSupervisor, RollbackAdmission,
              SpawnerKilled, Supervise, TakeStartedWork, ResetCancel, RunReturns, RunCancelled,
              CommitSuspension, ResolveStatus, NextStep, Publish, Finish, lockVars, limitVars
<1>6. ASSUME NEW a \in Agents, Messages(a)
      PROVE  StaysOpen'
  <2>1. ASSUME NEW t, NEW i, SendInput(a, t, i)
        PROVE  StaysOpen'
    BY <1>4, <2>1 DEF SendInput, limitVars
  <2> QED
    BY <1>1, <1>2, <1>3, <1>6, <2>1
       DEF Messages, QueueMessage, SendQueue, SendRestart, lockVars, limitVars
<1>7. ASSUME NEW a \in Agents, Suspending(a) \/ RequestCancel(a)
      PROVE  StaysOpen'
  BY <1>1, <1>2, <1>3, <1>7
     DEF Suspending, RequestSuspension, SendResume, ResumeDueRecord, ResumeSchedule,
         RequestCancel, lockVars, limitVars
<1>8. ASSUME NEW a \in Agents, Shutdown(a)
      PROVE  StaysOpen'
  <2>1. CASE CloseSubagent(a)
    BY <1>4, <2>1 DEF CloseSubagent, limitVars
  <2> QED
    BY <1>1, <1>2, <1>3, <1>8, <2>1
       DEF Shutdown, ShutdownCancel, ShutdownClose, ShutdownStop, limitVars
<1>9. CASE ResumeDue
  BY <1>4, <1>9 DEF ResumeDue, limitVars
<1>10. CASE CloseDone \/ InterruptDone
  BY <1>2, <1>10 DEF CloseDone, InterruptDone, limitVars
<1>11. CASE UNCHANGED vars
  BY <1>1, <1>11 DEF vars, limitVars, lockVars
<1>12. ASSUME NEW a \in Agents, Rousing(a)
       PROVE  StaysOpen'
  <2>1. CASE InterruptSubagent(a)
    BY <1>4, <2>1 DEF InterruptSubagent, limitVars
  <2> QED
    BY <1>2, <1>3, <1>12, <2>1
       DEF Rousing, InterruptSleeping, CancelSuspension, InterruptOne, limitVars
<1> QED
  BY <1>1, <1>5, <1>6, <1>7, <1>8, <1>9, <1>10, <1>11, <1>12 DEF Sleepers

\* A message or an interrupt is for one child, and one child at a time is being
\* resumed.
OneAtATime ==
    /\ op.kind \in {"send", "resume"} =>
         \A a, b \in Agents : stage[a] = "ready" /\ stage[b] = "ready" => a = b
    /\ op.kind \in {"send", "interrupt"} =>
         \A a, b \in Agents : stage[a] # "none" /\ stage[b] # "none" => a = b

\* The operations that hold the lock keep to that.
LEMMA OneAtATimeStep ==
    ASSUME TypeOK, OneAtATime, [Sleepers]_vars
    PROVE  OneAtATime'
<1>1. CASE UNCHANGED <<op, stage>>
  BY <1>1 DEF OneAtATime
<1>2. ASSUME op'.kind \notin {"send", "resume", "interrupt"}
      PROVE  OneAtATime'
  BY <1>2 DEF OneAtATime
<1>3. ASSUME Unlock
      PROVE  OneAtATime'
  BY <1>2, <1>3 DEF Unlock, NoOp
<1>4. ASSUME NEW a \in Agents, NEW to, Move(a, to), stage[a] # "none",
             to # "ready" \/ op.kind # "resume" \/ \A b \in Agents : stage[b] # "ready"
      PROVE  OneAtATime'
  <2>1. op' = op /\ stage'[a] = to /\ \A b \in Agents \ {a} : stage'[b] = stage[b]
    BY <1>4 DEF Move, TypeOK
  <2>2. \A b \in Agents : stage'[b] # "none" => stage[b] # "none"
    BY <1>4, <2>1
  <2>3. op.kind \in {"send", "interrupt"} =>
          \A c, d \in Agents : stage'[c] # "none" /\ stage'[d] # "none" => c = d
    BY <2>2 DEF OneAtATime
  <2>4. ASSUME op.kind = "resume", NEW c \in Agents, NEW d \in Agents,
               stage'[c] = "ready", stage'[d] = "ready"
        PROVE  c = d
    BY <1>4, <2>1, <2>4 DEF OneAtATime
  <2> QED
    BY <2>1, <2>3, <2>4 DEF OneAtATime
<1>5. ASSUME NEW a \in Agents, Children(a)
      PROVE  UNCHANGED <<op, stage>>
  BY <1>5 DEF Children, Spawning, Spawn, Starting, StartSupervisor, RollbackAdmission,
              SpawnerKilled, Supervise, TakeStartedWork, ResetCancel, RunReturns, RunCancelled,
              CommitSuspension, ResolveStatus, NextStep, Publish, Finish, lockVars
<1>6. ASSUME NEW a \in Agents, Messages(a)
      PROVE  OneAtATime'
  <2>1. ASSUME NEW t, NEW i, SendInput(a, t, i)
        PROVE  OneAtATime'
    <3>1. \A b \in Agents : stage'[b] # "none" => b = a
      BY <2>1 DEF SendInput, Lock
    <3> QED
      BY <3>1 DEF OneAtATime
  <2> QED
    BY <1>1, <1>3, <1>4, <1>6, <2>1 DEF Messages, QueueMessage, SendQueue, SendRestart, lockVars
<1>7. ASSUME NEW a \in Agents, Suspending(a) \/ RequestCancel(a)
      PROVE  OneAtATime'
  BY <1>1, <1>3, <1>4, <1>7
     DEF Suspending, RequestSuspension, SendResume, ResumeDueRecord, ResumeSchedule,
         RequestCancel, lockVars
<1>8. ASSUME NEW a \in Agents, Shutdown(a)
      PROVE  OneAtATime'
  <2>1. op'.kind \notin {"send", "resume", "interrupt"}
    BY <1>8 DEF Shutdown, CloseSubagent, ShutdownCancel, ShutdownClose, ShutdownStop, Shutting,
                Move, Lock, Call, Unlock, NoOp
  <2> QED
    BY <1>2, <2>1
<1>9. CASE ResumeDue
  <2>1. op'.kind = "resume" /\ \A b \in Agents : stage'[b] # "ready"
    BY <1>9 DEF ResumeDue, Lock, Call
  <2> QED
    BY <2>1 DEF OneAtATime
<1>10. CASE CloseDone \/ InterruptDone
  BY <1>3, <1>10 DEF CloseDone, InterruptDone
<1>11. CASE UNCHANGED vars
  BY <1>1, <1>11 DEF vars, lockVars
<1>12. ASSUME NEW a \in Agents, Rousing(a)
       PROVE  OneAtATime'
  <2>1. CASE InterruptSubagent(a)
    <3>1. op'.kind = "interrupt" /\ \A b \in Agents : stage'[b] # "none" => b = a
      BY <2>1 DEF InterruptSubagent, Lock, Call
    <3> QED
      BY <3>1 DEF OneAtATime
  <2> QED
    BY <1>3, <1>4, <1>12, <2>1 DEF Rousing, InterruptSleeping, CancelSuspension, InterruptOne
<1> QED
  BY <1>1, <1>5, <1>6, <1>7, <1>8, <1>9, <1>10, <1>11, <1>12 DEF Sleepers

\* A child that sleeps is idle and is not in preparation.
SleepersIdle ==
    \A a \in Agents : phase[a].status = "suspended" => phase[a].tag = "idle" /\ a \notin prep

\* Its thread waits for work.
LEMMA SleeperWaits ==
    ASSUME TypeOK, SlotInvariant, ThreadInvariant, StaysOpen, SleepersIdle,
           NEW a \in Agents, phase[a].status = "suspended"
    PROVE  sup[a] = "await"
<1>1. phase[a].tag = "idle" /\ a \notin prep
  BY DEF SleepersIdle
<1>2. FitsAt(sup[a], phase[a].tag, a \in prep)
  BY DEF StaysOpen, SlotInvariant, ThreadInvariant, Ended, Fits
<1>3. sup[a] \in Working \cup {"await", "exited", "none"}
  BY DEF TypeOK, Points, Working
<1> QED
  BY <1>1, <1>2, <1>3 DEF FitsAt

\* So only the end of a resumption, an interrupt and a shutdown take it out of its
\* sleep.
LEMMA SleeperWoken ==
    ASSUME TypeOK, SlotInvariant, ThreadInvariant, StaysOpen, SleepersIdle,
           NEW a \in Agents, phase[a].status = "suspended", [Sleepers]_vars
    PROVE  /\ a \notin prep'
           /\ \/ phase'[a] = phase[a] \/ ShutdownClose(a) \/ InterruptOne(a)
              \/ ResumeSchedule(a) /\ Schedulable(a)
              \/ op.kind = "send" /\ op.seen # "suspended" /\ stage[a] # "none"
<1> DEFINE Goal == /\ a \notin prep'
                   /\ \/ phase'[a] = phase[a] \/ ShutdownClose(a) \/ InterruptOne(a)
                      \/ ResumeSchedule(a) /\ Schedulable(a)
                      \/ op.kind = "send" /\ op.seen # "suspended" /\ stage[a] # "none"
<1>1. sup[a] = "await" /\ phase[a].tag = "idle" /\ a \notin prep /\ a \in used
  <2>1. sup[a] = "await"
    BY SleeperWaits
  <2> QED
    BY <2>1 DEF SleepersIdle, ThreadInvariant
<1>2. ASSUME NEW b \in Agents, b # a, NEW r, UNCHANGED phase \/ phase' = [phase EXCEPT ![b] = r]
      PROVE  phase'[a] = phase[a]
  BY <1>2 DEF TypeOK
<1>3. ASSUME NEW b \in Agents, Spawning(b) \/ Starting(b)
      PROVE  Goal
  <2>1. a # b
    BY <1>1, <1>3 DEF Spawning, Spawn, Starting, StartSupervisor, RollbackAdmission, SpawnerKilled
  <2>2. a \notin prep'
    BY <1>1, <1>3, <2>1 DEF Spawning, Spawn, Starting, StartSupervisor, RollbackAdmission, SpawnerKilled
  <2>3. UNCHANGED phase \/ \E r : phase' = [phase EXCEPT ![b] = r]
    BY <1>3 DEF Spawning, Spawn, Starting, StartSupervisor, RollbackAdmission, SpawnerKilled
  <2> QED
    BY <1>2, <2>1, <2>2, <2>3
<1>4. ASSUME NEW b \in Agents, Supervise(b)
      PROVE  Goal
  <2>1. a # b
    BY <1>1, <1>4
       DEF Supervise, TakeStartedWork, ResetCancel, RunReturns, RunCancelled, CommitSuspension,
           ResolveStatus, NextStep, Publish, Finish, At
  <2>2. a \notin prep'
    BY <1>1, <1>4 DEF Supervise, TakeStartedWork, ResetCancel, RunReturns, RunCancelled,
                CommitSuspension, ResolveStatus, NextStep, Publish, Finish
  <2>3. UNCHANGED phase \/ \E r : phase' = [phase EXCEPT ![b] = r]
    <3>1. CASE NextStep(b)
      BY <3>1 DEF NextStep, SupervisorStep, Complete, ToIdle
    <3>2. CASE Finish(b)
      BY <3>2 DEF Finish, SupervisorStep, ToIdle
    <3> QED
      BY <1>4, <3>1, <3>2
         DEF Supervise, TakeStartedWork, ResetCancel, RunReturns, RunCancelled,
             CommitSuspension, ResolveStatus, Publish
  <2> QED
    BY <1>2, <2>1, <2>2, <2>3
<1>5. ASSUME NEW b \in Agents, Messages(b) \/ Suspending(b) \/ RequestCancel(b) \/ Shutdown(b)
      PROVE  Goal
  <2>1. a \notin prep'
    BY <1>1, <1>5 DEF Messages, QueueMessage, SendInput, SendQueue, SendRestart, Suspending,
                RequestSuspension, SendResume, ResumeDueRecord, ResumeSchedule, RequestCancel,
                Shutdown, CloseSubagent, ShutdownCancel, ShutdownClose, ShutdownStop
  <2>2. CASE UNCHANGED phase
    BY <2>1, <2>2
  <2>3. CASE SendRestart(b)
    <3>1. op.kind = "send" /\ op.seen # "suspended" /\ stage[b] # "none"
          /\ (UNCHANGED phase \/ \E r : phase' = [phase EXCEPT ![b] = r])
      BY <2>3 DEF SendRestart, Schedule
    <3> QED
      BY <1>2, <2>1, <3>1
  <2>4. CASE ResumeSchedule(b)
    <3>1. UNCHANGED phase \/ (Schedulable(b) /\ \E r : phase' = [phase EXCEPT ![b] = r])
      BY <2>4 DEF ResumeSchedule, Schedule
    <3> QED
      BY <1>2, <2>1, <2>4, <3>1
  <2>5. CASE ShutdownClose(b)
    <3>1. \E r : phase' = [phase EXCEPT ![b] = r]
      BY <2>5 DEF ShutdownClose
    <3> QED
      BY <1>2, <2>1, <2>5, <3>1
  <2> QED
    BY <1>5, <2>2, <2>3, <2>4, <2>5
       DEF Messages, QueueMessage, SendInput, SendQueue, Suspending, RequestSuspension,
           SendResume, ResumeDueRecord, RequestCancel, Shutdown, CloseSubagent, ShutdownCancel,
           ShutdownStop
<1>6. CASE ResumeDue \/ CloseDone \/ InterruptDone \/ UNCHANGED vars
  BY <1>1, <1>6 DEF ResumeDue, CloseDone, InterruptDone, vars
<1>7. ASSUME NEW b \in Agents, Rousing(b)
      PROVE  Goal
  <2>1. a \notin prep'
    BY <1>1, <1>7 DEF Rousing, InterruptSleeping, InterruptSubagent, CancelSuspension, InterruptOne
  <2>2. UNCHANGED phase \/ (InterruptOne(b) /\ \E r : phase' = [phase EXCEPT ![b] = r])
    BY <1>7 DEF Rousing, InterruptSleeping, InterruptSubagent, CancelSuspension, InterruptOne
  <2> QED
    BY <1>2, <2>1, <2>2
<1> QED
  BY <1>3, <1>4, <1>5, <1>6, <1>7 DEF Sleepers, Children

\* A child falls asleep at the end of a turn that was resolved as suspended.
LEMMA FallsAsleep ==
    ASSUME TypeOK, [Sleepers]_vars, NEW b \in Agents, phase'[b].status = "suspended"
    PROVE  phase[b].status = "suspended" \/ (Finish(b) /\ outcome[b] = "suspended")
<1> DEFINE Plain(a) == \E r : r.status # "suspended" /\ phase' = [phase EXCEPT ![a] = r]
<1>1. /\ \A t : Pending(t).status # "suspended" /\ Running(t).status # "suspended"
      /\ ClosedPhase.status # "suspended"
      /\ \A s, t : Idle(s, t).status = s
  BY DEF Idle, Pending, Running, ClosedPhase
<1>2. ASSUME NEW a \in Agents, UNCHANGED phase \/ Plain(a)
      PROVE  phase[b].status = "suspended"
  BY <1>2 DEF TypeOK
<1>3. ASSUME NEW a \in Agents, Spawning(a) \/ Starting(a)
      PROVE  UNCHANGED phase \/ Plain(a)
  BY <1>1, <1>3 DEF Spawning, Spawn, Starting, StartSupervisor, RollbackAdmission, SpawnerKilled
<1>4. ASSUME NEW a \in Agents, Supervise(a), ~Finish(a)
      PROVE  UNCHANGED phase \/ Plain(a)
  <2>1. CASE NextStep(a)
    BY <1>1, <2>1 DEF NextStep, SupervisorStep, Complete, ToIdle
  <2> QED
    BY <1>1, <1>4, <2>1
       DEF Supervise, TakeStartedWork, ResetCancel, RunReturns, RunCancelled, CommitSuspension,
           ResolveStatus, Publish
<1>5. ASSUME NEW a \in Agents, Finish(a)
      PROVE  phase[b].status = "suspended" \/ (Finish(b) /\ outcome[b] = "suspended")
  <2>1. \/ UNCHANGED phase \/ Plain(a)
        \/ /\ outcome[a] = "suspended"
           /\ phase' = [phase EXCEPT ![a] = Idle("suspended", NoTurn)]
    BY <1>1, <1>5 DEF Finish, SupervisorStep, ToIdle
  <2>2. CASE outcome[a] = "suspended" /\ phase' = [phase EXCEPT ![a] = Idle("suspended", NoTurn)]
    BY <1>5, <2>2 DEF TypeOK
  <2> QED
    BY <1>2, <2>1, <2>2
<1>6. ASSUME NEW a \in Agents, Messages(a) \/ Suspending(a)
      PROVE  UNCHANGED phase \/ Plain(a)
  BY <1>1, <1>6
     DEF Messages, QueueMessage, SendInput, SendQueue, SendRestart, Suspending,
         RequestSuspension, SendResume, ResumeDueRecord, ResumeSchedule, Schedule
<1>7. ASSUME NEW a \in Agents, RequestCancel(a) \/ Shutdown(a)
      PROVE  UNCHANGED phase \/ Plain(a)
  BY <1>1, <1>7
     DEF RequestCancel, Shutdown, CloseSubagent, ShutdownCancel, ShutdownClose, ShutdownStop
<1>8. CASE ResumeDue \/ CloseDone \/ InterruptDone \/ UNCHANGED vars
  BY <1>8 DEF ResumeDue, CloseDone, InterruptDone, vars
<1>9. ASSUME NEW a \in Agents, Rousing(a)
      PROVE  UNCHANGED phase \/ Plain(a)
  <2>1. \/ UNCHANGED phase
        \/ \E t : \/ phase' = [phase EXCEPT ![a] = Idle("interrupted", t)]
                \/ phase' = [phase EXCEPT ![a] = Pending(t)]
    BY <1>9 DEF Rousing, InterruptSleeping, InterruptSubagent, CancelSuspension, InterruptOne
  <2>2. \A t : Idle("interrupted", t).status # "suspended"
    BY <1>1
  <2> QED
    BY <1>1, <2>1, <2>2
<1> QED
  BY <1>2, <1>3, <1>4, <1>5, <1>6, <1>7, <1>8, <1>9 DEF Sleepers, Children

\* A child that falls asleep has a thread, and so is not in preparation.
LEMMA SleepersIdleStep ==
    ASSUME TypeOK, SlotInvariant, ThreadInvariant, TreeShape, StaysOpen, SleepersIdle,
           [Sleepers]_vars
    PROVE  SleepersIdle'
<1> SUFFICES ASSUME NEW b \in Agents, phase'[b].status = "suspended"
             PROVE  phase'[b].tag = "idle" /\ b \notin prep'
  BY DEF SleepersIdle
<1>1. CASE phase[b].status = "suspended"
  <2>1. b \notin prep'
    BY <1>1, SleeperWoken
  <2>2. CASE phase'[b] = phase[b]
    BY <1>1, <2>1, <2>2 DEF SleepersIdle
  <2>3. CASE phase'[b] # phase[b]
    <3>1. PICK r : Built(r) /\ phase' = [phase EXCEPT ![b] = r]
      BY <2>3, SleepersAreSession, PhaseWritten DEF TypeOK
    <3>2. phase'[b] = r
      BY <3>1 DEF TypeOK
    <3> QED
      BY <2>1, <3>1, <3>2 DEF Built, ClosedPhase, Idle, Pending, Running, Interrupting
  <2> QED
    BY <2>2, <2>3
<1>2. CASE Finish(b) /\ outcome[b] = "suspended" /\ phase[b].status # "suspended"
  <2>1. sup[b] = "finish" /\ UNCHANGED prep
    BY <1>2 DEF Finish, At
  <2>2. b \notin prep'
    BY <2>1 DEF TreeShape
  <2>3. phase'[b] # phase[b]
    BY <1>2
  <2>4. PICK r : Built(r) /\ phase' = [phase EXCEPT ![b] = r]
    BY <2>3, SleepersAreSession, PhaseWritten DEF TypeOK
  <2>5. phase'[b] = r
    BY <2>4 DEF TypeOK
  <2> QED
    BY <2>2, <2>4, <2>5 DEF Built, ClosedPhase, Idle, Pending, Running, Interrupting
<1> QED
  BY <1>1, <1>2, FallsAsleep

\* A message that resumes a child found it asleep, and it sleeps until then; so it
\* is with an interrupt.
SeenAsleep ==
    (op.kind = "send" /\ op.seen = "suspended") \/ op.kind = "interrupt" =>
        \A a \in Agents : stage[a] # "none" => phase[a].status = "suspended"

\* An operation keeps the lock until it gives it back.
LEMMA LockHeld ==
    ASSUME TypeOK, [Sleepers]_vars, ~Free
    PROVE  op' = op \/ op' = NoOp
<1>1. ASSUME NEW a \in Agents, Children(a)
      PROVE  op' = op
  BY <1>1 DEF Children, Spawning, Spawn, Starting, StartSupervisor, RollbackAdmission,
              SpawnerKilled, Supervise, TakeStartedWork, ResetCancel, RunReturns, RunCancelled,
              CommitSuspension, ResolveStatus, NextStep, Publish, Finish, lockVars
<1>2. ASSUME NEW a \in Agents, Messages(a) \/ Suspending(a) \/ RequestCancel(a) \/ Shutdown(a)
      PROVE  op' = op \/ op' = NoOp
  BY <1>2 DEF Messages, QueueMessage, SendInput, SendQueue, SendRestart, Suspending,
              RequestSuspension, SendResume, ResumeDueRecord, ResumeSchedule, RequestCancel,
              Shutdown, CloseSubagent, ShutdownCancel, ShutdownClose, ShutdownStop, Move, Unlock
<1>3. CASE ResumeDue \/ CloseDone \/ InterruptDone \/ UNCHANGED vars
  BY <1>3 DEF ResumeDue, CloseDone, InterruptDone, Unlock, vars, lockVars
<1>4. ASSUME NEW a \in Agents, Rousing(a)
      PROVE  op' = op \/ op' = NoOp
  BY <1>4 DEF Rousing, InterruptSleeping, InterruptSubagent, CancelSuspension, InterruptOne, Move,
              Unlock
<1> QED
  BY <1>1, <1>2, <1>3, <1>4 DEF Sleepers

\* A child is interrupted in its sleep only.
LEMMA InterruptsUnderWay ==
    ASSUME TypeOK, [Sleepers]_vars, op'.kind = "interrupt", NEW b \in Agents, stage'[b] # "none"
    PROVE  (op.kind = "interrupt" /\ stage[b] # "none") \/ InterruptSleeping(b)
<1> DEFINE Goal == (op.kind = "interrupt" /\ stage[b] # "none") \/ InterruptSleeping(b)
<1>1. CASE UNCHANGED <<op, stage>>
  BY <1>1
<1>2. ~Unlock
  BY DEF Unlock, NoStage
<1>3. ASSUME NEW a \in Agents, NEW to, Move(a, to), stage[a] # "none"
      PROVE  Goal
  BY <1>3 DEF Move, TypeOK
<1>4. ASSUME NEW k \in {"send", "resume", "close"}, NEW t, NEW s, NEW f, NEW S, NEW first,
             Lock(Call(k, t, s, f), S, first)
      PROVE  FALSE
  BY <1>4 DEF Lock, Call
<1>5. ASSUME NEW a \in Agents, Children(a)
      PROVE  UNCHANGED <<op, stage>>
  BY <1>5 DEF Children, Spawning, Spawn, Starting, StartSupervisor, RollbackAdmission,
              SpawnerKilled, Supervise, TakeStartedWork, ResetCancel, RunReturns, RunCancelled,
              CommitSuspension, ResolveStatus, NextStep, Publish, Finish, lockVars
<1>6. ASSUME NEW a \in Agents, Messages(a)
      PROVE  Goal
  <2>1. ASSUME NEW t, NEW i, SendInput(a, t, i)
        PROVE  FALSE
    BY <1>4, <2>1 DEF SendInput
  <2> QED
    BY <1>1, <1>2, <1>3, <1>6, <2>1 DEF Messages, QueueMessage, SendQueue, SendRestart, lockVars
<1>7. ASSUME NEW a \in Agents, Suspending(a) \/ RequestCancel(a)
      PROVE  Goal
  BY <1>1, <1>2, <1>3, <1>7
     DEF Suspending, RequestSuspension, SendResume, ResumeDueRecord, ResumeSchedule,
         RequestCancel, lockVars
<1>8. ASSUME NEW a \in Agents, Shutdown(a)
      PROVE  FALSE
  BY <1>8 DEF Shutdown, CloseSubagent, ShutdownCancel, ShutdownClose, ShutdownStop, Shutting,
              Move, Lock, Call, Unlock, NoOp
<1>9. ASSUME NEW a \in Agents, Rousing(a)
      PROVE  Goal
  <2>1. CASE InterruptSleeping(a)
    <3>1. a = b
      BY <2>1 DEF InterruptSleeping, InterruptSubagent, Lock
    <3> QED
      BY <2>1, <3>1
  <2> QED
    BY <1>2, <1>3, <1>9, <2>1 DEF Rousing, CancelSuspension, InterruptOne
<1>10. ~ResumeDue
  BY <1>4 DEF ResumeDue
<1>11. CASE CloseDone \/ InterruptDone
  BY <1>2, <1>11 DEF CloseDone, InterruptDone
<1>12. CASE UNCHANGED vars
  BY <1>1, <1>12 DEF vars, lockVars
<1> QED
  BY <1>1, <1>5, <1>6, <1>7, <1>8, <1>9, <1>10, <1>11, <1>12 DEF Sleepers

\* Nobody else wakes the child in the meantime.
LEMMA SeenAsleepStep ==
    ASSUME TypeOK, SlotInvariant, ThreadInvariant, StaysOpen, SleepersIdle, SeenAsleep,
           [Sleepers]_vars
    PROVE  SeenAsleep'
<1> SUFFICES ASSUME (op'.kind = "send" /\ op'.seen = "suspended") \/ op'.kind = "interrupt",
                    NEW b \in Agents, stage'[b] # "none"
             PROVE  phase'[b].status = "suspended"
  BY DEF SeenAsleep
<1>1. ASSUME NEW t \in TurnOpt, NEW i \in BOOLEAN, SendInput(b, t, i)
      PROVE  phase'[b].status = "suspended"
  <2>1. op' = Call("send", t, phase[b].status, i) /\ phase' = phase
    BY <1>1 DEF SendInput, Lock
  <2> QED
    BY <2>1 DEF Call
<1>2. CASE InterruptSleeping(b)
  BY <1>2 DEF InterruptSleeping, InterruptSubagent
<1>3. CASE op.kind \in {"send", "interrupt"} /\ stage[b] # "none"
  <2>1. op' = op
    BY <1>3, LockHeld DEF Free, NoOp
  <2>2. phase[b].status = "suspended"
    BY <1>3, <2>1 DEF SeenAsleep
  <2>3. ~ShutdownClose(b)
    BY <1>3 DEF ShutdownClose, Shutting
  <2>4. ~ResumeSchedule(b)
    BY DEF ResumeSchedule, Move, TypeOK
  <2>5. ~InterruptOne(b)
    <3>1. phase[b].tag = "idle"
      BY <2>2 DEF SleepersIdle
    <3> QED
      BY <2>2, <3>1 DEF InterruptOne, Move, TypeOK
  <2>6. phase'[b] = phase[b]
    BY <2>1, <2>2, <2>3, <2>4, <2>5, SleeperWoken
  <2> QED
    BY <2>2, <2>6
<1>4. op'.kind = "send" =>
        \/ op.kind = "send" /\ stage[b] # "none"
        \/ \E t \in TurnOpt, i \in BOOLEAN : SendInput(b, t, i)
  BY SleepersAreSession, SendsUnderWay
<1>5. op'.kind = "interrupt" => (op.kind = "interrupt" /\ stage[b] # "none") \/ InterruptSleeping(b)
  BY InterruptsUnderWay
<1> QED
  BY <1>1, <1>2, <1>3, <1>4, <1>5

\* A suspension is taken out of storage to resume the child, for which there is a
\* slot, or to interrupt its sleep.
Withdrawn(a) ==
    /\ phase[a].status = "suspended" /\ Move(a, "ready") /\ UNCHANGED <<phase, sup>>
    /\ \/ op.kind \in {"send", "resume"} /\ live < limit /\ UNCHANGED <<live, limit>>
       \/ op.kind = "interrupt"

\* Storage forgets a suspension when the child is resumed, interrupted or shut down.
LEMMA StorageForgets ==
    ASSUME TypeOK, StaysOpen, SeenAsleep, [Sleepers]_vars,
           NEW b \in Agents, b \in durable, b \notin durable'
    PROVE  ShutdownStop(b) \/ Withdrawn(b)
<1> DEFINE Goal == ShutdownStop(b) \/ Withdrawn(b)
<1>1. ASSUME NEW a \in Agents, Children(a)
      PROVE  FALSE
  BY <1>1 DEF Children, Spawning, Spawn, Starting, StartSupervisor, RollbackAdmission,
              SpawnerKilled, Supervise, TakeStartedWork, ResetCancel, RunReturns, RunCancelled,
              CommitSuspension, ResolveStatus, NextStep, Publish, Finish, suspVars
<1>2. ASSUME NEW a \in Agents, Messages(a) \/ RequestCancel(a)
      PROVE  FALSE
  BY <1>2 DEF Messages, QueueMessage, SendInput, SendQueue, SendRestart, RequestCancel, suspVars
<1>3. ASSUME NEW a \in Agents, Suspending(a)
      PROVE  Goal
  <2>1. CASE SendResume(a)
    <3>1. /\ ResumeAdmitted(op.turn) /\ PersistResume(a) /\ Move(a, "ready")
          /\ op.kind = "send" /\ op.seen = "suspended" /\ stage[a] = "todo"
          /\ UNCHANGED <<live, limit, phase, sup>>
      BY <2>1 DEF SendResume, ResumeRefused, supVars, limitVars
    <3>2. a = b /\ live < limit /\ phase[a].status = "suspended"
      BY <3>1 DEF PersistResume, ResumeAdmitted, SeenAsleep
    <3> QED
      BY <3>1, <3>2 DEF Withdrawn
  <2>2. CASE ResumeDueRecord(a)
    <3>1. /\ ResumeAdmitted(DueTurn(a)) /\ PersistResume(a) /\ Move(a, "ready")
          /\ op.kind = "resume" /\ phase[a].status = "suspended"
          /\ UNCHANGED <<live, limit, phase, sup>>
      BY <2>2 DEF ResumeDueRecord, ResumeRefused, supVars, limitVars
    <3>2. a = b /\ live < limit
      BY <3>1 DEF PersistResume, ResumeAdmitted
    <3> QED
      BY <3>1, <3>2 DEF Withdrawn
  <2> QED
    BY <1>3, <2>1, <2>2 DEF Suspending, RequestSuspension, ResumeSchedule, suspVars
<1>4. ASSUME NEW a \in Agents, Shutdown(a)
      PROVE  Goal
  <2>1. ShutdownStop(a)
    BY <1>4 DEF Shutdown, CloseSubagent, ShutdownCancel, ShutdownClose, suspVars
  <2>2. a = b
    BY <2>1 DEF ShutdownStop, suspVars
  <2> QED
    BY <2>1, <2>2
<1>5. CASE ResumeDue \/ CloseDone \/ InterruptDone \/ UNCHANGED vars
  BY <1>5 DEF ResumeDue, CloseDone, InterruptDone, suspVars, vars
<1>6. ASSUME NEW a \in Agents, Rousing(a)
      PROVE  Goal
  <2>1. CancelSuspension(a)
    BY <1>6 DEF Rousing, InterruptSleeping, InterruptSubagent, InterruptOne, suspVars
  <2>2. a = b /\ Move(a, "ready") /\ UNCHANGED <<phase, sup>> /\ stage[a] # "none"
    BY <2>1 DEF CancelSuspension, suspVars, supVars
  <2>3. op.kind = "interrupt"
    BY <2>1 DEF CancelSuspension, StaysOpen
  <2> QED
    BY <2>2, <2>3 DEF Withdrawn, SeenAsleep
<1> QED
  BY <1>1, <1>2, <1>3, <1>4, <1>5, <1>6 DEF Sleepers

\* The suspension of a turn is in storage from the moment the supervisor treats
\* the turn as suspended.
CommittedFirst ==
    \A a \in Agents :
        /\ sup[a] \in {"commit", "resolve"} => outcome[a] # "suspended"
        /\ sup[a] = "resolve" /\ a \in suspensions /\ outcome[a] # "errored" => a \in durable
        /\ sup[a] \in {"step", "publish", "finish"} /\ outcome[a] = "suspended" => a \in durable

\* While a supervisor settles a turn, nobody else changes what it came to, and
\* no suspension is requested.
LEMMA SettlingMoves ==
    ASSUME TypeOK, [Sleepers]_vars, NEW b \in Agents, ~Supervise(b), sup'[b] \in Settling
    PROVE  sup'[b] = sup[b] /\ outcome'[b] = outcome[b] /\ (b \in suspensions' => b \in suspensions)
<1> USE DEF TypeOK, Settling
<1>1. ASSUME NEW a \in Agents, Spawning(a) \/ Starting(a)
      PROVE  sup'[b] = sup[b] /\ outcome'[b] = outcome[b] /\ (b \in suspensions' => b \in suspensions)
  BY <1>1 DEF Spawning, Spawn, Starting, StartSupervisor, RollbackAdmission, SpawnerKilled,
              Killed, supVars, suspVars
<1>2. ASSUME NEW a \in Agents, Supervise(a)
      PROVE  sup'[b] = sup[b] /\ outcome'[b] = outcome[b] /\ (b \in suspensions' => b \in suspensions)
  <2>1. a # b
    BY <1>2
  <2>2. \E q : GoTo(a, q)
    BY <1>2 DEF Supervise, TakeStartedWork, ResetCancel, RunReturns, RunCancelled,
                CommitSuspension, ResolveStatus, NextStep, SupervisorStep, Complete, Publish,
                Finish
  <2>3. UNCHANGED outcome \/ \E r : outcome' = [outcome EXCEPT ![a] = r]
    BY <1>2 DEF Supervise, TakeStartedWork, ResetCancel, RunReturns, RunCancelled,
                CommitSuspension, ResolveStatus, NextStep, Publish, Finish
  <2>4. suspensions' \subseteq suspensions
    BY <1>2 DEF Supervise, TakeStartedWork, ResetCancel, RunReturns, RunCancelled,
                CommitSuspension, ResolveStatus, NextStep, SupervisorStep, Complete, ToIdle,
                Publish, Finish, suspVars
  <2> QED
    BY <2>1, <2>2, <2>3, <2>4 DEF GoTo
<1>3. ASSUME NEW a \in Agents, Messages(a) \/ Suspending(a) \/ RequestCancel(a)
      PROVE  sup'[b] = sup[b] /\ outcome'[b] = outcome[b] /\ (b \in suspensions' => b \in suspensions)
  <2>1. CASE RequestSuspension(a)
    BY <2>1 DEF RequestSuspension, At, supVars
  <2> QED
    BY <1>3, <2>1
       DEF Messages, QueueMessage, SendInput, SendQueue, SendRestart, RequestCancel, Suspending,
           SendResume, ResumeDueRecord, ResumeSchedule, supVars, suspVars
<1>4. ASSUME NEW a \in Agents, Shutdown(a)
      PROVE  sup'[b] = sup[b] /\ outcome'[b] = outcome[b] /\ (b \in suspensions' => b \in suspensions)
  BY <1>4 DEF Shutdown, CloseSubagent, ShutdownCancel, ShutdownClose, ShutdownStop, Killed,
              supVars, suspVars
<1>5. CASE ResumeDue \/ CloseDone \/ InterruptDone \/ UNCHANGED vars
  BY <1>5 DEF ResumeDue, CloseDone, InterruptDone, supVars, suspVars, vars
<1>6. ASSUME NEW a \in Agents, Rousing(a)
      PROVE  sup'[b] = sup[b] /\ outcome'[b] = outcome[b] /\ (b \in suspensions' => b \in suspensions)
  BY <1>6 DEF Rousing, InterruptSleeping, InterruptSubagent, CancelSuspension, InterruptOne,
              supVars, suspVars
<1> QED
  BY <1>1, <1>2, <1>3, <1>4, <1>5, <1>6 DEF Sleepers, Children

\* commitRequestedSuspension precedes the resolution of the status, and only the
\* resumption or the interrupt of a child that sleeps takes its suspension out of
\* storage.
LEMMA CommittedFirstStep ==
    ASSUME TypeOK, SlotInvariant, ThreadInvariant, StaysOpen, SleepersIdle, SeenAsleep,
           CommittedFirst, [Sleepers]_vars
    PROVE  CommittedFirst'
<1> DEFINE Good(b) ==
      /\ sup'[b] \in {"commit", "resolve"} => outcome'[b] # "suspended"
      /\ sup'[b] = "resolve" /\ b \in suspensions' /\ outcome'[b] # "errored" => b \in durable'
      /\ sup'[b] \in {"step", "publish", "finish"} /\ outcome'[b] = "suspended" => b \in durable'
<1> SUFFICES ASSUME NEW b \in Agents PROVE Good(b)
  BY DEF CommittedFirst
<1>0. CASE sup'[b] \notin Settling
  BY <1>0 DEF Settling
<1>1. CASE ~Supervise(b) /\ sup'[b] \in Settling
  <2>1. sup'[b] = sup[b] /\ outcome'[b] = outcome[b] /\ (b \in suspensions' => b \in suspensions)
    BY <1>1, SettlingMoves
  <2>2. b \in durable => b \in durable'
    <3> SUFFICES ASSUME b \in durable, b \notin durable' PROVE FALSE
      OBVIOUS
    <3>1. ShutdownStop(b) \/ phase[b].status = "suspended"
      BY StorageForgets DEF Withdrawn
    <3>2. CASE ShutdownStop(b)
      BY <1>1, <3>2 DEF ShutdownStop, Killed, Settling, TypeOK
    <3>3. CASE phase[b].status = "suspended"
      <4>1. sup[b] = "await"
        BY <3>3, SleeperWaits
      <4> QED
        BY <1>1, <2>1, <4>1 DEF Settling
    <3> QED
      BY <3>1, <3>2, <3>3
  <2> QED
    BY <2>1, <2>2 DEF CommittedFirst
<1>2. CASE Supervise(b)
  <2>1. CASE TakeStartedWork(b)
    <3>1. sup'[b] \in {"exited", "reset"}
      BY <2>1 DEF TakeStartedWork, GoTo, TypeOK
    <3> QED
      BY <3>1
  <2>2. CASE ResetCancel(b)
    <3>1. sup'[b] = "run"
      BY <2>2 DEF ResetCancel, GoTo, TypeOK
    <3> QED
      BY <3>1
  <2>3. CASE RunReturns(b) \/ RunCancelled(b)
    <3>1. sup'[b] \in {"commit", "step"} /\ outcome'[b] # "suspended"
      BY <2>3 DEF RunReturns, RunCancelled, GoTo, TypeOK
    <3> QED
      BY <3>1
  <2>4. CASE CommitSuspension(b)
    <3>1. sup[b] = "commit" /\ sup'[b] = "resolve"
      BY <2>4 DEF CommitSuspension, At, GoTo, TypeOK
    <3>2. \/ outcome' = outcome /\ b \notin suspensions /\ suspensions' = suspensions
          \/ outcome' = outcome /\ b \in durable'
          \/ outcome'[b] = "errored"
      BY <2>4 DEF CommitSuspension, suspVars, TypeOK
    <3> QED
      BY <3>1, <3>2 DEF CommittedFirst
  <2>5. CASE ResolveStatus(b)
    <3>1. /\ sup[b] = "resolve" /\ sup'[b] = "step" /\ UNCHANGED durable
          /\ outcome'[b] = IF b \in suspensions /\ outcome[b] # "errored"
                           THEN "suspended" ELSE outcome[b]
      BY <2>5 DEF ResolveStatus, At, GoTo, suspVars, TypeOK
    <3> QED
      BY <3>1 DEF CommittedFirst
  <2>6. CASE NextStep(b)
    <3>1. /\ sup[b] = "step" /\ UNCHANGED durable
          /\ outcome'[b] = IF sup'[b] = "publish" THEN outcome[b] ELSE "none"
      BY <2>6 DEF NextStep, At, TypeOK
    <3>2. sup'[b] \in {"exited", "await", "reset", "publish"}
      BY <2>6 DEF NextStep, SupervisorStep, Complete, GoTo, TypeOK
    <3> QED
      BY <3>1, <3>2 DEF CommittedFirst
  <2>7. CASE Publish(b)
    <3>1. sup[b] = "publish" /\ sup'[b] = "finish" /\ UNCHANGED <<durable, outcome>>
      BY <2>7 DEF Publish, At, GoTo, suspVars, TypeOK
    <3> QED
      BY <3>1 DEF CommittedFirst
  <2>8. CASE Finish(b)
    <3>1. sup'[b] \in {"exited", "await", "reset"}
      BY <2>8 DEF Finish, SupervisorStep, GoTo, TypeOK
    <3> QED
      BY <3>1
  <2> QED
    BY <1>2, <2>1, <2>2, <2>3, <2>4, <2>5, <2>6, <2>7, <2>8 DEF Supervise
<1> QED
  BY <1>0, <1>1, <1>2

\* A child that sleeps in memory and not in storage is being resumed, and there is
\* a slot for it, or it is being interrupted.
BeingRoused(a) ==
    stage[a] = "ready" /\ ((op.kind \in {"send", "resume"} /\ live < limit) \/ op.kind = "interrupt")
AsleepInStorage ==
    \A a \in Agents : phase[a].status = "suspended" /\ a \notin durable => BeingRoused(a)

\* The interrupt goes on to the child, unless it ends the sleep in this step.
LEMMA InterruptionGoesOn ==
    ASSUME TypeOK, SleepersIdle, OneAtATime, [Sleepers]_vars, NEW b \in Agents,
           op.kind = "interrupt", stage[b] = "ready",
           phase[b].status = "suspended", phase'[b].status = "suspended"
    PROVE  UNCHANGED <<op, stage>>
<1>1. ~Free /\ ~Drained /\ op.kind \notin Shutting
  BY DEF Free, Drained, NoStage, Shutting
<1>2. \A a \in Agents : stage[a] # "none" => a = b
  BY DEF OneAtATime
<1>3. ASSUME NEW a \in Agents, Children(a)
      PROVE  UNCHANGED <<op, stage>>
  BY <1>1, <1>3
     DEF Children, Spawning, Spawn, Starting, StartSupervisor, RollbackAdmission,
         SpawnerKilled, Supervise, TakeStartedWork, ResetCancel, RunReturns, RunCancelled,
         CommitSuspension, ResolveStatus, NextStep, Publish, Finish, lockVars
<1>4. ASSUME NEW a \in Agents, Messages(a) \/ Suspending(a) \/ Shutdown(a)
      PROVE  FALSE
  BY <1>1, <1>4 DEF Messages, QueueMessage, SendInput, SendQueue, SendRestart, Suspending,
         RequestSuspension, SendResume, ResumeDueRecord, ResumeSchedule, Shutdown, CloseSubagent,
         ShutdownCancel, ShutdownClose, ShutdownStop
<1>5. ASSUME NEW a \in Agents, Rousing(a) \/ RequestCancel(a)
      PROVE  FALSE
  <2>1. ~RequestCancel(a) /\ ~CancelSuspension(a) /\ ~InterruptSleeping(a)
    BY <1>1, <1>2 DEF RequestCancel, CancelSuspension, InterruptSleeping, InterruptSubagent
  <2>2. CASE InterruptOne(a)
    <3>1. a = b /\ phase[b].tag = "idle"
      BY <1>2, <2>2 DEF InterruptOne, SleepersIdle
    <3>2. phase' = [phase EXCEPT ![b] = Idle("interrupted", NoTurn)]
      BY <2>2, <3>1 DEF InterruptOne
    <3> QED
      BY <3>2 DEF Idle, TypeOK
  <2> QED
    BY <1>5, <2>1, <2>2 DEF Rousing
<1>6. ~(ResumeDue \/ CloseDone \/ InterruptDone)
  BY <1>1 DEF ResumeDue, CloseDone, InterruptDone
<1>7. CASE UNCHANGED vars
  BY <1>7 DEF vars, lockVars
<1> QED
  BY <1>3, <1>4, <1>5, <1>6, <1>7 DEF Sleepers

\* The free slot that admitted a resumption stays free until it is taken.
LEMMA ResumptionGoesOn ==
    ASSUME TypeOK, StaysOpen, SleepersIdle, OneAtATime, [Sleepers]_vars, NEW b \in Agents,
           op.kind \in {"send", "resume"}, stage[b] = "ready", live < limit,
           phase[b].status = "suspended", phase'[b].status = "suspended"
    PROVE  op' = op /\ stage'[b] = "ready" /\ live' < limit'
<1> DEFINE Goal == op' = op /\ stage'[b] = "ready" /\ live' < limit'
<1>1. ~Free /\ ~Drained /\ op.kind \notin Shutting /\ live \in Nat /\ limit \in Nat
  BY DEF Free, Drained, NoStage, Shutting, TypeOK
<1>2. ASSUME UNCHANGED <<op, stage, limit>>, live' = live \/ \E a \in Agents : live' = Released(a)
      PROVE  Goal
  BY <1>1, <1>2 DEF Released
<1>3. \A a \in Agents : op.kind = "send" /\ stage[a] # "none" => a = b
  BY DEF OneAtATime
<1>4. ASSUME NEW a \in Agents, Children(a)
      PROVE  Goal
  <2>1. UNCHANGED <<op, stage, limit>>
    BY <1>1, <1>4
       DEF Children, Spawning, Spawn, Starting, StartSupervisor, RollbackAdmission,
           SpawnerKilled, Supervise, TakeStartedWork, ResetCancel, RunReturns, RunCancelled,
           CommitSuspension, ResolveStatus, NextStep, Publish, Finish, lockVars, limitVars
  <2>2. live' = live \/ live' = Released(a)
    <3>1. CASE NextStep(a)
      BY <3>1 DEF NextStep, SupervisorStep, Complete, ToIdle
    <3>2. CASE Finish(a)
      BY <3>2 DEF Finish, SupervisorStep, ToIdle
    <3> QED
      BY <1>1, <1>4, <3>1, <3>2
         DEF Children, Spawning, Spawn, Starting, StartSupervisor, RollbackAdmission,
             SpawnerKilled, Supervise, TakeStartedWork, ResetCancel, RunReturns, RunCancelled,
             CommitSuspension, ResolveStatus, Publish
  <2> QED
    BY <1>2, <2>1, <2>2
<1>5. ASSUME NEW a \in Agents, Messages(a)
      PROVE  FALSE
  <2>1. op.kind = "send" /\ stage[a] = "todo"
    BY <1>1, <1>5 DEF Messages, QueueMessage, SendInput, SendQueue, SendRestart
  <2> QED
    BY <1>3, <2>1
<1>6. ASSUME NEW a \in Agents, Suspending(a) \/ RequestCancel(a)
      PROVE  FALSE
  <2>1. ~SendResume(a) /\ ~RequestCancel(a)
    BY <1>3 DEF SendResume, RequestCancel
  <2>2. ~ResumeDueRecord(a) /\ ~RequestSuspension(a)
    BY <1>1 DEF ResumeDueRecord, RequestSuspension
  <2>3. CASE ResumeSchedule(a)
    <3>1. a = b
      BY <2>3 DEF ResumeSchedule, OneAtATime
    <3>2. Schedulable(b)
      BY DEF Schedulable, StaysOpen, SleepersIdle
    <3>3. \E t : phase' = [phase EXCEPT ![b] = Pending(t)]
      BY <2>3, <3>1, <3>2 DEF ResumeSchedule, Schedule
    <3> QED
      BY <3>3 DEF Pending, TypeOK
  <2> QED
    BY <1>6, <2>1, <2>2, <2>3 DEF Suspending
<1>7. ASSUME NEW a \in Agents, Shutdown(a)
      PROVE  FALSE
  BY <1>1, <1>7 DEF Shutdown, CloseSubagent, ShutdownCancel, ShutdownClose, ShutdownStop
<1>8. ~(ResumeDue \/ CloseDone \/ InterruptDone)
  BY <1>1 DEF ResumeDue, CloseDone, InterruptDone
<1>9. CASE UNCHANGED vars
  BY <1>2, <1>9 DEF vars, lockVars, limitVars
<1>10. ASSUME NEW a \in Agents, Rousing(a)
       PROVE  FALSE
  BY <1>1, <1>10 DEF Rousing, InterruptSleeping, InterruptSubagent, CancelSuspension, InterruptOne
<1> QED
  BY <1>4, <1>5, <1>6, <1>7, <1>8, <1>9, <1>10 DEF Sleepers

\* A suspension leaves storage only under a resumption or an interrupt that will be
\* carried out.
LEMMA AsleepInStorageStep ==
    ASSUME TypeOK, SlotInvariant, StatusMatches, ThreadInvariant, StaysOpen, OneAtATime,
           SleepersIdle, SeenAsleep, CommittedFirst, AsleepInStorage, [Sleepers]_vars
    PROVE  AsleepInStorage'
<1> SUFFICES ASSUME NEW b \in Agents, phase'[b].status = "suspended", b \notin durable'
             PROVE  BeingRoused(b)'
  BY DEF AsleepInStorage
<1>1. CASE phase[b].status = "suspended" /\ b \notin durable
  <2>0. BeingRoused(b)
    BY <1>1 DEF AsleepInStorage
  <2>1. CASE op.kind \in {"send", "resume"} /\ stage[b] = "ready" /\ live < limit
    <3>1. op' = op /\ stage'[b] = "ready" /\ live' < limit'
      BY <1>1, <2>1, ResumptionGoesOn
    <3> QED
      BY <2>1, <3>1 DEF BeingRoused
  <2>2. CASE op.kind = "interrupt" /\ stage[b] = "ready"
    <3>1. UNCHANGED <<op, stage>>
      BY <1>1, <2>2, InterruptionGoesOn
    <3> QED
      BY <2>2, <3>1 DEF BeingRoused
  <2> QED
    BY <2>0, <2>1, <2>2 DEF BeingRoused
<1>2. CASE phase[b].status = "suspended" /\ b \in durable
  <2>1. ShutdownStop(b) \/ Withdrawn(b)
    BY <1>2, StorageForgets
  <2>2. ~ShutdownStop(b)
    BY <1>2 DEF ShutdownStop, ThreadInvariant, StatusMatches, Matches
  <2> QED
    BY <2>1, <2>2 DEF Withdrawn, BeingRoused, Move, TypeOK
<1>3. CASE Finish(b) /\ outcome[b] = "suspended"
  <2>1. sup[b] = "finish" /\ UNCHANGED durable
    BY <1>3 DEF Finish, At
  <2> QED
    BY <1>3, <2>1 DEF CommittedFirst
<1> QED
  BY <1>1, <1>2, <1>3, FallsAsleep

\* A child that sleeps in memory sleeps in storage whenever no operation is under
\* way, in a host of any number of children that suspend themselves, are resumed,
\* interrupted in their sleep and closed, even if storage fails: a resumption is
\* made durable only when the child is then scheduled, and an interrupt that
\* cancelled the suspension ends the sleep. An interrupt of a child that is about
\* to fall asleep is outside SleeperSpec: see DrowsySpec.
THEOREM SleepsDurably == SleeperSpec => []SleepIsDurable
<1>1. Init => /\ StatusMatches /\ ThreadInvariant /\ TreeShape /\ StaysOpen /\ OneAtATime
              /\ SleepersIdle /\ SeenAsleep /\ CommittedFirst /\ AsleepInStorage
  <2>1. Init => TreeShape /\ StaysOpen /\ OneAtATime /\ SeenAsleep /\ CommittedFirst
    BY DEF Init, TreeShape, StaysOpen, OneAtATime, SeenAsleep, CommittedFirst, NoOp
  <2>2. Init => SleepersIdle /\ AsleepInStorage
    BY DEF Init, SleepersIdle, AsleepInStorage, ClosedPhase
  <2> QED
    BY <2>1, <2>2, ThreadInit
<1>2. [Sleepers]_vars => [Session]_vars /\ [Next]_vars
  BY SleepersAreSession
<1>3. /\ TypeOK /\ SlotInvariant /\ StatusMatches /\ ThreadInvariant /\ TreeShape /\ StaysOpen
      /\ OneAtATime /\ SleepersIdle /\ SeenAsleep /\ CommittedFirst /\ AsleepInStorage
      /\ [Sleepers]_vars
      => /\ StatusMatches' /\ ThreadInvariant' /\ TreeShape' /\ StaysOpen' /\ OneAtATime'
         /\ SleepersIdle' /\ SeenAsleep' /\ CommittedFirst' /\ AsleepInStorage'
  BY <1>2, StatusStep, ThreadStep, TreeStep, StaysOpenStep, OneAtATimeStep, SleepersIdleStep,
     SeenAsleepStep, CommittedFirstStep, AsleepInStorageStep
<1>4. TypeOK /\ AsleepInStorage => SleepIsDurable
  BY DEF TypeOK, AsleepInStorage, BeingRoused, SleepIsDurable, Idle, Free
<1> QED
  BY <1>1, <1>2, <1>3, <1>4, TypeCorrect, SlotsCounted, PTL DEF Spec, SleeperSpec

=============================================================================
