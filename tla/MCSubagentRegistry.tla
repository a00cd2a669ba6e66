------------------------- MODULE MCSubagentRegistry -------------------------
(***************************************************************************)
(* SubagentRegistry under the callers of one host at a time: each          *)
(* specification below offers the children of the registry a part of the   *)
(* operations, so that several children fit into one run.                  *)
(***************************************************************************)
EXTENDS SubagentRegistry, TLC

\* Children are alike, and so are the paths they are given.
Symmetry == Permutations(Agents) \cup Permutations(Paths \ {RootPath})

Children(a) == Spawning(a) \/ Starting(a) \/ Supervise(a)

\* A coordinator that sends children work and interrupts them while the user
\* changes the limit.
Assign(a) ==
    \/ \E t \in TurnOpt : SendInput(a, t, FALSE)
    \/ SendQueue(a) \/ SendRestart(a)
Coordinate ==
    \/ \E a \in Agents : Children(a) \/ Assign(a) \/ Interrupts(a)
    \/ InterruptActive \/ InterruptDone
    \/ \E n \in Limits : SetMaxConcurrent(n)

\* Parents and children, spawned nested for the turn their parent works for: each
\* is sent work by the root, which its turn may take, and works for one turn after
\* the other while root turns are aborted.
SpawningInTurn(a) ==
    \E p \in Agents \cup {Root}, t \in TurnOpt, pth \in Paths :
        (p \in Agents => t = phase[p].turn) /\ Spawn(a, p, t, pth)
Aborting(a) ==
    CancelSuspension(a) \/ InterruptForTurn(a) \/ RequestCancel(a) \/ SlotReleased(a)
Family ==
    \/ \E a \in Agents :
        \/ SpawningInTurn(a) \/ Starting(a) \/ Supervise(a) \/ Steer(a) \/ Assign(a)
        \/ Aborting(a)
    \/ InterruptDone
    \/ \E t \in Turns : AbortRootTurn(t)
    \/ \E n \in Limits : SetMaxConcurrent(n)

\* Children that suspend themselves, are resumed by messages, queued mail or their
\* deadlines, are cancelled by interrupting messages, are interrupted in their
\* sleep, and are closed.
InterruptSleeping(a) == phase[a].status = "suspended" /\ InterruptSubagent(a)
Rousing(a) == InterruptSleeping(a) \/ CancelSuspension(a) \/ InterruptOne(a)
Sleepers ==
    \/ \E a \in Agents :
        \/ Children(a) \/ Messages(a) \/ Suspending(a) \/ Rousing(a)
        \/ RequestCancel(a) \/ Shutdown(a)
    \/ ResumeDue \/ CloseDone \/ InterruptDone
SleeperSpec == Init /\ [][Sleepers]_vars

\* The same with a host that interrupts a child whatever it is doing.
DrowsySpec == Init /\ [][Sleepers \/ \E a \in Agents : InterruptSubagent(a)]_vars

\* Children that are spawned, fail to start, are rolled back, closed or read back
\* from disk, in a registry that is reset.
Naming ==
    \/ \E a \in Agents :
        \/ Spawning(a) \/ Starting(a) \/ Restore(a) \/ Shutdown(a)
        \/ TakeStartedWork(a)
    \/ CloseRegistry("reset") \/ CloseDone \/ ResetDone
    \/ \E n \in Limits : SetMaxConcurrent(n)

\* Fairness: the runtime schedules every supervisor thread and the thread that
\* holds the lock; a turn that is not cancelled returns in the end; waiters for
\* the lock, an MVar, are served in order, so each gets it in the end.
OperationStep(a) ==
    \/ SendQueue(a) \/ SendRestart(a) \/ CancelSuspension(a) \/ InterruptOne(a)
    \/ InterruptForTurn(a) \/ InterruptRecord(a) \/ RequestCancel(a) \/ SlotReleased(a)
    \/ ShutdownCancel(a) \/ ShutdownClose(a) \/ ShutdownStop(a)
OperationEnds == InterruptDone \/ CloseDone \/ ResetDone
OperationFairness == WF_vars(OperationEnds) /\ \A a \in Agents : WF_vars(OperationStep(a))
SupervisorFairness ==
    \A a \in Agents :
        /\ WF_vars(StartSupervisor(a) \/ RollbackAdmission(a))
        /\ WF_vars(Supervise(a)) /\ SF_vars(CommitSuspension(a))

Interruption ==
    \/ \E a \in Agents : Children(a) \/ Interrupts(a)
    \/ InterruptActive \/ InterruptDone
InterruptionSpec ==
    Init /\ [][Interruption]_vars /\ OperationFairness /\ SupervisorFairness

\* interruptActiveSubagents returns: every child it selected has stopped and the
\* registry is open again.
InterruptActiveReturns == op.kind = "interruptAll" ~> Free

\* Children that run turns while the host closes some of them or all, or
\* starts a fresh session.
Closing ==
    \/ \E a \in Agents : Children(a) \/ Shutdown(a)
    \/ \E k \in {"closeAll", "reset"} : CloseRegistry(k)
    \/ CloseDone \/ ResetDone
ClosingSpec == Init /\ [][Closing]_vars /\ OperationFairness /\ SupervisorFairness

\* A close terminates, whatever its children are doing: their supervisors are
\* killed even where they wait for the lock that the close holds.
CloseReturns == op.kind \in Shutting ~> Free

\* A child that is given a slot does not keep it forever: its turn starts and
\* ends, or it is rolled back or closed.
SlotsComeBack == \A a \in Agents : a \in Holding ~> a \notin Holding

=============================================================================
