-------------------------- MODULE NetworkPathMonitor --------------------------
(***************************************************************************)
(* NetworkPathMonitor.c and its user NetworkPath.hs. The system delivers   *)
(* path updates and the end of a cancelled monitor as blocks on a serial   *)
(* queue; each block uses the wrapper, an update also the Haskell          *)
(* callback. close destroys the monitor, then frees the callback.          *)
(***************************************************************************)
EXTENDS Integers, Sequences

CONSTANTS
    Closers,      \* threads that close the monitor
    MaxUpdates    \* bound: path updates the system sends

VARIABLES
    wrapper,      \* the C struct: "none", "live" or "freed"
    callback,     \* the Haskell function pointer: "live" or "freed"
    blocks,       \* blocks queued on the serial queue
    running,      \* the block that runs, or "none"
    updates,      \* updates sent so far
    cancelled,    \* nw_path_monitor_cancel was called
    signals,      \* the count of the semaphore
    closer,       \* what each closing thread does
    active,       \* activeVar: "full", "taken" by a closer, or "empty"
    satisfied, recoveryGeneration

networkVars == <<wrapper, callback, blocks, running, updates, cancelled, signals, closer,
                 active, satisfied, recoveryGeneration>>
monitorVars == <<wrapper, callback, updates, cancelled, satisfied, recoveryGeneration>>

\* mkPathUpdateCallback ran.
NetworkInit ==
    /\ wrapper = "none" /\ callback = "live" /\ blocks = <<>> /\ running = "none"
    /\ updates = 0 /\ cancelled = FALSE /\ signals = 0
    /\ closer = [c \in Closers |-> "idle"] /\ active = "empty"
    /\ satisfied = "unknown" /\ recoveryGeneration = 0

\* haskell_agent_network_path_monitor_create; on failure it releases what it
\* created and the caller frees the callback and stays without a monitor.
MonitorCreate ==
    /\ wrapper = "none" /\ callback = "live"
    /\ \/ wrapper' = "live" /\ active' = "full" /\ UNCHANGED callback
       \/ callback' = "freed" /\ UNCHANGED <<wrapper, active>>
    /\ UNCHANGED <<blocks, running, updates, cancelled, signals, closer, satisfied,
                   recoveryGeneration>>

\* The system queues an update until the monitor is cancelled.
PathUpdate(s) ==
    /\ wrapper = "live" /\ ~cancelled /\ updates < MaxUpdates
    /\ updates' = updates + 1 /\ blocks' = Append(blocks, s)
    /\ UNCHANGED <<wrapper, callback, running, cancelled, signals, closer, active, satisfied,
                   recoveryGeneration>>

StartBlock ==
    /\ running = "none" /\ blocks # <<>>
    /\ running' = Head(blocks) /\ blocks' = Tail(blocks)
    /\ UNCHANGED <<monitorVars, signals, closer, active>>

\* The update handler: recordPathStatus through the callback.
UpdateHandler ==
    /\ running \in {"up", "down"} /\ running' = "none"
    /\ satisfied' = running
    /\ recoveryGeneration' =
        recoveryGeneration + IF running = "up" /\ satisfied = "down" THEN 1 ELSE 0
    /\ UNCHANGED <<wrapper, callback, blocks, updates, cancelled, signals, closer, active>>

\* Mutant of CancelHandler: nobody is told.
CancelHandlerSilent ==
    /\ running = "cancel" /\ running' = "cancelled"
    /\ UNCHANGED <<monitorVars, blocks, signals, closer, active>>

\* The cancel handler signals, and is still running after that.
CancelHandler ==
    /\ running = "cancel" /\ running' = "cancelled" /\ signals' = signals + 1
    /\ UNCHANGED <<monitorVars, blocks, closer, active>>
EndBlock ==
    /\ running \in {"cancelled", "sync"} /\ running' = "none"
    /\ UNCHANGED <<monitorVars, blocks, signals, closer, active>>

Closing(c, from, to) == closer[c] = from /\ closer' = [closer EXCEPT ![c] = to]

\* monitorClose: the first closer destroys, the others wait for it on activeVar.
MonitorClose(c) ==
    /\ active = "full" /\ active' = "taken" /\ Closing(c, "idle", "wait")
    /\ cancelled' = TRUE /\ blocks' = Append(blocks, "cancel")
    /\ UNCHANGED <<wrapper, callback, running, updates, signals, satisfied, recoveryGeneration>>
MonitorClosed(c) ==
    /\ active = "empty" /\ wrapper = "freed" /\ Closing(c, "idle", "closed")
    /\ UNCHANGED <<monitorVars, blocks, running, signals, active>>

\* Mutant of SemaphoreWait: no dispatch_sync after the semaphore.
SemaphoreWaitOnly(c) ==
    /\ signals > 0 /\ signals' = signals - 1 /\ Closing(c, "wait", "free")
    /\ UNCHANGED <<monitorVars, blocks, running, active>>

\* dispatch_semaphore_wait, then dispatch_sync of an empty block.
SemaphoreWait(c) ==
    /\ signals > 0 /\ signals' = signals - 1 /\ Closing(c, "wait", "sync")
    /\ blocks' = Append(blocks, "sync")
    /\ UNCHANGED <<monitorVars, running, active>>
SyncReturns(c) ==
    /\ blocks = <<>> /\ running = "none" /\ Closing(c, "sync", "free")
    /\ UNCHANGED <<monitorVars, blocks, running, signals, active>>

\* free(wrapper), freeHaskellFunPtr, and the closers that waited find Nothing.
MonitorFree(c) ==
    /\ Closing(c, "free", "closed") /\ wrapper' = "freed" /\ callback' = "freed"
    /\ active' = "empty"
    /\ UNCHANGED <<blocks, running, updates, cancelled, signals, satisfied, recoveryGeneration>>

QueueStep == StartBlock \/ UpdateHandler \/ CancelHandler \/ EndBlock
CloserStep ==
    \E c \in Closers :
        MonitorClosed(c) \/ SemaphoreWait(c) \/ SyncReturns(c) \/ MonitorFree(c)
NetworkNext ==
    \/ MonitorCreate \/ (\E s \in {"up", "down"} : PathUpdate(s)) \/ QueueStep
    \/ (\E c \in Closers : MonitorClose(c)) \/ CloserStep

NetworkSpec == NetworkInit /\ [][NetworkNext]_networkVars

\* Blocks of the queue find what they captured: neither an update that was
\* queued before the cancel nor the cancel handler on its way out runs with the
\* wrapper or the Haskell callback freed, and nothing is queued after the free.
BlocksFindTheirContext ==
    running # "none" \/ blocks # <<>> => wrapper = "live" /\ callback = "live"

=============================================================================
