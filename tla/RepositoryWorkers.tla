-------------------------- MODULE RepositoryWorkers --------------------------
(***************************************************************************)
(* The process-wide group of repository workers (RepositoryWorkers.hs):    *)
(* snapshots, diffs, mutations and commits run on workers, started and     *)
(* cancelled from any host thread. A worker enters the set of callback     *)
(* threads, waits at its gate, prepares a result, possibly calling the     *)
(* host for every row, and makes the terminal callback masked. cancel_all  *)
(* shuts admission, cancels the group one worker at a time in the order of *)
(* the ids and lifts its barrier; a second cancel_all waits at it.         *)
(***************************************************************************)
EXTENDS Integers, FiniteSetsExt

CONSTANTS
    MaxWorkers,      \* bound: operations accepted
    MaxRows,         \* bound: rows an operation streams
    Cancellers,      \* host threads that call cancel_all, each once
    NoBarrier        \* not a canceller

ASSUME RepositoryAssumption == MaxWorkers \in Nat /\ NoBarrier \notin Cancellers

WorkerIds == 1 .. MaxWorkers

VARIABLES
    nextWorkerId,       \* repositoryWorkerNextId; ids are counted from 1 here
    activeWorkers,      \* repositoryWorkerActive
    workerBarrier,      \* repositoryWorkerBarrier, named by its owner
    liftedBarriers,     \* barriers that are full
    callbackThreadsLock,\* the worker inside repositoryCallbackThreads, or 0
    workerAt,           \* where each worker is
    workerGates,        \* workers whose gate is open
    workerRows,         \* rows a worker has streamed
    workerTerminals,    \* terminal callbacks a worker has made
    workerKilled,       \* workers with a cancellation under way
    canceller,          \* where each canceller is, its group and its barrier
    admittedBefore      \* the ids below this were accepted before the call

repositoryVars ==
    <<nextWorkerId, activeWorkers, workerBarrier, liftedBarriers, callbackThreadsLock, workerAt,
      workerGates, workerRows, workerTerminals, workerKilled, canceller, admittedBefore>>

RepositoryInit ==
    /\ nextWorkerId = 1 /\ activeWorkers = {} /\ workerBarrier = NoBarrier /\ liftedBarriers = {}
    /\ callbackThreadsLock = 0 /\ workerAt = [w \in WorkerIds |-> "none"] /\ workerGates = {}
    /\ workerRows = [w \in WorkerIds |-> 0] /\ workerTerminals = [w \in WorkerIds |-> 0]
    /\ workerKilled = {}
    /\ canceller = [c \in Cancellers |-> [at |-> "idle", group |-> {}, barrier |-> NoBarrier]]
    /\ admittedBefore = [c \in Cancellers |-> 1]

WorkerMoves(w, place) == workerAt' = [workerAt EXCEPT ![w] = place]

\* startRepositoryWorker: spawned and registered in one critical section, the
\* gate opened after it. While a barrier stands the operation is rejected.
StartRepositoryWorker ==
    /\ workerBarrier = NoBarrier /\ nextWorkerId \in WorkerIds
    /\ WorkerMoves(nextWorkerId, "enter")
    /\ activeWorkers' = activeWorkers \union {nextWorkerId} /\ nextWorkerId' = nextWorkerId + 1
    /\ UNCHANGED <<workerBarrier, liftedBarriers, callbackThreadsLock, workerGates, workerRows,
                   workerTerminals, workerKilled, canceller, admittedBefore>>
OpenGate(w) ==
    /\ w < nextWorkerId /\ w \notin workerGates /\ workerGates' = workerGates \union {w}
    /\ UNCHANGED <<nextWorkerId, activeWorkers, workerBarrier, liftedBarriers,
                   callbackThreadsLock, workerAt, workerRows, workerTerminals, workerKilled,
                   canceller, admittedBefore>>

\* withRepositoryCallbackThread: the set of callback threads is an MVar, taken
\* on the way in and on the way out.
TakeCallbackThreads(w) ==
    /\ workerAt[w] \in {"enter", "leave"} /\ callbackThreadsLock = 0
    /\ callbackThreadsLock' = w
    /\ UNCHANGED <<nextWorkerId, activeWorkers, workerBarrier, liftedBarriers, workerAt,
                   workerGates, workerRows, workerTerminals, workerKilled, canceller,
                   admittedBefore>>
PutCallbackThreads(w) ==
    /\ callbackThreadsLock = w /\ callbackThreadsLock' = 0
    /\ WorkerMoves(w, IF workerAt[w] = "enter" THEN "gate" ELSE "unregister")
    /\ UNCHANGED <<nextWorkerId, activeWorkers, workerBarrier, liftedBarriers, workerGates,
                   workerRows, workerTerminals, workerKilled, canceller, admittedBefore>>

PassGate(w) ==
    /\ workerAt[w] = "gate" /\ w \in workerGates /\ WorkerMoves(w, "prepare")
    /\ UNCHANGED <<nextWorkerId, activeWorkers, workerBarrier, liftedBarriers,
                   callbackThreadsLock, workerGates, workerRows, workerTerminals, workerKilled,
                   canceller, admittedBefore>>
\* ha_repository_snapshot and ha_repository_diff stream files and hunks.
StreamRow(w) ==
    /\ workerAt[w] = "prepare" /\ workerRows[w] < MaxRows /\ WorkerMoves(w, "row")
    /\ workerRows' = [workerRows EXCEPT ![w] = @ + 1]
    /\ UNCHANGED <<nextWorkerId, activeWorkers, workerBarrier, liftedBarriers,
                   callbackThreadsLock, workerGates, workerTerminals, workerKilled, canceller,
                   admittedBefore>>
RowStreamed(w) ==
    /\ workerAt[w] = "row" /\ WorkerMoves(w, "prepare")
    /\ UNCHANGED <<nextWorkerId, activeWorkers, workerBarrier, liftedBarriers,
                   callbackThreadsLock, workerGates, workerRows, workerTerminals, workerKilled,
                   canceller, admittedBefore>>

\* The action prepared (success, stale snapshot, failure, failed stream) makes
\* the terminal callback masked; a worker cancelled before that reports -3.
EmitTerminal(w) ==
    /\ \/ workerAt[w] = "prepare"
       \/ workerAt[w] = "gate" /\ w \notin workerGates /\ w \in workerKilled
    /\ WorkerMoves(w, "terminal") /\ workerTerminals' = [workerTerminals EXCEPT ![w] = @ + 1]
    /\ UNCHANGED <<nextWorkerId, activeWorkers, workerBarrier, liftedBarriers,
                   callbackThreadsLock, workerGates, workerRows, workerKilled, canceller,
                   admittedBefore>>
TerminalReturned(w) ==
    /\ workerAt[w] = "terminal" /\ WorkerMoves(w, "leave")
    /\ UNCHANGED <<nextWorkerId, activeWorkers, workerBarrier, liftedBarriers,
                   callbackThreadsLock, workerGates, workerRows, workerTerminals, workerKilled,
                   canceller, admittedBefore>>

\* A take that blocks can be interrupted, masked or not: the exception leaves
\* withRepositoryCallbackThread before the handler that reports -3.
KilledEntering(w) ==
    /\ workerAt[w] = "enter" /\ w \in workerKilled /\ callbackThreadsLock \notin {0, w}
    /\ WorkerMoves(w, "unregister")
    /\ UNCHANGED <<nextWorkerId, activeWorkers, workerBarrier, liftedBarriers,
                   callbackThreadsLock, workerGates, workerRows, workerTerminals, workerKilled,
                   canceller, admittedBefore>>
UnregisterRepositoryWorker(w) ==
    /\ workerAt[w] = "unregister" /\ WorkerMoves(w, "dead")
    /\ activeWorkers' = activeWorkers \ {w}
    /\ UNCHANGED <<nextWorkerId, workerBarrier, liftedBarriers, callbackThreadsLock, workerGates,
                   workerRows, workerTerminals, workerKilled, canceller, admittedBefore>>

CancellerUnchanged == UNCHANGED <<nextWorkerId, callbackThreadsLock, workerAt, workerGates,
                                  workerRows, workerTerminals>>

\* Mutant of CancelAllJoins: the second cancel_all does not wait at the barrier.
CancelAllJoinsAtOnce(c) ==
    /\ canceller[c].at = "idle" /\ workerBarrier # NoBarrier
    /\ canceller' = [canceller EXCEPT ![c].at = "returned"]
    /\ admittedBefore' = [admittedBefore EXCEPT ![c] = nextWorkerId]
    /\ CancellerUnchanged
    /\ UNCHANGED <<activeWorkers, workerBarrier, liftedBarriers, workerKilled>>

\* cancelRepositoryWorkers: the owner of the barrier takes the whole group. (A call
\* from inside a callback returns at once, promises nothing and changes nothing.)
CancelAllOwns(c) ==
    /\ canceller[c].at = "idle" /\ workerBarrier = NoBarrier
    /\ canceller' = [canceller EXCEPT
            ![c] = [at |-> "cancel", group |-> activeWorkers, barrier |-> c]]
    /\ activeWorkers' = {} /\ workerBarrier' = c
    /\ admittedBefore' = [admittedBefore EXCEPT ![c] = nextWorkerId]
    /\ CancellerUnchanged /\ UNCHANGED <<liftedBarriers, workerKilled>>
CancelAllJoins(c) ==
    /\ canceller[c].at = "idle" /\ workerBarrier # NoBarrier
    /\ canceller' = [canceller EXCEPT ![c].at = "wait", ![c].barrier = workerBarrier]
    /\ admittedBefore' = [admittedBefore EXCEPT ![c] = nextWorkerId]
    /\ CancellerUnchanged
    /\ UNCHANGED <<activeWorkers, workerBarrier, liftedBarriers, workerKilled>>
\* cancel throws to one worker and waits for it to be dead before the next.
ThrowTo(c) ==
    /\ canceller[c].at = "cancel" /\ canceller[c].group # {}
    /\ LET w == Min(canceller[c].group) IN
        /\ w \notin workerKilled /\ workerKilled' = workerKilled \union {w}
    /\ CancellerUnchanged
    /\ UNCHANGED <<activeWorkers, workerBarrier, liftedBarriers, canceller, admittedBefore>>
WorkerJoined(c) ==
    /\ canceller[c].at = "cancel" /\ canceller[c].group # {}
    /\ LET w == Min(canceller[c].group) IN
        /\ w \in workerKilled /\ workerAt[w] = "dead"
        /\ canceller' = [canceller EXCEPT ![c].group = @ \ {w}]
    /\ CancellerUnchanged
    /\ UNCHANGED <<activeWorkers, workerBarrier, liftedBarriers, workerKilled, admittedBefore>>
OpenAdmission(c) ==
    /\ canceller[c].at = "cancel" /\ canceller[c].group = {}
    /\ workerBarrier' = NoBarrier /\ canceller' = [canceller EXCEPT ![c].at = "lift"]
    /\ CancellerUnchanged
    /\ UNCHANGED <<activeWorkers, liftedBarriers, workerKilled, admittedBefore>>
LiftBarrier(c) ==
    /\ canceller[c].at = "lift" /\ canceller' = [canceller EXCEPT ![c].at = "returned"]
    /\ liftedBarriers' = liftedBarriers \union {c}
    /\ CancellerUnchanged /\ UNCHANGED <<activeWorkers, workerBarrier, workerKilled, admittedBefore>>
BarrierPassed(c) ==
    /\ canceller[c].at = "wait" /\ canceller[c].barrier \in liftedBarriers
    /\ canceller' = [canceller EXCEPT ![c].at = "returned"]
    /\ CancellerUnchanged
    /\ UNCHANGED <<activeWorkers, workerBarrier, liftedBarriers, workerKilled, admittedBefore>>

RepositoryNext ==
    \/ StartRepositoryWorker
    \/ \E w \in WorkerIds :
        \/ OpenGate(w) \/ TakeCallbackThreads(w) \/ PutCallbackThreads(w) \/ PassGate(w)
        \/ StreamRow(w) \/ RowStreamed(w) \/ EmitTerminal(w) \/ TerminalReturned(w)
        \/ KilledEntering(w) \/ UnregisterRepositoryWorker(w)
    \/ \E c \in Cancellers :
        \/ CancelAllOwns(c) \/ CancelAllJoins(c) \/ ThrowTo(c) \/ WorkerJoined(c)
        \/ OpenAdmission(c) \/ LiftBarrier(c) \/ BarrierPassed(c)

RepositorySpec == RepositoryInit /\ [][RepositoryNext]_repositoryVars

\* Once ha_repository_cancel_all has returned, to the thread that owned the
\* barrier or to one that joined it, the operations accepted before the call
\* make no callback any more: the host releases their contexts.
QuietAfterCancelAll ==
    \A c \in Cancellers : canceller[c].at = "returned" =>
        \A w \in WorkerIds : w < admittedBefore[c] =>
            workerAt[w] \in {"leave", "unregister", "dead"}

\* "Cancellation delivers exactly one -3 terminal result unless the operation's
\* terminal callback already completed": an operation that is over has told its
\* host so once (HaskellAgentBridge.h, ha_repository_cancel_all).
OneTerminalEach == \A w \in WorkerIds : workerAt[w] = "dead" => workerTerminals[w] = 1

=============================================================================
