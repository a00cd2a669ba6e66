----------------------------- MODULE BridgeProofs -----------------------------
(***************************************************************************)
(* The runtime is ready for every embedder, for any number of threads; an  *)
(* operation keeps the contract of the header, for any number of           *)
(* callbacks; and ha_repository_cancel_all leaves no callback behind, for  *)
(* any number of operations and any set of threads that cancel.            *)
(***************************************************************************)
EXTENDS BridgeRuntime, BridgeOperation, RepositoryWorkers, TLAPS

-----------------------------------------------------------------------------
(* The runtime *)

Calls == {"none", "hsInit", "cliInit", "cliRun"}
CliCalls == {"cliInit", "cliRun"}

RuntimeTypes ==
    /\ runtimeReferences \in Nat /\ granted \in Nat /\ starts \in Nat
    /\ runtimeInitialized \in BOOLEAN /\ runtimeCliStarted \in BOOLEAN
    /\ rts \in {"off", "up", "down"} /\ runtimeCall \in [Threads -> Calls]

\* The lock is held exactly by the thread inside hs_init.
LockHeldByStarter ==
    \A t \in Threads : runtimeCall[t] = "hsInit" <=> runtimeLock = t

\* Until a thread has claimed or finished the start, nothing is started.
NothingBeforeStart ==
    ~runtimeInitialized =>
        /\ rts = "off" /\ starts = 0 /\ granted = 0 /\ ~runtimeCliStarted
        /\ \A t \in Threads : runtimeCall[t] \notin CliCalls
\* A start in the lock excludes the claim, which needs the lock.
StartExcludesClaim ==
    \A t \in Threads : runtimeCall[t] = "hsInit" => ~runtimeInitialized
\* One thread at most is the CLI, and it has the runtime for itself.
CliIsAlone ==
    \A t \in Threads : runtimeCall[t] \in CliCalls =>
        /\ runtimeCliStarted /\ (runtimeCall[t] = "cliInit" => starts = 0)
        /\ \A u \in Threads : runtimeCall[u] \in CliCalls => u = t
CliHasTheRuntime == runtimeCliStarted => granted = 0
EmbeddedRuntimeIsUp == runtimeInitialized /\ ~runtimeCliStarted => rts = "up"
StartedOnce == starts <= 1

RuntimeInvariant ==
    /\ RuntimeTypes /\ LockHeldByStarter /\ NothingBeforeStart /\ StartExcludesClaim
    /\ CliIsAlone /\ CliHasTheRuntime /\ EmbeddedRuntimeIsUp /\ StartedOnce

LEMMA RuntimeInitially == RuntimeInit => RuntimeInvariant
<1> SUFFICES ASSUME RuntimeInit PROVE RuntimeInvariant
  OBVIOUS
<1> USE DEF RuntimeInit
<1>1. RuntimeTypes
  BY DEF RuntimeTypes, Calls
<1>2. LockHeldByStarter
  BY NoThreadAssumption DEF LockHeldByStarter
<1>3. NothingBeforeStart /\ StartExcludesClaim /\ CliIsAlone
  BY DEF NothingBeforeStart, StartExcludesClaim, CliIsAlone, CliCalls
<1> QED
  BY <1>1, <1>2, <1>3
     DEF RuntimeInvariant, CliHasTheRuntime, EmbeddedRuntimeIsUp, StartedOnce

LEMMA RuntimeStep == RuntimeInvariant /\ [RuntimeNext]_runtimeVars => RuntimeInvariant'
<1> SUFFICES ASSUME RuntimeInvariant, [RuntimeNext]_runtimeVars PROVE RuntimeInvariant'
  OBVIOUS
<1> USE NoThreadAssumption
    DEF RuntimeInvariant, RuntimeTypes, LockHeldByStarter, NothingBeforeStart,
        StartExcludesClaim, CliIsAlone, CliHasTheRuntime, EmbeddedRuntimeIsUp, StartedOnce,
        Calls, CliCalls
<1>1. ASSUME NEW t \in Threads, CliMain(t) PROVE RuntimeInvariant'
  BY <1>1 DEF CliMain, CanEnter
<1>2. ASSUME NEW t \in Threads, CliHsInit(t) PROVE RuntimeInvariant'
  BY <1>2 DEF CliHsInit
<1>3. ASSUME NEW t \in Threads, CliExit(t) PROVE RuntimeInvariant'
  BY <1>3 DEF CliExit
<1>4. ASSUME NEW t \in Threads, RuntimeInitEnter(t) PROVE RuntimeInvariant'
  <2>1. CASE runtimeInitialized
    BY <1>4, <2>1 DEF RuntimeInitEnter, CanEnter, Granted
  <2>2. CASE ~runtimeInitialized
    BY <1>4, <2>2 DEF RuntimeInitEnter, CanEnter
  <2> QED
    BY <2>1, <2>2
<1>5. ASSUME NEW t \in Threads, RuntimeHsInit(t) PROVE RuntimeInvariant'
  BY <1>5 DEF RuntimeHsInit, Granted
<1>6. ASSUME NEW t \in Threads, RuntimeExit(t) PROVE RuntimeInvariant'
  BY <1>6 DEF RuntimeExit, CanEnter
<1>7. CASE UNCHANGED runtimeVars
  BY <1>7 DEF runtimeVars
<1> QED
  BY <1>1, <1>2, <1>3, <1>4, <1>5, <1>6, <1>7 DEF RuntimeNext

\* ha_runtime_init and ha_cli_main, called by any number of threads: the runtime
\* is started at most once, and whoever was granted it finds it running and not
\* owned by the CLI.
THEOREM RuntimeReadyForAll == RuntimeSpec => []RuntimeReady
<1>1. RuntimeInvariant => RuntimeReady
  BY DEF RuntimeInvariant, RuntimeTypes, NothingBeforeStart, CliHasTheRuntime,
         EmbeddedRuntimeIsUp, StartedOnce, RuntimeReady
<1> QED
  BY <1>1, RuntimeInitially, RuntimeStep, PTL DEF RuntimeSpec

-----------------------------------------------------------------------------
(* Operations *)

ActionOver == {"finished", "threw", "killed"}

\* Where the action can be while the worker is at a place, and what the host
\* can have done by then: before the gate there is no action, while it may call
\* the host the worker waits in the race, and from "deliver" on it is over.
OperationInvariant ==
    /\ opHost \in {"idle", "rejected", "starting", "holding", "joining", "destroyed"}
    /\ opWorker \in {"none", "gate", "race", "stopping", "deliver", "row", "terminal", "dead"}
    /\ opHost \in {"idle", "rejected"} <=> opWorker = "none"
    /\ opWorker \in {"none", "gate"} => opAction = "none"
    /\ opWorker \in {"race", "stopping"} => opAction \in {"running", "calling"} \cup ActionOver
    /\ opWorker \in {"deliver", "row", "terminal", "dead"} => opAction \in ActionOver
    /\ opHost = "destroyed" => opWorker = "dead"

LEMMA OperationInitially == OperationInit => OperationInvariant
BY DEF OperationInit, OperationInvariant, ActionOver

LEMMA OperationStep == OperationInvariant /\ [OperationNext]_operationVars => OperationInvariant'
BY DEF OperationInvariant, ActionOver, OperationNext, WorkerStep, OperationRejected,
       OperationSpawn, OperationPublish, RaceStarts, ActionCallback, ActionCallbackReturns,
       ActionEnds, RaceCancelled, ActionKilled, RaceStopped, RaceEnds, RowCallback, RowReturns,
       TerminalCallback, WorkerEnds, OperationCancel, OperationDestroy, OperationJoined,
       operationVars

\* McpConnectionOperation and SessionObservationBridge keep what the header
\* promises of an accepted operation: serial callbacks, exactly one terminal
\* one, nothing after it, and a destroy that returns after the last of them.
THEOREM OperationsKeepContract == OperationSpec => ContractKept
<1>1. OperationInit => Contract!ContractInit
  BY DEF OperationInit, Contract!ContractInit, operationPhase, operationCalling
<1>2. OperationInvariant /\ OperationInvariant' /\ [OperationNext]_operationVars
        => [Contract!ContractNext]_Contract!contractVars
  <2> SUFFICES ASSUME OperationInvariant, OperationInvariant', [OperationNext]_operationVars
               PROVE  Contract!ContractNext \/ UNCHANGED Contract!contractVars
    OBVIOUS
  <2> USE DEF OperationInvariant, ActionOver, operationPhase, operationCalling,
              Contract!contractVars
  <2>1. CASE OperationRejected
    BY <2>1 DEF OperationRejected, Contract!ContractNext, Contract!Reject
  <2>2. CASE OperationSpawn
    BY <2>2 DEF OperationSpawn, Contract!ContractNext, Contract!Accept
  <2>3. CASE ActionCallback
    BY <2>3 DEF ActionCallback, Contract!ContractNext, Contract!Callback
  <2>4. CASE ActionCallbackReturns
    BY <2>4 DEF ActionCallbackReturns, Contract!ContractNext, Contract!CallbackReturns
  <2>5. CASE RowCallback
    BY <2>5 DEF RowCallback, Contract!ContractNext, Contract!Callback
  <2>6. CASE RowReturns
    BY <2>6 DEF RowReturns, Contract!ContractNext, Contract!CallbackReturns
  <2>7. CASE TerminalCallback
    BY <2>7 DEF TerminalCallback, Contract!ContractNext, Contract!Terminal
  <2>8. CASE WorkerEnds
    BY <2>8 DEF WorkerEnds, Contract!ContractNext, Contract!CallbackReturns
  <2>9. CASE OperationJoined
    BY <2>9 DEF OperationJoined, Contract!ContractNext, Contract!Destroyed
  <2>10. CASE \/ OperationPublish \/ RaceStarts \/ RaceCancelled \/ RaceStopped \/ RaceEnds
              \/ ActionEnds \/ ActionKilled \/ OperationCancel \/ OperationDestroy
    BY <2>10 DEF OperationPublish, RaceStarts, RaceCancelled, RaceStopped, RaceEnds, ActionEnds,
                 ActionKilled, OperationCancel, OperationDestroy
  <2>11. CASE UNCHANGED operationVars
    BY <2>11 DEF operationVars
  <2> QED
    BY <2>1, <2>2, <2>3, <2>4, <2>5, <2>6, <2>7, <2>8, <2>9, <2>10, <2>11
       DEF OperationNext, WorkerStep
<1> QED
  BY <1>1, <1>2, OperationInitially, OperationStep, PTL
     DEF OperationSpec, ContractKept, Contract!ContractSpec

-----------------------------------------------------------------------------
(* The repository workers: the argument for cancel_all follows the debt of *)
(* a canceller, the operations accepted before its call that may still     *)
(* call the host. It owes them to its own group while it cancels, to the   *)
(* group of the barrier's owner while it waits, and to nobody after.       *)

\* Workers that make no callback any more.
Past == {"leave", "unregister", "dead"}
Places == {"none", "enter", "gate", "prepare", "row", "terminal"} \union Past

CancellerRecords ==
    [at : {"idle", "cancel", "wait", "lift", "returned"}, group : SUBSET WorkerIds,
     barrier : Cancellers \union {NoBarrier}]

RepositoryTypes ==
    /\ nextWorkerId \in Nat /\ activeWorkers \in SUBSET WorkerIds
    /\ workerBarrier \in Cancellers \union {NoBarrier} /\ liftedBarriers \in SUBSET Cancellers
    /\ workerAt \in [WorkerIds -> Places]
    /\ canceller \in [Cancellers -> CancellerRecords]
    /\ admittedBefore \in [Cancellers -> Nat]

\* The barrier stands exactly while its owner cancels, and admits nobody.
OneOwner ==
    /\ \A c \in Cancellers : canceller[c].at = "cancel" <=> workerBarrier = c
    /\ workerBarrier # NoBarrier => activeWorkers = {}
    /\ \A c \in liftedBarriers : canceller[c].at = "returned"
    /\ \A c \in Cancellers : canceller[c].at = "wait" => canceller[c].barrier \in Cancellers

\* Ids are given in order, and a worker that may still call the host is in the
\* group of the process or in the one that the owner of the barrier has taken.
WorkersRegistered ==
    /\ \A c \in Cancellers : admittedBefore[c] <= nextWorkerId
    /\ \A w \in WorkerIds : w < nextWorkerId => workerAt[w] # "none"
    /\ \A w \in WorkerIds : workerAt[w] \notin Past \union {"none"} =>
        \/ w \in activeWorkers
        \/ \E c \in Cancellers : canceller[c].at = "cancel" /\ w \in canceller[c].group

\* What a canceller still waits for.
Debts ==
    \A c \in Cancellers, w \in WorkerIds :
        w < admittedBefore[c] /\ workerAt[w] \notin Past =>
            /\ canceller[c].at \notin {"lift", "returned"}
            /\ canceller[c].at = "cancel" => w \in canceller[c].group
            /\ canceller[c].at = "wait" =>
                /\ canceller[canceller[c].barrier].at = "cancel"
                /\ w \in canceller[canceller[c].barrier].group

QuietInvariant == RepositoryTypes /\ OneOwner /\ WorkersRegistered /\ Debts

\* A step of one worker that leaves the cancellers, the barrier and the ids
\* alone, and after which the worker calls the host only if it could before.
LEMMA WorkerStepKeeps ==
    ASSUME NEW w \in WorkerIds, NEW place \in Places, QuietInvariant,
           WorkerMoves(w, place), place # "none",
           workerAt[w] = "none" => place \in Past,
           workerAt[w] \in Past => place \in Past,
           \/ activeWorkers' = activeWorkers
           \/ activeWorkers' = activeWorkers \ {w} /\ place \in Past,
           nextWorkerId' = nextWorkerId, workerBarrier' = workerBarrier,
           liftedBarriers' = liftedBarriers, canceller' = canceller,
           admittedBefore' = admittedBefore
    PROVE QuietInvariant'
<1> USE DEF QuietInvariant, Past
<1>t. RepositoryTypes'
    BY DEF RepositoryTypes, WorkerMoves, Places
<1>o. OneOwner'
    BY DEF OneOwner
<1>v. \A v \in WorkerIds : workerAt'[v] = IF v = w THEN place ELSE workerAt[v]
    BY DEF WorkerMoves, RepositoryTypes
<1>r. WorkersRegistered'
    BY <1>v DEF WorkersRegistered, RepositoryTypes
<1>d. Debts'
    BY <1>v DEF Debts
<1> QED BY <1>t, <1>o, <1>r, <1>d

\* Steps that change neither a worker's place nor a canceller.
LEMMA IdleStepKeeps ==
    ASSUME QuietInvariant,
           UNCHANGED <<nextWorkerId, activeWorkers, workerBarrier, liftedBarriers, workerAt,
                       canceller, admittedBefore>>
    PROVE QuietInvariant'
BY DEF QuietInvariant, RepositoryTypes, OneOwner, WorkersRegistered, Debts, Past

\* Initially there is no worker and nobody has called cancel_all.
LEMMA QuietInit == RepositoryInit => QuietInvariant
<1> SUFFICES ASSUME RepositoryInit PROVE QuietInvariant OBVIOUS
<1> USE RepositoryAssumption
<1>0. [at |-> "idle", group |-> {}, barrier |-> NoBarrier] \in CancellerRecords
    BY DEF CancellerRecords
<1>1. RepositoryTypes
    BY <1>0 DEF RepositoryInit, RepositoryTypes, Places
<1>2. OneOwner /\ WorkersRegistered /\ Debts
    BY DEF RepositoryInit, OneOwner, WorkersRegistered, Debts, WorkerIds, Past
<1> QED BY <1>1, <1>2 DEF QuietInvariant

\* A new worker takes the next id while no barrier stands: it is in nobody's debt.
LEMMA StartKeeps == QuietInvariant /\ StartRepositoryWorker => QuietInvariant'
<1> SUFFICES ASSUME QuietInvariant, StartRepositoryWorker PROVE QuietInvariant' OBVIOUS
<1> USE RepositoryAssumption DEF QuietInvariant, StartRepositoryWorker, Past
<1>0. nextWorkerId \in WorkerIds /\ nextWorkerId \in Nat
    BY DEF RepositoryTypes
<1>1. RepositoryTypes'
    BY DEF RepositoryTypes, WorkerMoves, Places
<1>2. OneOwner'
    BY DEF OneOwner
<1>3. \A v \in WorkerIds : workerAt'[v] = IF v = nextWorkerId THEN "enter" ELSE workerAt[v]
    BY DEF WorkerMoves, RepositoryTypes
<1>4. WorkersRegistered'
    BY <1>0, <1>3 DEF WorkersRegistered, RepositoryTypes, WorkerIds
<1>5. Debts'
  <2> SUFFICES ASSUME NEW c \in Cancellers, NEW w \in WorkerIds,
                      w < admittedBefore[c], workerAt'[w] \notin Past
               PROVE workerAt[w] \notin Past
    BY DEF Debts
  <2> QED BY <1>0, <1>3 DEF WorkersRegistered, RepositoryTypes, WorkerIds
<1> QED BY <1>1, <1>2, <1>4, <1>5

\* The steps of a worker.
LEMMA WorkerActionsKeep ==
    ASSUME NEW w \in WorkerIds, QuietInvariant,
           \/ OpenGate(w) \/ TakeCallbackThreads(w) \/ PutCallbackThreads(w) \/ PassGate(w)
           \/ StreamRow(w) \/ RowStreamed(w) \/ EmitTerminal(w) \/ TerminalReturned(w)
           \/ KilledEntering(w) \/ UnregisterRepositoryWorker(w)
    PROVE QuietInvariant'
<1>1. CASE OpenGate(w) \/ TakeCallbackThreads(w)
    BY <1>1, IdleStepKeeps DEF OpenGate, TakeCallbackThreads
<1>2. CASE PutCallbackThreads(w)
    BY <1>2, WorkerStepKeeps DEF PutCallbackThreads, Past, Places
<1>3. CASE PassGate(w)
    BY <1>3, WorkerStepKeeps DEF PassGate, Past, Places
<1>4. CASE StreamRow(w)
    BY <1>4, WorkerStepKeeps DEF StreamRow, Past, Places
<1>5. CASE RowStreamed(w)
    BY <1>5, WorkerStepKeeps DEF RowStreamed, Past, Places
<1>6. CASE EmitTerminal(w)
    BY <1>6, WorkerStepKeeps DEF EmitTerminal, Past, Places
<1>7. CASE TerminalReturned(w)
    BY <1>7, WorkerStepKeeps DEF TerminalReturned, Past, Places
<1>8. CASE KilledEntering(w)
    BY <1>8, WorkerStepKeeps DEF KilledEntering, Past, Places
<1>9. CASE UnregisterRepositoryWorker(w)
    BY <1>9, WorkerStepKeeps DEF UnregisterRepositoryWorker, Past, Places
<1> QED BY <1>1, <1>2, <1>3, <1>4, <1>5, <1>6, <1>7, <1>8, <1>9

\* The owner of a new barrier takes over every worker that may call the host.
LEMMA OwnsKeeps ==
    ASSUME NEW c \in Cancellers, QuietInvariant, CancelAllOwns(c)
    PROVE QuietInvariant'
<1> USE RepositoryAssumption DEF QuietInvariant, CancelAllOwns, CancellerUnchanged, Past
<1>1. RepositoryTypes'
    BY DEF RepositoryTypes, CancellerRecords
<1>2. canceller'[c] = [at |-> "cancel", group |-> activeWorkers, barrier |-> c]
      /\ \A d \in Cancellers \ {c} : canceller'[d] = canceller[d]
    BY DEF RepositoryTypes
<1>3. admittedBefore'[c] = nextWorkerId
      /\ \A d \in Cancellers \ {c} : admittedBefore'[d] = admittedBefore[d]
    BY DEF RepositoryTypes
<1>4. OneOwner'
    BY <1>2 DEF OneOwner
<1>5. WorkersRegistered'
    BY <1>2, <1>3 DEF WorkersRegistered, OneOwner, RepositoryTypes
<1>6. Debts'
    BY <1>2, <1>3 DEF WorkersRegistered, OneOwner, RepositoryTypes, Debts
<1> QED BY <1>1, <1>4, <1>5, <1>6

\* Who joins a barrier is owed what its owner has in hand.
LEMMA JoinsKeeps ==
    ASSUME NEW c \in Cancellers, QuietInvariant, CancelAllJoins(c)
    PROVE QuietInvariant'
<1> USE RepositoryAssumption DEF QuietInvariant, CancelAllJoins, CancellerUnchanged, Past
<1>1. RepositoryTypes'
    BY DEF RepositoryTypes, CancellerRecords
<1>2. canceller'[c].at = "wait" /\ canceller'[c].barrier = workerBarrier
      /\ \A d \in Cancellers \ {c} : canceller'[d] = canceller[d]
    BY DEF RepositoryTypes, CancellerRecords
<1>3. admittedBefore'[c] = nextWorkerId
      /\ \A d \in Cancellers \ {c} : admittedBefore'[d] = admittedBefore[d]
    BY DEF RepositoryTypes
<1>b. workerBarrier \in Cancellers \ {c} /\ canceller[workerBarrier].at = "cancel"
    BY DEF OneOwner, RepositoryTypes
<1>4. OneOwner'
    BY <1>2, <1>b DEF OneOwner, RepositoryTypes
<1>5. WorkersRegistered'
    BY <1>2, <1>3 DEF WorkersRegistered, OneOwner, RepositoryTypes
<1>6. Debts'
    BY <1>2, <1>3, <1>b DEF WorkersRegistered, OneOwner, RepositoryTypes, Debts
<1> QED BY <1>1, <1>4, <1>5, <1>6

\* A worker leaves the group of its canceller dead.
LEMMA JoinedKeeps ==
    ASSUME NEW c \in Cancellers, QuietInvariant, WorkerJoined(c)
    PROVE QuietInvariant'
<1> USE DEF QuietInvariant, CancellerUnchanged, Past
<1> DEFINE w == Min(canceller[c].group)
<1>0. canceller[c].at = "cancel" /\ workerAt[w] = "dead"
      /\ canceller' = [canceller EXCEPT ![c].group = @ \ {w}]
      /\ UNCHANGED <<nextWorkerId, activeWorkers, workerBarrier, liftedBarriers, workerAt,
                     admittedBefore>>
    BY DEF WorkerJoined
<1> HIDE DEF w
<1>1. RepositoryTypes'
    BY <1>0 DEF RepositoryTypes, CancellerRecords
<1>2. canceller'[c].at = "cancel" /\ canceller'[c].group = canceller[c].group \ {w}
      /\ \A d \in Cancellers \ {c} : canceller'[d] = canceller[d]
    BY <1>0 DEF RepositoryTypes, CancellerRecords
<1>4. OneOwner'
    BY <1>0, <1>2 DEF OneOwner
<1>5. WorkersRegistered'
    BY <1>0, <1>2 DEF WorkersRegistered
<1>6. Debts'
    BY <1>0, <1>2 DEF Debts, OneOwner
<1> QED BY <1>1, <1>4, <1>5, <1>6

\* An empty group has nothing left to owe: the barrier falls, is lifted and
\* passed.
LEMMA BarrierFallsKeeps ==
    ASSUME NEW c \in Cancellers, QuietInvariant,
           OpenAdmission(c) \/ LiftBarrier(c) \/ BarrierPassed(c)
    PROVE QuietInvariant'
<1> USE RepositoryAssumption DEF QuietInvariant, CancellerUnchanged, Past
<1>1. CASE OpenAdmission(c)
  <2> USE <1>1 DEF OpenAdmission
  <2>1. RepositoryTypes'
    BY DEF RepositoryTypes, CancellerRecords
  <2>2. canceller'[c].at = "lift" /\ canceller'[c].group = {}
        /\ \A d \in Cancellers \ {c} : canceller'[d] = canceller[d]
    BY DEF RepositoryTypes, CancellerRecords
  <2>3. OneOwner'
    BY <2>2 DEF OneOwner
  <2>4. WorkersRegistered'
    BY <2>2 DEF WorkersRegistered, OneOwner
  <2>5. Debts'
    BY <2>2 DEF Debts, OneOwner
  <2> QED BY <2>1, <2>3, <2>4, <2>5
<1>2. CASE LiftBarrier(c)
  <2> USE <1>2 DEF LiftBarrier
  <2>1. RepositoryTypes'
    BY DEF RepositoryTypes, CancellerRecords
  <2>2. canceller'[c].at = "returned" /\ \A d \in Cancellers \ {c} : canceller'[d] = canceller[d]
    BY DEF RepositoryTypes, CancellerRecords
  <2>3. OneOwner'
    BY <2>2 DEF OneOwner
  <2>4. WorkersRegistered'
    BY <2>2 DEF WorkersRegistered, OneOwner
  <2>5. Debts'
    BY <2>2 DEF Debts, OneOwner
  <2> QED BY <2>1, <2>3, <2>4, <2>5
<1>3. CASE BarrierPassed(c)
  <2> USE <1>3 DEF BarrierPassed
  <2>1. RepositoryTypes'
    BY DEF RepositoryTypes, CancellerRecords
  <2>2. canceller'[c].at = "returned" /\ \A d \in Cancellers \ {c} : canceller'[d] = canceller[d]
    BY DEF RepositoryTypes, CancellerRecords
  <2>3. OneOwner'
    BY <2>2 DEF OneOwner
  <2>4. WorkersRegistered'
    BY <2>2 DEF WorkersRegistered, OneOwner
  <2>5. Debts'
    BY <2>2 DEF Debts, OneOwner
  <2> QED BY <2>1, <2>3, <2>4, <2>5
<1> QED BY <1>1, <1>2, <1>3

\* Every step keeps the invariant.
LEMMA QuietStep == QuietInvariant /\ [RepositoryNext]_repositoryVars => QuietInvariant'
<1> SUFFICES ASSUME QuietInvariant, [RepositoryNext]_repositoryVars PROVE QuietInvariant' OBVIOUS
<1>1. CASE UNCHANGED repositoryVars
    BY <1>1, IdleStepKeeps DEF repositoryVars
<1>2. CASE StartRepositoryWorker
    BY <1>2, StartKeeps
<1>3. ASSUME NEW w \in WorkerIds,
             \/ OpenGate(w) \/ TakeCallbackThreads(w) \/ PutCallbackThreads(w) \/ PassGate(w)
             \/ StreamRow(w) \/ RowStreamed(w) \/ EmitTerminal(w) \/ TerminalReturned(w)
             \/ KilledEntering(w) \/ UnregisterRepositoryWorker(w)
      PROVE QuietInvariant'
    BY <1>3, WorkerActionsKeep
<1>4. ASSUME NEW c \in Cancellers,
             \/ CancelAllOwns(c) \/ CancelAllJoins(c) \/ ThrowTo(c) \/ WorkerJoined(c)
             \/ OpenAdmission(c) \/ LiftBarrier(c) \/ BarrierPassed(c)
      PROVE QuietInvariant'
  <2>1. CASE ThrowTo(c)
    BY <2>1, IdleStepKeeps DEF ThrowTo, CancellerUnchanged
  <2> QED BY <1>4, <2>1, OwnsKeeps, JoinsKeeps, JoinedKeeps, BarrierFallsKeeps
<1> QED BY <1>1, <1>2, <1>3, <1>4 DEF RepositoryNext

\* Once ha_repository_cancel_all has returned, to the owner of the barrier or to
\* a thread that waited at it, no operation accepted before the call calls the
\* host, however many operations and cancelling threads there are.
THEOREM CancelAllIsQuiet == RepositorySpec => []QuietAfterCancelAll
<1>1. QuietInvariant => QuietAfterCancelAll
    BY DEF QuietInvariant, Debts, QuietAfterCancelAll, Past
<1> QED BY <1>1, QuietInit, QuietStep, PTL DEF RepositorySpec

===============================================================================
