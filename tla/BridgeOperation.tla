--------------------------- MODULE BridgeOperation ---------------------------
(***************************************************************************)
(* An operation with a handle: a remote MCP connection request             *)
(* (McpConnectionOperation.hs) or the observation of a session             *)
(* (SessionObservationBridge.hs). A worker thread races the action against *)
(* the cancellation of the handle; race kills the loser and waits for it.  *)
(* Results are delivered and the terminal callback made after the race, so *)
(* a late cancel does not cut them.                                        *)
(***************************************************************************)
EXTENDS Integers

CONSTANTS
    MaxCallbacks     \* bound: callbacks before the terminal one

VARIABLES
    opKind,          \* "connection" or "observation"
    opHost,          \* what the host does with the operation
    gateOpen,        \* the handle is published, the worker may begin
    opCancelled,     \* the cancellation MVar is full
    opWorker,        \* where the worker is
    opAction,        \* where the raced action is
    opOutcome,       \* what the race gave
    opCallbacks      \* callbacks made so far, the terminal one aside

operationVars == <<opKind, opHost, gateOpen, opCancelled, opWorker, opAction, opOutcome,
                   opCallbacks>>

OperationInit ==
    /\ opKind \in {"connection", "observation"} /\ opHost = "idle"
    /\ gateOpen = FALSE /\ opCancelled = FALSE /\ opWorker = "none" /\ opAction = "none"
    /\ opOutcome = "none" /\ opCallbacks = 0

\* Bad input, a missing callback or a failure to start: no handle, no callback.
OperationRejected ==
    /\ opHost = "idle" /\ opHost' = "rejected"
    /\ UNCHANGED <<opKind, gateOpen, opCancelled, opWorker, opAction, opOutcome, opCallbacks>>

\* startMcpConnectionOperation and startObservation, masked: the worker waits at
\* its gate until the handle is in the host's hands.
OperationSpawn ==
    /\ opHost = "idle" /\ opHost' = "starting" /\ opWorker' = "gate"
    /\ UNCHANGED <<opKind, gateOpen, opCancelled, opAction, opOutcome, opCallbacks>>

\* Mutant of OperationPublish: the gate is left shut.
OperationPublishShut ==
    /\ opHost = "starting" /\ opHost' = "holding"
    /\ UNCHANGED <<opKind, gateOpen, opCancelled, opWorker, opAction, opOutcome, opCallbacks>>

OperationPublish ==
    /\ opHost = "starting" /\ opHost' = "holding" /\ gateOpen' = TRUE
    /\ UNCHANGED <<opKind, opCancelled, opWorker, opAction, opOutcome, opCallbacks>>

RaceStarts ==
    /\ opWorker = "gate" /\ gateOpen /\ opWorker' = "race" /\ opAction' = "running"
    /\ UNCHANGED <<opKind, opHost, gateOpen, opCancelled, opOutcome, opCallbacks>>

\* The action itself calls the host: updates of an observed session, URLs to
\* open for an authorization.
ActionCallback ==
    /\ opAction = "running" /\ opCallbacks < MaxCallbacks
    /\ opAction' = "calling" /\ opCallbacks' = opCallbacks + 1
    /\ UNCHANGED <<opKind, opHost, gateOpen, opCancelled, opWorker, opOutcome>>
ActionCallbackReturns ==
    /\ opAction = "calling" /\ opAction' = "running"
    /\ UNCHANGED <<opKind, opHost, gateOpen, opCancelled, opWorker, opOutcome, opCallbacks>>
ActionEnds ==
    /\ opAction = "running" /\ opAction' \in {"finished", "threw"}
    /\ UNCHANGED <<opKind, opHost, gateOpen, opCancelled, opWorker, opOutcome, opCallbacks>>

\* Mutant of RaceCancelled: the loser of the race is not waited for.
RaceCancelledAtOnce ==
    /\ opWorker = "race" /\ opCancelled
    /\ opWorker' = "deliver" /\ opOutcome' = "cancelled"
    /\ UNCHANGED <<opKind, opHost, gateOpen, opCancelled, opAction, opCallbacks>>

\* The cancellation wins: the action is killed, once it is back from a foreign
\* call, and waited for.
RaceCancelled ==
    /\ opWorker = "race" /\ opCancelled /\ opWorker' = "stopping"
    /\ UNCHANGED <<opKind, opHost, gateOpen, opCancelled, opAction, opOutcome, opCallbacks>>
ActionKilled ==
    /\ opWorker = "stopping" /\ opAction = "running" /\ opAction' = "killed"
    /\ UNCHANGED <<opKind, opHost, gateOpen, opCancelled, opWorker, opOutcome, opCallbacks>>
RaceStopped ==
    /\ opWorker = "stopping" /\ opAction \in {"finished", "threw", "killed"}
    /\ opWorker' = "deliver" /\ opOutcome' = "cancelled"
    /\ UNCHANGED <<opKind, opHost, gateOpen, opCancelled, opAction, opCallbacks>>

\* The action wins. A session that is not observed any more is a failure.
RaceEnds ==
    /\ opWorker = "race" /\ opAction \in {"finished", "threw"} /\ opWorker' = "deliver"
    /\ opOutcome' = IF opAction = "finished" /\ opKind = "connection" THEN "success" ELSE "failure"
    /\ UNCHANGED <<opKind, opHost, gateOpen, opCancelled, opAction, opCallbacks>>

\* complete: the rows of a result, then the terminal callback.
RowCallback ==
    /\ opWorker = "deliver" /\ opOutcome = "success" /\ opCallbacks < MaxCallbacks
    /\ opWorker' = "row" /\ opCallbacks' = opCallbacks + 1
    /\ UNCHANGED <<opKind, opHost, gateOpen, opCancelled, opAction, opOutcome>>
RowReturns ==
    /\ opWorker = "row" /\ opWorker' = "deliver"
    /\ UNCHANGED <<opKind, opHost, gateOpen, opCancelled, opAction, opOutcome, opCallbacks>>
TerminalCallback ==
    /\ opWorker = "deliver" /\ opWorker' = "terminal"
    /\ UNCHANGED <<opKind, opHost, gateOpen, opCancelled, opAction, opOutcome, opCallbacks>>
WorkerEnds ==
    /\ opWorker = "terminal" /\ opWorker' = "dead"
    /\ UNCHANGED <<opKind, opHost, gateOpen, opCancelled, opAction, opOutcome, opCallbacks>>

\* cancel, from any thread and from callbacks; destroy, from outside them.
OperationCancel ==
    /\ opHost = "holding" /\ ~opCancelled /\ opCancelled' = TRUE
    /\ UNCHANGED <<opKind, opHost, gateOpen, opWorker, opAction, opOutcome, opCallbacks>>
OperationDestroy ==
    /\ opHost = "holding" /\ opHost' = "joining" /\ opCancelled' = TRUE
    /\ UNCHANGED <<opKind, gateOpen, opWorker, opAction, opOutcome, opCallbacks>>
OperationJoined ==
    /\ opHost = "joining" /\ opWorker = "dead" /\ opHost' = "destroyed"
    /\ UNCHANGED <<opKind, gateOpen, opCancelled, opWorker, opAction, opOutcome, opCallbacks>>

WorkerStep ==
    \/ OperationPublish \/ RaceStarts \/ RaceCancelled \/ RaceStopped \/ RaceEnds
    \/ RowReturns \/ TerminalCallback \/ WorkerEnds \/ OperationJoined
OperationNext ==
    \/ OperationRejected \/ OperationSpawn \/ OperationCancel \/ OperationDestroy
    \/ ActionCallback \/ ActionCallbackReturns \/ ActionEnds \/ ActionKilled
    \/ RowCallback \/ WorkerStep

OperationSpec == OperationInit /\ [][OperationNext]_operationVars

\* The worker and its action keep the header's contract: serial callbacks, one
\* terminal callback and it is the last, none after destroy has returned.
operationPhase ==
    CASE opHost = "idle" -> "none"
      [] opHost = "rejected" -> "rejected"
      [] opHost = "destroyed" -> "destroyed"
      [] OTHER -> IF opWorker \in {"terminal", "dead"} THEN "ended" ELSE "open"
operationCalling == opAction = "calling" \/ opWorker \in {"row", "terminal"}
Contract == INSTANCE OperationContract WITH phase <- operationPhase, calling <- operationCalling
ContractKept == Contract!ContractSpec

=============================================================================
