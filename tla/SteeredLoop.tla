----------------------------- MODULE SteeredLoop -----------------------------
(***************************************************************************)
(* The agent loop of a root conversation (Agent.Loop.Internal) with the    *)
(* steering queue of its host and the report queue of its subagents        *)
(* (withSubagentSteering, Agent.Subagents.Loop). Guidance and notices      *)
(* arrive at any time. The loop reads both queues before a request, counts *)
(* what it read, and acknowledges that many inputs once a response is      *)
(* committed; new guidance may preempt a request in flight. Between turns  *)
(* the host waits for a prompt, for queued input to wake it, or resets the *)
(* conversation.                                                           *)
(***************************************************************************)
EXTENDS InputQueue

CONSTANTS
    Configurations,  \* ways to wire the loop, see Configuration
    KillPoints,      \* where a failing event sink or tool may kill the worker
    Sizes,           \* sizes of inputs
    MaxInputs,       \* inputs offered in a behaviour
    MaxTurns,        \* loopMaxTurns
    MaxEpoch         \* resets in a behaviour

\* preempts: loopWaitSteering watches the host's queue. closes: the host has
\* every accepted input answered within the turn (loopCloseSteering). reports:
\* subagents report to the loop (NoticesToLoop) and are awaited (AwaitChildren).
Configuration == [preempts: BOOLEAN, closes: BOOLEAN, reports: BOOLEAN]

Points == {"idle", "woken", "resetting", "begin", "ready", "submit", "steered",
           "returned", "complete", "acknowledged", "tools", "closing", "ending"}

ASSUME LoopAssumption ==
    /\ Configurations \subseteq Configuration /\ KillPoints \subseteq Points
    /\ Sizes \subseteq Nat /\ MaxInputs \in Nat /\ MaxTurns \in Nat /\ MaxEpoch \in Nat

VARIABLES
    conf,       \* the configuration in use
    host,       \* the host's steering queue
    reports,    \* the report queue of the subagents
    pc,         \* where the host's thread is
    first,      \* the inputs that started the turn
    pending,    \* LoopState.pending: inputs to submit and inputs to acknowledge
    hostShare,  \* inputs of the last read that came from the host
    turns,      \* LoopState.turnsUsed
    result,     \* how the last turn ended
    incomplete, \* the response just returned is incomplete
    cancel,     \* the cancel latch of the turn
    history,    \* inputs in the committed backend state, in order
    base,       \* length of history when the turn began
    next,       \* inputs offered so far
    guidance,   \* user guidance the host's queue accepted in this conversation
    notices,    \* notices it accepted, and accepted reports, not dismissed
    hook,       \* the conversation captured by the installed completion hooks
    owner       \* owner[k]: the conversation that launched task k, 0 for none

queueVars == <<host, reports>>
loopVars == <<pc, first, pending, hostShare, turns, incomplete>>
convVars == <<history, base, guidance, notices>>
taskVars == <<hook, owner>>
vars == <<conf, queueVars, loopVars, result, cancel, convVars, next, taskVars>>

NoPending == [inputs |-> <<>>, ack |-> 0]

\* The state of a turn does not outlive it.
TurnOver ==
    /\ first' = <<>> /\ pending' = NoPending /\ hostShare' = 0
    /\ turns' = 0 /\ incomplete' = FALSE /\ base' = 0
    /\ pc' = "idle"

\* Conversations are numbered from 1 so that 0 can stand for no conversation.
Init ==
    /\ conf \in Configurations
    /\ host = [EmptyQueue EXCEPT !.epoch = 1]
    /\ reports = EmptyQueue
    /\ pc = "idle" /\ first = <<>> /\ pending = NoPending
    /\ hostShare = 0 /\ turns = 0 /\ result = "none"
    /\ incomplete = FALSE /\ cancel = FALSE
    /\ history = <<>> /\ base = 0 /\ next = 0
    /\ guidance = {} /\ notices = {}
    /\ hook = 1 /\ owner = [k \in Keys |-> 0]

Goto(p) == pc' = p

-----------------------------------------------------------------------------
(* Producers *)

Offered == next < MaxInputs /\ next' = next + 1

\* enqueueSteeringInputs: the user steers the conversation.
EnqueueSteering(n) ==
    LET e == InputEntry(next + 1, n, "none")
    IN  /\ Offered
        /\ host' = Steer(host, e)
        /\ guidance' = IF host' = host THEN guidance ELSE guidance \cup {e.input}
        /\ UNCHANGED <<conf, reports, loopVars, result, cancel, history, base, notices, taskVars>>

\* prepareBackgroundCompletion: a task keeps the hooks of the conversation that
\* launched it.
Launch(k) ==
    /\ pc = "tools" /\ owner[k] = 0
    /\ owner' = [owner EXCEPT ![k] = hook]
    /\ UNCHANGED <<conf, queueVars, loopVars, result, cancel, convVars, next, hook>>

\* backgroundTaskCompleted: the task ends, perhaps after its conversation.
CompleteTask(k, n) ==
    LET e == [InputEntry(next + 1, n, "none") EXCEPT !.key = k]
    IN  /\ owner[k] # 0 /\ Offered
        /\ host' = Completed(host, owner[k], e)
        /\ notices' = IF host' = host THEN notices ELSE notices \cup {e.input}
        /\ UNCHANGED <<conf, reports, loopVars, result, cancel, history, base, guidance, taskVars>>

\* backgroundTaskDismissed
DismissTask(k) ==
    /\ HasKey(host.entries, k) \/ HasKey(host.deferred, k)
    /\ host' = Dismissed(host, k)
    /\ notices' = notices \ (Ids(host.entries \o host.deferred)
                             \ Ids(host'.entries \o host'.deferred))
    /\ UNCHANGED <<conf, reports, loopVars, result, cancel, history, base, guidance, next, taskVars>>

\* deliverToLoop: a subagent reports. Every report has a key of its own, so
\* none is a duplicate and the model leaves the keys out.
Report(n) ==
    LET e == InputEntry(next + 1, n, "subagent")
    IN  /\ conf.reports /\ n <= ByteLimit /\ Offered
        /\ reports' = Promoted([reports EXCEPT !.deferred = Append(@, e)])
        /\ notices' = notices \cup {e.input}
        /\ UNCHANGED <<conf, host, loopVars, result, cancel, history, base, guidance, taskVars>>

RequestCancel ==
    /\ pc \notin {"idle", "woken", "resetting"} /\ ~cancel
    /\ cancel' = TRUE
    /\ UNCHANGED <<conf, queueVars, loopVars, result, convVars, next, taskVars>>

-----------------------------------------------------------------------------
(* The host between turns *)

\* A prompt starts a turn. The caller resets the cancel latch.
Prompt ==
    /\ pc = "idle" /\ Offered
    /\ first' = <<next + 1>> /\ cancel' = FALSE
    /\ Goto("begin")
    /\ UNCHANGED <<conf, queueVars, pending, hostShare, turns, incomplete, result, convVars, taskVars>>

\* awaitSteeringInput: queued input wakes an idle host, which keeps a failed
\* turn for a retry instead.
Wake ==
    /\ pc = "idle" /\ result # "failed" /\ AnyWake(host)
    /\ host' = WakeConsumed(host)
    /\ Goto("woken")
    /\ UNCHANGED <<conf, reports, first, pending, hostShare, turns, incomplete, result, cancel,
                   convVars, next, taskVars>>

\* handleReplWake: the queued input itself is the turn.
StartWoken ==
    /\ pc = "woken"
    /\ host' = Reserved(host)
    /\ first' = <<>> /\ cancel' = FALSE
    /\ Goto(IF host.entries = <<>> THEN "idle" ELSE "begin")
    /\ UNCHANGED <<conf, reports, pending, hostShare, turns, incomplete, result, convVars, next, taskVars>>

\* sessionReset, up to clearSteeringInputs. It is a command of the prompt of a
\* host whose subagents do not report to the loop.
ResetSession ==
    /\ pc = "idle" /\ ~conf.reports /\ host.epoch <= MaxEpoch
    /\ host' = Cleared(host)
    /\ history' = <<>> /\ base' = 0 /\ guidance' = {} /\ notices' = {}
    /\ result' = "none"
    /\ Goto("resetting")
    /\ UNCHANGED <<conf, reports, first, pending, hostShare, turns, incomplete, cancel, next, taskVars>>

\* sessionReset: installBackgroundTaskSteering.
InstallHooks ==
    /\ pc = "resetting"
    /\ hook' = host.epoch
    /\ Goto("idle")
    /\ UNCHANGED <<conf, queueVars, first, pending, hostShare, turns, incomplete, result, cancel,
                   convVars, next, owner>>

-----------------------------------------------------------------------------
(* The loop *)

Read == Inputs(host.entries) \o (IF conf.reports THEN Inputs(reports.entries) ELSE <<>>)

\* loopReadSteering: the host's inputs, then those of the subagents.
ReadSteering ==
    /\ host' = Reserved(host)
    /\ hostShare' = Len(host.entries)
    /\ UNCHANGED reports

\* loopCommitSteering: the count is split by the composition of the last read.
CommitSteering(n) ==
    LET fromHost == IF n < hostShare THEN n ELSE hostShare
    IN  /\ host' = Acknowledged(host, fromHost)
        /\ reports' = IF conf.reports THEN Acknowledged(reports, n - fromHost) ELSE reports

\* initializeLoopRuntime
BeginTurn ==
    /\ pc = "begin"
    /\ ReadSteering
    /\ pending' = [inputs |-> first \o Read, ack |-> Len(Read)]
    /\ turns' = 0 /\ base' = Len(history)
    /\ Goto("ready")
    /\ UNCHANGED <<conf, first, incomplete, result, cancel, history, guidance, notices, next, taskVars>>

\* finishLoopExecution
Ends(how) ==
    /\ result' = how
    /\ Goto("ending")

\* runLoopState
Submit ==
    /\ pc = "ready"
    /\ \/ turns >= MaxTurns /\ Ends("failed")
       \/ turns < MaxTurns /\ cancel /\ Ends("cancelled")
       \/ turns < MaxTurns /\ ~cancel /\ Goto("submit") /\ UNCHANGED result
    /\ UNCHANGED <<conf, queueVars, first, pending, hostShare, turns, incomplete, cancel, convVars,
                   next, taskVars>>

\* submitLoopTurn: the response is committed to the backend state.
Returned(b) ==
    /\ pc = "submit"
    /\ history' = history \o pending.inputs
    /\ incomplete' = b
    /\ Goto("returned")
    /\ UNCHANGED <<conf, queueVars, first, pending, hostShare, turns, result, cancel, base,
                   guidance, notices, next, taskVars>>

\* publishSubmissionRecovery: what an unfinished response left behind is
\* committed with the inputs of its request, which are then acknowledged.
Salvage ==
    /\ history' = history \o pending.inputs
    /\ CommitSteering(pending.ack)
    /\ pending' = NoPending
    /\ UNCHANGED <<hostShare, base, guidance, notices>>

NoSalvage == UNCHANGED <<queueVars, pending, hostShare, convVars>>

\* The request is preempted by guidance beyond the inputs it was sent with.
Steered ==
    /\ pc = "submit" /\ conf.preempts /\ ~cancel
    /\ GuidanceAfter(host, pending.ack)
    /\ Salvage \/ NoSalvage
    /\ Goto("steered")
    /\ UNCHANGED <<conf, first, turns, incomplete, result, cancel, next, taskVars>>

\* The request is cancelled, or fails.
Aborted ==
    /\ pc = "submit"
    /\ Salvage \/ NoSalvage
    /\ Ends(IF cancel THEN "cancelled" ELSE "failed")
    /\ UNCHANGED <<conf, first, turns, incomplete, cancel, next, taskVars>>

\* Mutant: the inputs already in the request are added to it again.
ResubmitAll ==
    /\ pc = "steered"
    /\ \/ /\ cancel /\ Ends("cancelled")
          /\ UNCHANGED <<queueVars, pending, hostShare>>
       \/ /\ ~cancel
          /\ ReadSteering
          /\ pending' = [inputs |-> pending.inputs \o Read, ack |-> Len(Read)]
          /\ Goto("ready")
          /\ UNCHANGED result
    /\ UNCHANGED <<conf, first, turns, incomplete, cancel, convVars, next, taskVars>>

\* continueSteeredLoop: the queues are read again; of what is read, the inputs
\* that are already in the request are skipped by their number.
ContinueSteered ==
    /\ pc = "steered"
    /\ \/ /\ cancel /\ Ends("cancelled")
          /\ UNCHANGED <<queueVars, pending, hostShare>>
       \/ /\ ~cancel
          /\ ReadSteering
          /\ pending' = [inputs |-> pending.inputs \o Drop(Read, pending.ack), ack |-> Len(Read)]
          /\ Goto("ready")
          /\ UNCHANGED result
    /\ UNCHANGED <<conf, first, turns, incomplete, cancel, convVars, next, taskVars>>

\* continueCommittedLoop: the response absorbed the inputs of its request.
Absorb ==
    /\ pc = "returned"
    /\ pending' = [pending EXCEPT !.inputs = <<>>]
    /\ incomplete' = FALSE
    /\ \/ cancel /\ Ends("cancelled")
       \/ ~cancel /\ incomplete /\ Ends("failed")
       \/ ~cancel /\ ~incomplete /\ Goto("complete") /\ UNCHANGED result
    /\ UNCHANGED <<conf, queueVars, first, hostShare, turns, cancel, convVars, next, taskVars>>

\* completeLoopTurn: loopCommitSteering, then clearSteeringAcknowledgement.
Acknowledge ==
    /\ pc = "complete"
    /\ CommitSteering(pending.ack)
    /\ Goto("acknowledged")
    /\ UNCHANGED <<conf, first, pending, hostShare, turns, incomplete, result, cancel, convVars,
                   next, taskVars>>

ClearAcknowledgement ==
    /\ pc = "acknowledged"
    /\ pending' = [pending EXCEPT !.ack = 0]
    /\ Goto("tools")
    /\ UNCHANGED <<conf, queueVars, first, hostShare, turns, incomplete, result, cancel, convVars,
                   next, taskVars>>

\* advanceLoopState
Continue(inputs) ==
    /\ pending' = [inputs |-> inputs, ack |-> Len(inputs)]
    /\ turns' = turns + 1
    /\ Goto("ready")
    /\ UNCHANGED result

\* completeLoopTurn and advanceCompletedTurn: after the tools ran, results
\* (more) or guidance continue the turn.
Advance(more) ==
    /\ pc = "tools"
    /\ \/ cancel /\ Ends("cancelled") /\ UNCHANGED <<queueVars, pending, hostShare, turns>>
       \/ /\ ~cancel
          /\ ReadSteering
          /\ IF more \/ Read # <<>> THEN Continue(Read)
             ELSE Goto("closing") /\ UNCHANGED <<pending, turns, result>>
    /\ UNCHANGED <<conf, first, incomplete, cancel, convVars, next, taskVars>>

\* loopCloseSteering before the answer: reports that are queued by now, then
\* late guidance if the host closes its queue, continue the turn instead.
Close ==
    /\ pc = "closing"
    /\ LET late == IF conf.reports THEN Inputs(reports.entries) ELSE <<>>
       IN  IF late # <<>>
           THEN Continue(late) /\ hostShare' = 0 /\ UNCHANGED host
           ELSE /\ host' = IF conf.closes THEN Closed(host) ELSE host
                /\ hostShare' = IF conf.closes THEN Len(host.entries) ELSE 0
                /\ IF conf.closes /\ host.entries # <<>>
                   THEN Continue(Inputs(host.entries))
                   ELSE Ends("answered") /\ UNCHANGED <<pending, turns>>
    /\ UNCHANGED <<conf, reports, first, incomplete, cancel, convVars, next, taskVars>>

\* The event sink or a tool worker fails while the loop is at p.
Kill ==
    /\ pc \in KillPoints
    /\ Ends("failed")
    /\ UNCHANGED <<conf, queueVars, first, pending, hostShare, turns, incomplete, cancel, convVars,
                   next, taskVars>>

\* Mutant: every end of a turn silences the guidance that is queued.
RecoverSilencing ==
    /\ pc = "ending"
    /\ host' = WakeSuppressed(host)
    /\ TurnOver
    /\ UNCHANGED <<conf, reports, result, cancel, history, guidance, notices, next, taskVars>>

\* recoverTools, then the host's handling of the result (finishTurn). Tool
\* activity outside every committed response is committed as evidence with the
\* inputs that are still pending, and their acknowledgement is settled. A
\* cancelled turn keeps its guidance without waking the host for it.
Recover ==
    /\ pc = "ending"
    /\ \E orphans \in BOOLEAN :
        /\ history' = IF orphans THEN history \o pending.inputs ELSE history
        /\ LET fromHost == IF pending.ack < hostShare THEN pending.ack ELSE hostShare
               settled == IF orphans THEN Acknowledged(host, fromHost) ELSE host
           IN  /\ host' = IF result = "cancelled" THEN WakeSuppressed(settled) ELSE settled
               /\ reports' = IF orphans /\ conf.reports
                             THEN Acknowledged(reports, pending.ack - fromHost) ELSE reports
    /\ TurnOver
    /\ UNCHANGED <<conf, result, cancel, guidance, notices, next, taskVars>>

-----------------------------------------------------------------------------
Producers ==
    \/ \E n \in Sizes : EnqueueSteering(n) \/ Report(n)
    \/ \E k \in Keys : Launch(k) \/ DismissTask(k) \/ (\E n \in Sizes : CompleteTask(k, n))
    \/ RequestCancel

Host == Prompt \/ Wake \/ StartWoken \/ ResetSession \/ InstallHooks \/ Recover

Loop ==
    \/ BeginTurn \/ Submit \/ Steered \/ Aborted \/ ContinueSteered
    \/ Absorb \/ Acknowledge \/ ClearAcknowledgement \/ Close \/ Kill
    \/ \E b \in BOOLEAN : Returned(b) \/ Advance(b)

Next == Producers \/ Host \/ Loop

Spec == Init /\ [][Next]_vars

-----------------------------------------------------------------------------
(* Properties *)

Members(s) == {s[i] : i \in 1..Len(s)}
Queued(q) == Ids(q.entries) \cup Ids(q.deferred)

\* What the queue accepted is queued until it is part of the committed
\* conversation: an acknowledgement never removes an input that no request
\* carried, whatever arrived, was dismissed or was promoted since the request
\* was put together.
GuidanceKept == guidance \cup notices \subseteq Queued(host) \cup Queued(reports) \cup Members(history)

\* A turn submits guidance in the order in which it was accepted and no
\* guidance twice, preempted requests and recovered ones included.
SubmittedInOrder ==
    LET turn == SubSeq(history, base + 1, Len(history)) \o pending.inputs
    IN  pc = "submit" => \A i, j \in 1..Len(turn) :
            i < j /\ {turn[i], turn[j]} \subseteq guidance => turn[i] < turn[j]

\* A notice of a task belongs to the conversation that launched the task, and
\* a task has at most one notice queued: the late completion of a task does
\* not reach the conversation that a reset started.
NoticesOfConversation ==
    LET all == host.entries \o host.deferred
    IN  \A i \in 1..Len(all) :
            all[i].key # NoKey =>
                /\ owner[all[i].key] = host.epoch
                /\ \A j \in 1..Len(all) : all[j].key = all[i].key => j = i

\* An answered turn strands no guidance: what arrived after its last read
\* still wakes the idle host, and a host that closes its queue has none left.
NothingStranded ==
    /\ pc = "idle" /\ result = "answered" =>
        \A i \in 1..Len(host.entries) : host.entries[i].wake
    /\ host.closed => ~GuidanceAfter(host, 0)

=============================================================================
