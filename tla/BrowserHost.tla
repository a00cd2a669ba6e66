----------------------------- MODULE BrowserHost -----------------------------
(***************************************************************************)
(* Browser commands of the engines of a process (BrowserBridge.hs) and the *)
(* host that runs them. A command holds its engine's registration from its *)
(* start until its request is drained; requests of all engines are pending *)
(* in one registry, whose ids are the completion contexts the host gets.   *)
(* The host completes an accepted request once, from any thread, possibly  *)
(* before its callback returns; the turn of a command may be cancelled.    *)
(***************************************************************************)
EXTENDS Integers, FiniteSets, FiniteSetsExt

CONSTANTS
    Engines,           \* engines of the process
    HostContexts,      \* contexts the host registers, NoContext to disable
    NoContext,
    MaxPendingId,      \* the largest request id; the code has 2^64 - 1 of them
    MaxCommands        \* bound: commands of all engines

\* There are far more request ids than engines.
ASSUME BrowserAssumption ==
    /\ IsFiniteSet(Engines) /\ NoContext \notin Engines /\ HostContexts # {}
    /\ MaxPendingId \in Nat /\ Cardinality(Engines) <= MaxPendingId

VARIABLES
    browserRegistration,   \* the context registered with each engine
    browserSetter,         \* whether set_browser_callback waits for the engine
    pendingNext,           \* the id the next request tries first
    pendingById,           \* the command of each registered id
    browserCommand,        \* the command an engine runs
    hostRequests,          \* requests accepted and not completed
    completions            \* completion calls that have not filled their slot

browserVars == <<browserRegistration, browserSetter, pendingNext, pendingById, browserCommand,
                 hostRequests, completions>>

NoCommand == [engine |-> NoContext, number |-> 0]

BrowserInit ==
    \* Which context is registered first makes no difference.
    /\ browserRegistration = [e \in Engines |-> CHOOSE context \in HostContexts : TRUE]
    /\ browserSetter = [e \in Engines |-> "idle"]
    /\ pendingNext = 1 /\ pendingById = [id \in 1 .. MaxPendingId |-> NoCommand]
    /\ browserCommand = [e \in Engines |->
            [at |-> "idle", number |-> 0, id |-> 0, slot |-> NoCommand,
             outcome |-> NoCommand]]
    /\ hostRequests = {} /\ completions = {}

Command(e) == [engine |-> e, number |-> browserCommand[e].number]
CommandMoves(e, place) == browserCommand' = [browserCommand EXCEPT ![e].at = place]
\* The registration is put back; nothing of the command is left but its number.
CommandReturns(e) ==
    browserCommand' = [browserCommand EXCEPT
        ![e] = [at |-> "idle", number |-> @.number, id |-> 0,
                slot |-> NoCommand, outcome |-> NoCommand]]

\* incrementBrowserPendingId and nextAvailableBrowserPendingId: the ids wrap and
\* the ones in use are skipped. A wrap back to an id would take 2^64 commands.
IncrementPendingId(id) == IF id = MaxPendingId THEN 1 ELSE id + 1

\* Mutant of NextAvailableId: an id in use is not skipped.
NextIdUnchecked(candidate) == candidate
NextAvailableId(candidate) ==
    CHOOSE id \in 1 .. MaxPendingId :
        /\ pendingById[id] = NoCommand
        /\ \A other \in 1 .. MaxPendingId :
            pendingById[other] = NoCommand =>
                (id - candidate) % MaxPendingId <= (other - candidate) % MaxPendingId

\* Mutant of FollowingId: an id is free again as soon as its request completes.
FollowingIdReuses(id) == 1
FollowingId(id) == IncrementPendingId(id)

CommandsIssued == MapThenSumSet(LAMBDA e : browserCommand[e].number, Engines)

\* invokeBrowserCommand takes the registration, registers the request and calls
\* the host; without a registration it answers at once.
InvokeBrowserCommand(e) ==
    /\ browserCommand[e].at = "idle" /\ browserRegistration[e] # NoContext
    /\ CommandsIssued < MaxCommands
    /\ LET id == NextAvailableId(pendingNext)
           number == browserCommand[e].number + 1
       IN
        /\ browserCommand' = [browserCommand EXCEPT
                ![e] = [at |-> "calling", number |-> number, id |-> id,
                        slot |-> NoCommand, outcome |-> NoCommand]]
        /\ pendingById' = [pendingById EXCEPT ![id] = [engine |-> e, number |-> number]]
        /\ pendingNext' = FollowingId(id)
    /\ UNCHANGED <<browserRegistration, browserSetter, hostRequests, completions>>

\* ha_browser_callback rejects the request or accepts it; it returns later.
HostRejects(e) ==
    /\ browserCommand[e].at = "calling" /\ CommandReturns(e)
    /\ pendingById' = [pendingById EXCEPT ![browserCommand[e].id] = NoCommand]
    /\ UNCHANGED <<browserRegistration, browserSetter, pendingNext, hostRequests, completions>>
HostAccepts(e) ==
    /\ browserCommand[e].at = "calling" /\ CommandMoves(e, "accepted")
    /\ hostRequests' = hostRequests \union
            {[command |-> Command(e), id |-> browserCommand[e].id,
              context |-> browserRegistration[e]]}
    /\ UNCHANGED <<browserRegistration, browserSetter, pendingNext, pendingById, completions>>
BrowserCallbackReturns(e) ==
    /\ browserCommand[e].at = "accepted" /\ CommandMoves(e, "await")
    /\ UNCHANGED <<browserRegistration, browserSetter, pendingNext, pendingById, hostRequests,
                   completions>>

\* completeBrowserPending: the id leaves the registry, then the slot is filled,
\* which nobody may read any more.
CompleteBrowserPending(request) ==
    /\ request \in hostRequests /\ hostRequests' = hostRequests \ {request}
    /\ completions' = completions \union
            {[slot |-> pendingById[request.id], result |-> request.command]}
    /\ pendingById' = [pendingById EXCEPT ![request.id] = NoCommand]
    /\ UNCHANGED <<browserRegistration, browserSetter, pendingNext, browserCommand>>

SlotIsRead(slot) == slot.engine \in Engines /\ slot = Command(slot.engine)

FillSlot(completion) ==
    /\ completion \in completions /\ completions' = completions \ {completion}
    /\ browserCommand' =
        IF SlotIsRead(completion.slot) /\ browserCommand[completion.slot.engine].slot = NoCommand
        THEN [browserCommand EXCEPT ![completion.slot.engine].slot = completion.result]
        ELSE browserCommand
    /\ UNCHANGED <<browserRegistration, browserSetter, pendingNext, pendingById, hostRequests>>

\* await; a cancelled turn leaves it without a result.
AwaitTakes(e) ==
    /\ browserCommand[e].at = "await" /\ browserCommand[e].slot # NoCommand
    /\ browserCommand' = [browserCommand EXCEPT ![e].at = "check", ![e].slot = NoCommand,
            ![e].outcome = browserCommand[e].slot]
    /\ UNCHANGED <<browserRegistration, browserSetter, pendingNext, pendingById, hostRequests,
                   completions>>
TurnCancelled(e) ==
    /\ browserCommand[e].at = "await" /\ CommandMoves(e, "check")
    /\ UNCHANGED <<browserRegistration, browserSetter, pendingNext, pendingById, hostRequests,
                   completions>>

\* cancelAndDrain: a request still registered is cancelled and waited for.
CheckPending(e) ==
    /\ browserCommand[e].at = "check"
    /\ IF pendingById[browserCommand[e].id] # NoCommand
       THEN CommandMoves(e, "cancelling") ELSE CommandReturns(e)
    /\ UNCHANGED <<browserRegistration, browserSetter, pendingNext, pendingById, hostRequests,
                   completions>>

\* Mutant of CancelReturns: a cancelled request is not waited for.
CancelReturnsForgets(e) ==
    /\ browserCommand[e].at = "cancelling" /\ CommandReturns(e)
    /\ UNCHANGED <<browserRegistration, browserSetter, pendingNext, pendingById, hostRequests,
                   completions>>
CancelReturns(e) ==
    /\ browserCommand[e].at = "cancelling" /\ CommandMoves(e, "drain")
    /\ UNCHANGED <<browserRegistration, browserSetter, pendingNext, pendingById, hostRequests,
                   completions>>
Drained(e) ==
    /\ browserCommand[e].at = "drain" /\ browserCommand[e].slot # NoCommand
    /\ CommandReturns(e)
    /\ UNCHANGED <<browserRegistration, browserSetter, pendingNext, pendingById, hostRequests,
                   completions>>

\* ha_engine_set_browser_callback waits for the registration.
SetBrowserCallback(e) ==
    /\ browserSetter[e] = "idle" /\ browserSetter' = [browserSetter EXCEPT ![e] = "wait"]
    /\ UNCHANGED <<browserRegistration, pendingNext, pendingById, browserCommand, hostRequests,
                   completions>>
BrowserCallbackSet(e, context) ==
    /\ browserSetter[e] = "wait" /\ browserCommand[e].at = "idle"
    /\ browserSetter' = [browserSetter EXCEPT ![e] = "done"]
    /\ browserRegistration' = [browserRegistration EXCEPT ![e] = context]
    /\ UNCHANGED <<pendingNext, pendingById, browserCommand, hostRequests, completions>>

BrowserProgress ==
    \/ \E e \in Engines :
        \/ HostRejects(e) \/ HostAccepts(e) \/ BrowserCallbackReturns(e) \/ AwaitTakes(e)
        \/ CheckPending(e) \/ CancelReturns(e) \/ Drained(e)
        \/ \E context \in HostContexts \union {NoContext} : BrowserCallbackSet(e, context)
    \/ \E request \in hostRequests : CompleteBrowserPending(request)
    \/ \E completion \in completions : FillSlot(completion)
BrowserNext ==
    \/ \E e \in Engines : InvokeBrowserCommand(e) \/ TurnCancelled(e) \/ SetBrowserCallback(e)
    \/ BrowserProgress

BrowserSpec == BrowserInit /\ [][BrowserNext]_browserVars

\* A command is answered with the completion of its own request, although the
\* completions of all engines come in any order, name their request by an id of
\* one shared registry, and may come when the command is given up.
AnsweredByOwnRequest ==
    \A e \in Engines : browserCommand[e].outcome \in {NoCommand, Command(e)}

\* The host frees a context once set_browser_callback has replaced it: a request
\* it has accepted and still owes is always one of the registration in force.
ReplacedContextIdle ==
    \A request \in hostRequests :
        request.context = browserRegistration[request.command.engine]

=============================================================================
