----------------------------- MODULE ComputerHost -----------------------------
(***************************************************************************)
(* Computer sessions of an engine (ComputerBridge.hs). A registration of   *)
(* the host's callback is a generation; a session leases the generation in *)
(* force, opens on it, and keeps it until its CLOSE has returned. The host *)
(* replaces the registration at any time without waiting, and releases the *)
(* context of a replaced generation after its final CLOSE.                 *)
(***************************************************************************)
EXTENDS Integers, FiniteSets

CONSTANTS
    ComputerSessions,     \* sessions opened by turns
    MaxGenerations,       \* bound: registrations
    MaxRequests           \* bound: requests of a session

ASSUME ComputerAssumption == IsFiniteSet(ComputerSessions) /\ MaxGenerations \in Nat

VARIABLES
    currentGeneration,    \* hostCurrentGeneration, 0 for none
    nextGeneration,       \* hostNextGeneration
    generationSessions,   \* leases of each generation kept, -1 for one forgotten
    computerSession,      \* where a session is, its generation, its requests
    tokens,               \* host: sessions opened and not closed
    closeCalls,           \* CLOSE calls made for each session's token
    releasedContexts      \* host: generations whose context is released

computerVars == <<currentGeneration, nextGeneration, generationSessions, computerSession, tokens,
                  closeCalls, releasedContexts>>

GenerationIds == 1 .. MaxGenerations

ComputerInit ==
    /\ currentGeneration = 0 /\ nextGeneration = 1
    /\ generationSessions = [g \in GenerationIds |-> -1]
    /\ computerSession = [s \in ComputerSessions |->
            [at |-> "none", generation |-> 0, requests |-> 0]]
    /\ tokens = {} /\ closeCalls = [s \in ComputerSessions |-> 0] /\ releasedContexts = {}

SessionMoves(s, place) == computerSession' = [computerSession EXCEPT ![s].at = place]
Leased == {"leased", "opening", "rejecting", "capabilities", "open", "calling", "closing"}

\* Mutant of WithoutUnusedOld: the old generation goes, used or not.
WithoutOld == [g \in GenerationIds |-> IF g = currentGeneration THEN -1 ELSE generationSessions[g]]
WithoutUnusedOld ==
    [g \in GenerationIds |->
        IF g = currentGeneration /\ generationSessions[g] = 0 THEN -1 ELSE generationSessions[g]]

\* replaceComputerRegistration, atomic: with a callback, or disabling support.
ReplaceRegistration ==
    /\ nextGeneration \in GenerationIds
    /\ currentGeneration' = nextGeneration /\ nextGeneration' = nextGeneration + 1
    /\ generationSessions' = [WithoutUnusedOld EXCEPT ![nextGeneration] = 0]
    /\ UNCHANGED <<computerSession, tokens, closeCalls, releasedContexts>>
DisableRegistration ==
    /\ currentGeneration # 0 /\ currentGeneration' = 0
    /\ generationSessions' = WithoutUnusedOld
    /\ UNCHANGED <<nextGeneration, computerSession, tokens, closeCalls, releasedContexts>>

\* acquireCurrentGeneration, before the buffers of the OPEN call are made.
AcquireCurrentGeneration(s) ==
    /\ computerSession[s].at = "none" /\ currentGeneration # 0
    /\ computerSession' = [computerSession EXCEPT
            ![s].at = "leased", ![s].generation = currentGeneration]
    /\ generationSessions' = [generationSessions EXCEPT ![currentGeneration] = @ + 1]
    /\ UNCHANGED <<currentGeneration, nextGeneration, tokens, closeCalls, releasedContexts>>
ReleaseGeneration(g) ==
    generationSessions' = [generationSessions EXCEPT
        ![g] = CASE @ = -1 -> -1
                 [] @ <= 1 /\ currentGeneration # g -> -1
                 [] @ <= 1 /\ currentGeneration = g -> 0
                 [] OTHER -> @ - 1]

\* openComputerSession: OPEN or OPEN_ATTACHED, then by what the host answers.
OpenCall(s) ==
    /\ computerSession[s].at = "leased" /\ SessionMoves(s, "opening")
    /\ UNCHANGED <<currentGeneration, nextGeneration, generationSessions, tokens, closeCalls,
                   releasedContexts>>
\* A failure, or a zero token.
OpenFails(s) ==
    /\ computerSession[s].at = "opening" /\ SessionMoves(s, "failed")
    /\ ReleaseGeneration(computerSession[s].generation)
    /\ UNCHANGED <<currentGeneration, nextGeneration, tokens, closeCalls, releasedContexts>>
\* A token with data: closeInvalidOpen, then the lease is released.
OpenIsInvalid(s) ==
    /\ computerSession[s].at = "opening" /\ SessionMoves(s, "rejecting")
    /\ tokens' = tokens \union {s} /\ closeCalls' = [closeCalls EXCEPT ![s] = @ + 1]
    /\ UNCHANGED <<currentGeneration, nextGeneration, generationSessions, releasedContexts>>
\* The session asks for its capabilities at once; any answer will do.
OpenSucceeds(s) ==
    /\ computerSession[s].at = "opening" /\ SessionMoves(s, "capabilities")
    /\ tokens' = tokens \union {s}
    /\ UNCHANGED <<currentGeneration, nextGeneration, generationSessions, closeCalls,
                   releasedContexts>>
\* The query throws: computerToolSessionForAttachment closes the session.
CapabilitiesThrow(s) ==
    /\ computerSession[s].at = "capabilities" /\ SessionMoves(s, "closing")
    /\ closeCalls' = [closeCalls EXCEPT ![s] = @ + 1]
    /\ UNCHANGED <<currentGeneration, nextGeneration, generationSessions, tokens,
                   releasedContexts>>
SessionAnswered(s) ==
    /\ computerSession[s].at \in {"capabilities", "calling"} /\ SessionMoves(s, "open")
    /\ UNCHANGED <<currentGeneration, nextGeneration, generationSessions, tokens, closeCalls,
                   releasedContexts>>
\* invokeComputerSessionRequest holds the session's state over the call.
SessionRequest(s) ==
    /\ computerSession[s].at = "open" /\ computerSession[s].requests < MaxRequests
    /\ computerSession' = [computerSession EXCEPT ![s].at = "calling", ![s].requests = @ + 1]
    /\ UNCHANGED <<currentGeneration, nextGeneration, generationSessions, tokens, closeCalls,
                   releasedContexts>>

\* closeComputerSession: closed under the state's lock, CLOSE after it, then the
\* lease. A second close finds the session closed.
CloseComputerSession(s) ==
    /\ computerSession[s].at = "open" /\ SessionMoves(s, "closing")
    /\ closeCalls' = [closeCalls EXCEPT ![s] = @ + 1]
    /\ UNCHANGED <<currentGeneration, nextGeneration, generationSessions, tokens,
                   releasedContexts>>
\* CLOSE returns and the token is gone; then releaseGeneration.
CloseReturns(s) ==
    /\ computerSession[s].at \in {"rejecting", "closing"} /\ s \in tokens
    /\ tokens' = tokens \ {s}
    /\ UNCHANGED <<currentGeneration, nextGeneration, generationSessions, computerSession,
                   closeCalls, releasedContexts>>
SessionReleased(s) ==
    /\ computerSession[s].at \in {"rejecting", "closing"} /\ s \notin tokens
    /\ SessionMoves(s, IF computerSession[s].at = "closing" THEN "closed" ELSE "failed")
    /\ ReleaseGeneration(computerSession[s].generation)
    /\ UNCHANGED <<currentGeneration, nextGeneration, tokens, closeCalls, releasedContexts>>

\* The host frees a replaced context when no call on it is running and no token
\* it opened on it is left.
HostReleasesContext(g) ==
    /\ g < nextGeneration /\ g # currentGeneration /\ g \notin releasedContexts
    /\ \A s \in ComputerSessions : computerSession[s].generation = g =>
        /\ s \notin tokens /\ computerSession[s].at # "opening"
    /\ releasedContexts' = releasedContexts \union {g}
    /\ UNCHANGED <<currentGeneration, nextGeneration, generationSessions, computerSession, tokens,
                   closeCalls>>

ComputerNext ==
    \/ ReplaceRegistration \/ DisableRegistration
    \/ \E s \in ComputerSessions :
        \/ AcquireCurrentGeneration(s) \/ OpenCall(s) \/ OpenFails(s) \/ OpenIsInvalid(s)
        \/ OpenSucceeds(s) \/ CapabilitiesThrow(s) \/ SessionAnswered(s) \/ SessionRequest(s)
        \/ CloseComputerSession(s) \/ CloseReturns(s) \/ SessionReleased(s)
    \/ \E g \in GenerationIds : HostReleasesContext(g)

ComputerSpec == ComputerInit /\ [][ComputerNext]_computerVars

\* The sessions that have leased a generation.
Leases(g) ==
    {s \in ComputerSessions :
        computerSession[s].generation = g /\ computerSession[s].at \in Leased}

\* The engine's table follows the sessions: a generation is kept exactly while
\* it is in force or leased, with the number of its leases, on every way a
\* session can end and whatever is replaced meanwhile.
GenerationsMatchLeases ==
    \A g \in GenerationIds :
        generationSessions[g] =
            IF g = currentGeneration \/ Leases(g) # {} THEN Cardinality(Leases(g)) ELSE -1

\* "Replacement is visible to new sessions immediately. [...] Therefore the host
\* must retain an old callback/context until its final CLOSE returns": a host
\* that did so is never called on a context it has released.
ReleasedContextUnused ==
    \A s \in ComputerSessions :
        computerSession[s].at \in {"opening", "capabilities", "calling"} =>
            computerSession[s].generation \notin releasedContexts

=============================================================================
