------------------------------ MODULE HostProofs ------------------------------
(***************************************************************************)
(* The hosts behind the native bridge. The engine's table of computer      *)
(* registrations matches the leases of its sessions, for any number of     *)
(* sessions and of registrations; a browser command gets the answer to its *)
(* own request, and a replaced browser registration owes no answer any     *)
(* more, for any number of engines.                                        *)
(***************************************************************************)
EXTENDS ComputerHost, BrowserHost, FiniteSetTheorems, SetInduction, TLAPS

-----------------------------------------------------------------------------
(* Computer sessions                                                       *)

LeasePlaces == Leased \cup {"none", "failed", "closed"}

ComputerTypes ==
    /\ currentGeneration \in Nat /\ nextGeneration \in Nat
    /\ generationSessions \in [GenerationIds -> Int]
    /\ computerSession \in [ComputerSessions ->
                            [at : LeasePlaces, generation : Nat, requests : Nat]]

\* Registrations are numbered upwards, and one that was never made has no lease.
GenerationsAreOld ==
    /\ currentGeneration < nextGeneration
    /\ currentGeneration # 0 => currentGeneration \in GenerationIds
    /\ \A s \in ComputerSessions :
        /\ computerSession[s].generation < nextGeneration
        /\ computerSession[s].at \in Leased => computerSession[s].generation \in GenerationIds

ComputerInvariant == ComputerTypes /\ GenerationsAreOld /\ GenerationsMatchLeases

\* Leases are finite in number, so they can be counted.
LEMMA LeasesCounted ==
    ASSUME NEW g PROVE IsFiniteSet(Leases(g)) /\ Cardinality(Leases(g)) \in Nat
<1>1. Leases(g) \subseteq ComputerSessions
  BY DEF Leases
<1> QED
  BY <1>1, ComputerAssumption, FS_Subset, FS_CardinalityType

LEMMA ComputerInitially == ComputerInit => ComputerInvariant
<1> SUFFICES ASSUME ComputerInit PROVE ComputerInvariant
  OBVIOUS
<1>1. ComputerTypes /\ GenerationsAreOld
  BY DEF ComputerInit, ComputerTypes, GenerationsAreOld, LeasePlaces, Leased, GenerationIds
<1>2. \A g \in GenerationIds : Leases(g) = {} /\ g # currentGeneration
  BY DEF ComputerInit, Leases, Leased, GenerationIds
<1>3. GenerationsMatchLeases
  BY <1>2 DEF ComputerInit, GenerationsMatchLeases
<1> QED
  BY <1>1, <1>3 DEF ComputerInvariant

\* A step of a session that neither takes nor ends its lease.
Keeps(s, places) ==
    /\ computerSession[s].at \in Leased
    /\ UNCHANGED <<currentGeneration, nextGeneration, generationSessions>>
    /\ \E place \in places, n \in Nat :
        computerSession' = [computerSession EXCEPT ![s].at = place, ![s].requests = n]

LEMMA KeepingStep ==
    ASSUME ComputerInvariant, NEW s \in ComputerSessions, Keeps(s, Leased)
    PROVE  ComputerInvariant'
<1> PICK place \in Leased, n \in Nat :
        computerSession' = [computerSession EXCEPT ![s].at = place, ![s].requests = n]
  BY DEF Keeps
<1>1. ComputerTypes' /\ GenerationsAreOld'
  BY ZenonT(60) DEF ComputerInvariant, ComputerTypes, GenerationsAreOld, Keeps, LeasePlaces, Leased,
         GenerationIds
<1>2. \A g : Leases(g)' = Leases(g)
  BY DEF ComputerInvariant, ComputerTypes, Keeps, Leases
<1>3. GenerationsMatchLeases'
  BY <1>2 DEF ComputerInvariant, GenerationsMatchLeases, Keeps
<1> QED
  BY <1>1, <1>3 DEF ComputerInvariant

\* A step that ends a lease: the lease is given back in the same step.
LEMMA ReleasingStep ==
    ASSUME ComputerInvariant, NEW s \in ComputerSessions, computerSession[s].at \in Leased,
           NEW place \in {"failed", "closed"}, SessionMoves(s, place),
           ReleaseGeneration(computerSession[s].generation),
           UNCHANGED <<currentGeneration, nextGeneration>>
    PROVE  ComputerInvariant'
<1> PICK own \in Nat : own = computerSession[s].generation
  BY DEF ComputerInvariant, ComputerTypes
<1>1. own \in GenerationIds
  BY DEF ComputerInvariant, GenerationsAreOld
<1>2. computerSession' = [computerSession EXCEPT ![s].at = place]
  BY DEF SessionMoves
<1>3. s \in Leases(own) /\ Leases(own)' = Leases(own) \ {s}
  BY <1>2 DEF ComputerInvariant, ComputerTypes, Leases, Leased
<1>4. \A g \in GenerationIds : g # own => Leases(g)' = Leases(g)
  BY <1>2 DEF ComputerInvariant, ComputerTypes, Leases, Leased
<1>5. /\ Cardinality(Leases(own)) \in Nat
      /\ Cardinality(Leases(own)') = Cardinality(Leases(own)) - 1
      /\ Cardinality(Leases(own)') \in Nat
      /\ Leases(own)' = {} <=> Cardinality(Leases(own)') = 0
  <2>1. IsFiniteSet(Leases(own)) /\ IsFiniteSet(Leases(own) \ {s})
    BY LeasesCounted, FS_RemoveElement
  <2> QED
    BY <1>3, <2>1, LeasesCounted, FS_RemoveElement, FS_EmptySet, FS_CardinalityType
<1>6. generationSessions[own] = Cardinality(Leases(own))
  BY <1>1, <1>3 DEF ComputerInvariant, GenerationsMatchLeases
<1>7. generationSessions' \in [GenerationIds -> Int]
  BY <1>1 DEF ReleaseGeneration, ComputerInvariant, ComputerTypes
<1>8. ComputerTypes'
  BY <1>2, <1>7 DEF ComputerInvariant, ComputerTypes, LeasePlaces
<1>9. GenerationsAreOld'
  BY <1>2 DEF ComputerInvariant, ComputerTypes, GenerationsAreOld, Leased, GenerationIds
<1>10. generationSessions'[own] =
        IF own = currentGeneration \/ Leases(own)' # {} THEN Cardinality(Leases(own)') ELSE -1
  BY <1>1, <1>5, <1>6 DEF ReleaseGeneration, ComputerInvariant, ComputerTypes
<1>11. ASSUME NEW g \in GenerationIds, g # own
       PROVE  generationSessions'[g] = generationSessions[g]
  BY <1>1, <1>11 DEF ReleaseGeneration, ComputerInvariant, ComputerTypes
<1>12. GenerationsMatchLeases'
  BY <1>4, <1>10, <1>11 DEF ComputerInvariant, GenerationsMatchLeases
<1> QED
  BY <1>8, <1>9, <1>12 DEF ComputerInvariant

\* A new registration, or none: leases stay, and the old generation stays with
\* them.
LEMMA ReplacingStep ==
    ASSUME ComputerInvariant, ReplaceRegistration \/ DisableRegistration
    PROVE  ComputerInvariant'
<1>1. UNCHANGED computerSession
  BY DEF ReplaceRegistration, DisableRegistration
<1>2. \A g : Leases(g)' = Leases(g)
  BY <1>1 DEF Leases
<1>3. WithoutUnusedOld \in [GenerationIds -> Int]
  BY DEF WithoutUnusedOld, ComputerInvariant, ComputerTypes
<1>4. ComputerTypes' /\ GenerationsAreOld'
  BY <1>1, <1>3, ComputerAssumption
     DEF ReplaceRegistration, DisableRegistration, ComputerInvariant, ComputerTypes,
         GenerationsAreOld, GenerationIds
<1>5. \A g \in GenerationIds :
        WithoutUnusedOld[g] = IF Leases(g) # {} THEN Cardinality(Leases(g)) ELSE -1
  <2> SUFFICES ASSUME NEW g \in GenerationIds
               PROVE  WithoutUnusedOld[g] =
                        IF Leases(g) # {} THEN Cardinality(Leases(g)) ELSE -1
    OBVIOUS
  <2>1. Leases(g) = {} <=> Cardinality(Leases(g)) = 0
    BY LeasesCounted, FS_EmptySet
  <2> QED
    BY <2>1 DEF WithoutUnusedOld, ComputerInvariant, GenerationsMatchLeases
<1>6. CASE DisableRegistration
  <2>1. \A g \in GenerationIds : g # currentGeneration'
    BY <1>6 DEF DisableRegistration, GenerationIds
  <2> QED
    BY <1>2, <1>4, <1>5, <1>6, <2>1
       DEF DisableRegistration, ComputerInvariant, GenerationsMatchLeases
<1>7. CASE ReplaceRegistration
  <2>1. Leases(nextGeneration) = {}
    BY <1>7 DEF ReplaceRegistration, Leases, ComputerInvariant, ComputerTypes, GenerationsAreOld
  <2>2. Cardinality(Leases(nextGeneration)) = 0
    BY <2>1, FS_EmptySet
  <2>3. \A g \in GenerationIds :
            generationSessions'[g] = IF g = nextGeneration THEN 0 ELSE WithoutUnusedOld[g]
    BY <1>3, <1>7 DEF ReplaceRegistration
  <2>4. currentGeneration' = nextGeneration
    BY <1>7 DEF ReplaceRegistration
  <2>5. GenerationsMatchLeases'
    BY <1>2, <1>5, <2>2, <2>3, <2>4 DEF GenerationsMatchLeases
  <2> QED
    BY <1>4, <2>5 DEF ComputerInvariant
<1> QED
  BY <1>6, <1>7

\* acquireCurrentGeneration counts the lease it gives.
LEMMA AcquiringStep ==
    ASSUME ComputerInvariant, NEW s \in ComputerSessions, AcquireCurrentGeneration(s)
    PROVE  ComputerInvariant'
<1> PICK own \in Nat : own = currentGeneration
  BY DEF ComputerInvariant, ComputerTypes
<1>1. own \in GenerationIds /\ own < nextGeneration
  BY DEF AcquireCurrentGeneration, ComputerInvariant, GenerationsAreOld
<1>2. computerSession' = [computerSession EXCEPT ![s].at = "leased", ![s].generation = own]
  BY DEF AcquireCurrentGeneration
<1>3. s \notin Leases(own) /\ Leases(own)' = Leases(own) \cup {s}
  BY <1>2 DEF AcquireCurrentGeneration, ComputerInvariant, ComputerTypes, Leases, Leased
<1>4. \A g \in GenerationIds : g # own => Leases(g)' = Leases(g)
  BY <1>2 DEF AcquireCurrentGeneration, ComputerInvariant, ComputerTypes, Leases, Leased
<1>5. Cardinality(Leases(own)') = Cardinality(Leases(own)) + 1
  BY <1>3, LeasesCounted, FS_AddElement
<1>6. \A g \in GenerationIds :
        generationSessions'[g] = IF g = own THEN generationSessions[own] + 1
                                 ELSE generationSessions[g]
  BY <1>1 DEF AcquireCurrentGeneration, ComputerInvariant, ComputerTypes
<1>7. ComputerTypes'
  <2>1. computerSession' \in [ComputerSessions ->
                              [at : LeasePlaces, generation : Nat, requests : Nat]]
    BY <1>2 DEF ComputerInvariant, ComputerTypes, LeasePlaces, Leased
  <2>2. generationSessions' \in [GenerationIds -> Int]
    BY <1>1 DEF AcquireCurrentGeneration, ComputerInvariant, ComputerTypes
  <2> QED
    BY <2>1, <2>2 DEF AcquireCurrentGeneration, ComputerInvariant, ComputerTypes
<1>9. GenerationsAreOld'
  BY <1>1, <1>2
     DEF AcquireCurrentGeneration, ComputerInvariant, ComputerTypes, GenerationsAreOld, Leased
<1>8. GenerationsMatchLeases'
  BY <1>1, <1>4, <1>5, <1>6
     DEF AcquireCurrentGeneration, ComputerInvariant, GenerationsMatchLeases
<1> QED
  BY <1>7, <1>8, <1>9 DEF ComputerInvariant

LEMMA ComputerStep == ComputerInvariant /\ [ComputerNext]_computerVars => ComputerInvariant'
<1> SUFFICES ASSUME ComputerInvariant, [ComputerNext]_computerVars PROVE ComputerInvariant'
  OBVIOUS
<1>1. CASE ReplaceRegistration \/ DisableRegistration
  BY <1>1, ReplacingStep
<1>2. ASSUME NEW s \in ComputerSessions, AcquireCurrentGeneration(s) PROVE ComputerInvariant'
  BY <1>2, AcquiringStep
<1>3. ASSUME NEW s \in ComputerSessions,
             \/ OpenCall(s) \/ OpenIsInvalid(s) \/ OpenSucceeds(s) \/ CapabilitiesThrow(s)
             \/ SessionAnswered(s) \/ SessionRequest(s) \/ CloseComputerSession(s)
      PROVE  ComputerInvariant'
  <2>1. computerSession[s] \in [at : LeasePlaces, generation : Nat, requests : Nat]
    BY DEF ComputerInvariant, ComputerTypes
  <2>2. Keeps(s, Leased)
    BY <1>3, <2>1
       DEF OpenCall, OpenIsInvalid, OpenSucceeds, CapabilitiesThrow, SessionAnswered,
           SessionRequest, CloseComputerSession, SessionMoves, Keeps, Leased, ComputerInvariant,
           ComputerTypes
  <2> QED
    BY <2>2, KeepingStep
<1>4. ASSUME NEW s \in ComputerSessions, OpenFails(s) PROVE ComputerInvariant'
  <2>1. computerSession[s].at \in Leased
    BY <1>4 DEF OpenFails, Leased
  <2> QED
    BY <1>4, <2>1, ReleasingStep DEF OpenFails
<1>5. ASSUME NEW s \in ComputerSessions, SessionReleased(s) PROVE ComputerInvariant'
  <2>1. computerSession[s].at \in Leased
    BY <1>5 DEF SessionReleased, Leased
  <2> QED
    BY <1>5, <2>1, ReleasingStep DEF SessionReleased
<1>6. CASE \/ UNCHANGED computerVars \/ \E s \in ComputerSessions : CloseReturns(s)
           \/ \E g \in GenerationIds : HostReleasesContext(g)
  <2>1. UNCHANGED <<currentGeneration, nextGeneration, generationSessions, computerSession>>
    BY <1>6 DEF computerVars, CloseReturns, HostReleasesContext
  <2> QED
    BY <2>1 DEF ComputerInvariant, ComputerTypes, GenerationsAreOld, GenerationsMatchLeases,
                Leases
<1> QED
  BY <1>1, <1>2, <1>3, <1>4, <1>5, <1>6 DEF ComputerNext

\* ComputerBridge.hs: however sessions open, fail, are refused and close while
\* registrations are replaced, the engine keeps exactly the generations that are
\* in force or leased, each with the number of its leases.
THEOREM GenerationsCounted == ComputerSpec => []GenerationsMatchLeases
<1>1. ComputerInvariant => GenerationsMatchLeases
  BY DEF ComputerInvariant
<1> QED
  BY <1>1, ComputerInitially, ComputerStep, PTL DEF ComputerSpec

-----------------------------------------------------------------------------
(* Browser commands                                                        *)

Ids == 1 .. MaxPendingId
Commands == [engine : Engines \cup {NoContext}, number : Nat]
CommandPlaces == {"idle", "calling", "accepted", "await", "check", "cancelling", "drain"}

BrowserTypes ==
    /\ browserRegistration \in [Engines -> HostContexts \cup {NoContext}]
    /\ pendingNext \in Int /\ pendingById \in [Ids -> Commands]
    /\ browserCommand \in [Engines -> [at : CommandPlaces, number : Nat, id : Nat, slot : Commands,
                                       outcome : Commands]]
    /\ hostRequests \subseteq [command : Commands, id : Ids,
                               context : HostContexts \cup {NoContext}]
    /\ completions \subseteq [slot : Commands, result : Commands]

\* A registered id is the one of a command that is under way.
RegistryOwned ==
    \A id \in Ids : pendingById[id] # NoCommand =>
        \E e \in Engines :
            /\ pendingById[id] = Command(e) /\ browserCommand[e].id = id
            /\ browserCommand[e].at # "idle"

\* A command registers its request before it calls the host.
CallRegistered ==
    \A e \in Engines : browserCommand[e].at = "calling" =>
        /\ browserCommand[e].id \in Ids /\ pendingById[browserCommand[e].id] = Command(e)
        /\ browserCommand[e].slot = NoCommand

\* A request the host owes is registered, and its command holds the registration.
RequestOwed ==
    \A request \in hostRequests : \E e \in Engines :
        /\ request = [command |-> Command(e), id |-> browserCommand[e].id,
                      context |-> browserRegistration[e]]
        /\ pendingById[request.id] = Command(e)
        /\ browserCommand[e].at \notin {"idle", "calling"}

\* A completion is for the request it answers, which is not registered any more.
CompletionOfRequest ==
    \A c \in completions :
        /\ c.slot = c.result /\ c.slot.engine \in Engines
        /\ c.slot.number <= browserCommand[c.slot.engine].number
        /\ \A id \in Ids : pendingById[id] # c.slot

\* What a command finds in its slot is its own, and then its request is done.
SlotIsOwn ==
    \A e \in Engines :
        /\ browserCommand[e].slot \in {NoCommand, Command(e)}
        /\ browserCommand[e].at # "idle" /\ browserCommand[e].slot # NoCommand =>
            \A id \in Ids : pendingById[id] # Command(e)

BrowserInvariant ==
    /\ BrowserTypes /\ RegistryOwned /\ CallRegistered /\ RequestOwed /\ CompletionOfRequest
    /\ SlotIsOwn /\ AnsweredByOwnRequest

\* The answer of no command is told from every command's.
LEMMA CommandsDiffer ==
    ASSUME BrowserTypes
    PROVE  /\ NoCommand \in Commands
           /\ \A e \in Engines :
                Command(e) \in Commands /\ Command(e) # NoCommand /\ Command(e).engine = e
                /\ Command(e).number = browserCommand[e].number
           /\ \A e, f \in Engines : Command(e) = Command(f) => e = f
BY BrowserAssumption DEF BrowserTypes, Commands, Command, NoCommand

\* An engine that runs no command leaves an id for the one it starts: each
\* registered id belongs to another engine, and each engine has at most one.
LEMMA SomeIdIsFree ==
    ASSUME BrowserTypes, RegistryOwned, NEW e \in Engines, browserCommand[e].at = "idle"
    PROVE  \E id \in Ids : pendingById[id] = NoCommand
<1> SUFFICES ASSUME \A id \in Ids : pendingById[id] # NoCommand PROVE FALSE
    OBVIOUS
<1> DEFINE owner == [id \in Ids |-> pendingById[id].engine]
           Others == Engines \ {e}
<1>1. \A id \in Ids : owner[id] \in Others /\ browserCommand[owner[id]].id = id
    BY CommandsDiffer DEF RegistryOwned
<1>2. owner \in Injection(Ids, Others)
    <2>1. owner \in [Ids -> Others]
        BY <1>1
    <2>2. ASSUME NEW a \in Ids, NEW b \in Ids, owner[a] = owner[b] PROVE a = b
        <3>1. browserCommand[owner[a]].id = a /\ browserCommand[owner[b]].id = b
            BY <1>1
        <3> QED
            BY <2>2, <3>1
    <2> HIDE DEF owner
    <2> QED
        BY <2>1, <2>2 DEF Injection, IsInjective
<1>3. IsFiniteSet(Others) /\ Cardinality(Others) = Cardinality(Engines) - 1
    BY BrowserAssumption, FS_RemoveElement
<1>4. Cardinality(Ids) <= Cardinality(Others)
    BY <1>2, <1>3, FS_Injection DEF ExistsInjection
<1>5. Cardinality(Ids) = MaxPendingId
    <2>1. 1 \in Int /\ MaxPendingId \in Int /\ (1 <= MaxPendingId \/ MaxPendingId = 0)
        BY BrowserAssumption
    <2>2. Cardinality(1 .. MaxPendingId) = IF 1 > MaxPendingId THEN 0 ELSE MaxPendingId - 1 + 1
        BY <2>1, FS_Interval
    <2> QED
        BY <2>1, <2>2 DEF Ids
<1>6. Cardinality(Engines) \in Nat
    BY BrowserAssumption, FS_CardinalityType
<1> QED
    BY <1>3, <1>4, <1>5, <1>6, BrowserAssumption

\* nextAvailableBrowserPendingId finds an id that is not in use.
LEMMA NextIdIsFree ==
    ASSUME BrowserTypes, RegistryOwned, NEW e \in Engines, browserCommand[e].at = "idle"
    PROVE  /\ NextAvailableId(pendingNext) \in Ids
           /\ pendingById[NextAvailableId(pendingNext)] = NoCommand
<1> DEFINE Distance(id) == (id - pendingNext) % MaxPendingId
           Free == {id \in Ids : pendingById[id] = NoCommand}
           Distances == {Distance(id) : id \in Free}
<1>1. Free # {}
    BY SomeIdIsFree
<1>2. ASSUME NEW id \in Ids PROVE Distance(id) \in Nat
    <2>1. MaxPendingId \in Nat /\ MaxPendingId > 0 /\ id - pendingNext \in Int
        BY BrowserAssumption DEF Ids, BrowserTypes
    <2> QED
        BY <2>1
<1>3. Distances \in SUBSET Nat /\ Distances # {}
    BY <1>1, <1>2
<1>4. PICK d \in Distances : \A x \in Distances : d <= x
    <2> HIDE DEF Distances
    <2> QED
        BY <1>3, NatLeast
<1>5. PICK id \in Free : d = Distance(id)
    OBVIOUS
<1>6. \A other \in Ids : pendingById[other] = NoCommand => Distance(id) <= Distance(other)
    BY <1>4, <1>5
<1> QED
    BY <1>5, <1>6 DEF NextAvailableId, Ids

\* A new command: its id was free, and no trace of it is left from earlier ones.
LEMMA InvokeKeepsInvariant ==
    ASSUME BrowserInvariant, NEW e \in Engines, InvokeBrowserCommand(e)
    PROVE  BrowserInvariant'
<1> DEFINE new == NextAvailableId(pendingNext)
           number == browserCommand[e].number + 1
           started == [engine |-> e, number |-> number]
<1>1. new \in Ids /\ pendingById[new] = NoCommand
    BY NextIdIsFree DEF BrowserInvariant, InvokeBrowserCommand
<1>2. /\ browserCommand[e].at = "idle"
      /\ browserCommand' = [browserCommand EXCEPT
                ![e] = [at |-> "calling", number |-> number, id |-> new,
                        slot |-> NoCommand, outcome |-> NoCommand]]
      /\ pendingById' = [pendingById EXCEPT ![new] = started]
      /\ pendingNext' = FollowingId(new)
      /\ UNCHANGED <<browserRegistration, hostRequests, completions>>
    BY DEF InvokeBrowserCommand
<1> HIDE DEF new
<1> USE DEF BrowserInvariant
<1>3. /\ number \in Nat /\ started \in Commands /\ started # NoCommand
      /\ browserCommand[e].number \in Nat /\ number > browserCommand[e].number
    BY BrowserAssumption DEF BrowserTypes, Commands, NoCommand
<1>4. /\ \A f \in Engines \ {e} : browserCommand'[f] = browserCommand[f] /\ Command(f)' = Command(f)
      /\ browserCommand'[e] = [at |-> "calling", number |-> number, id |-> new,
                               slot |-> NoCommand, outcome |-> NoCommand]
      /\ Command(e)' = started
    BY <1>2 DEF BrowserTypes, Command
<1>5. /\ \A id \in Ids \ {new} : pendingById'[id] = pendingById[id]
      /\ pendingById'[new] = started
    BY <1>1, <1>2 DEF BrowserTypes
<1>6. BrowserTypes'
    <2>1. pendingNext' \in Int
        BY <1>1, <1>2, BrowserAssumption DEF FollowingId, IncrementPendingId, Ids
    <2>2. NoCommand \in Commands /\ new \in Nat
        BY <1>1, CommandsDiffer DEF Ids
    <2>3. pendingById' \in [Ids -> Commands]
        BY <1>1, <1>2, <1>3 DEF BrowserTypes
    <2> HIDE DEF started, number
    <2>4. browserCommand' \in [Engines -> [at : CommandPlaces, number : Nat, id : Nat,
                                           slot : Commands, outcome : Commands]]
        BY <1>2, <1>3, <2>2 DEF BrowserTypes, CommandPlaces
    <2> QED
        BY <1>2, <2>1, <2>3, <2>4 DEF BrowserTypes
<1> HIDE DEF number, started
<1>7. RegistryOwned'
    <2> SUFFICES ASSUME NEW id \in Ids, pendingById'[id] # NoCommand
                 PROVE  \E f \in Engines :
                            /\ pendingById'[id] = Command(f)' /\ browserCommand'[f].id = id
                            /\ browserCommand'[f].at # "idle"
        BY DEF RegistryOwned
    <2>1. CASE id = new
        BY <1>4, <1>5, <2>1
    <2>2. CASE id # new
        <3>1. PICK f \in Engines : /\ pendingById[id] = Command(f) /\ browserCommand[f].id = id
                                   /\ browserCommand[f].at # "idle"
            BY <1>5, <2>2 DEF RegistryOwned
        <3>2. f # e
            BY <1>2, <3>1
        <3> QED
            BY <1>4, <1>5, <2>2, <3>1, <3>2
    <2> QED
        BY <2>1, <2>2
<1>8. CallRegistered'
    <2> SUFFICES ASSUME NEW f \in Engines, browserCommand'[f].at = "calling"
                 PROVE  /\ browserCommand'[f].id \in Ids
                        /\ pendingById'[browserCommand'[f].id] = Command(f)'
                        /\ browserCommand'[f].slot = NoCommand
        BY DEF CallRegistered
    <2>1. CASE f = e
        BY <1>1, <1>4, <1>5, <2>1
    <2>2. CASE f # e
        BY <1>1, <1>4, <1>5, <2>2, CommandsDiffer DEF CallRegistered
    <2> QED
        BY <2>1, <2>2
<1>9. RequestOwed'
    <2> SUFFICES ASSUME NEW request \in hostRequests
                 PROVE  \E f \in Engines :
                            /\ request = [command |-> Command(f)', id |-> browserCommand'[f].id,
                                          context |-> browserRegistration'[f]]
                            /\ pendingById'[request.id] = Command(f)'
                            /\ browserCommand'[f].at \notin {"idle", "calling"}
        BY <1>2 DEF RequestOwed
    <2>1. PICK f \in Engines :
            /\ request = [command |-> Command(f), id |-> browserCommand[f].id,
                          context |-> browserRegistration[f]]
            /\ pendingById[request.id] = Command(f)
            /\ browserCommand[f].at \notin {"idle", "calling"}
        BY DEF RequestOwed
    <2>2. f # e /\ request.id \in Ids /\ request.id # new
        BY <1>1, <1>2, <2>1, CommandsDiffer DEF BrowserTypes
    <2> QED
        BY <1>2, <1>4, <1>5, <2>1, <2>2
<1>10. CompletionOfRequest'
    <2> SUFFICES ASSUME NEW c \in completions
                 PROVE  /\ c.slot = c.result /\ c.slot.engine \in Engines
                        /\ c.slot.number <= browserCommand'[c.slot.engine].number
                        /\ \A id \in Ids : pendingById'[id] # c.slot
        BY <1>2 DEF CompletionOfRequest
    <2>1. /\ c.slot = c.result /\ c.slot.engine \in Engines /\ c.slot.number \in Nat
          /\ c.slot.number <= browserCommand[c.slot.engine].number
          /\ \A id \in Ids : pendingById[id] # c.slot
        BY DEF CompletionOfRequest, BrowserTypes, Commands
    <2>2. c.slot # started
        BY <1>3, <2>1 DEF started
    <2> QED
        BY <1>3, <1>4, <1>5, <2>1, <2>2
<1>11. SlotIsOwn' /\ AnsweredByOwnRequest'
    <2>1. ASSUME NEW f \in Engines \ {e}
          PROVE  /\ browserCommand'[f].slot \in {NoCommand, Command(f)'}
                 /\ browserCommand'[f].at # "idle" /\ browserCommand'[f].slot # NoCommand =>
                        \A id \in Ids : pendingById'[id] # Command(f)'
                 /\ browserCommand'[f].outcome \in {NoCommand, Command(f)'}
        BY <1>4, <1>5, CommandsDiffer DEF SlotIsOwn, AnsweredByOwnRequest, started
    <2> QED
        BY <1>4, <2>1 DEF SlotIsOwn, AnsweredByOwnRequest
<1> QED
    BY <1>6, <1>7, <1>8, <1>9, <1>10, <1>11

\* A command moves on without a change of its number, its id or what is
\* registered: nothing but what it waits for depends on where it is.
LEMMA MoveKeepsInvariant ==
    ASSUME BrowserInvariant, NEW e \in Engines, NEW place \in CommandPlaces \ {"idle", "calling"},
           browserCommand[e].at \notin {"idle"}, CommandMoves(e, place),
           UNCHANGED <<browserRegistration, pendingNext, pendingById, hostRequests, completions>>
    PROVE  BrowserInvariant'
<1> USE DEF BrowserInvariant
<1>1. /\ \A f \in Engines :
            /\ browserCommand'[f].number = browserCommand[f].number
            /\ browserCommand'[f].id = browserCommand[f].id
            /\ browserCommand'[f].slot = browserCommand[f].slot
            /\ browserCommand'[f].outcome = browserCommand[f].outcome
            /\ Command(f)' = Command(f)
            /\ f # e => browserCommand'[f].at = browserCommand[f].at
      /\ browserCommand'[e].at = place
    BY DEF CommandMoves, BrowserTypes, Command
<1>2. BrowserTypes'
    BY DEF BrowserTypes, CommandMoves
<1>3. RegistryOwned'
    BY <1>1 DEF RegistryOwned
<1>4. CallRegistered'
    BY <1>1 DEF CallRegistered
<1>5. RequestOwed'
    BY <1>1 DEF RequestOwed
<1>6. CompletionOfRequest'
    BY <1>1 DEF CompletionOfRequest
<1>7. SlotIsOwn' /\ AnsweredByOwnRequest'
    BY <1>1 DEF SlotIsOwn, AnsweredByOwnRequest
<1> QED
    BY <1>2, <1>3, <1>4, <1>5, <1>6, <1>7

\* A command returns once nothing is registered for it.
LEMMA ReturnKeepsInvariant ==
    ASSUME BrowserInvariant, NEW e \in Engines, CommandReturns(e),
           \A id \in Ids : pendingById'[id] # Command(e),
           \A id \in Ids : pendingById'[id] \in {pendingById[id], NoCommand},
           \A request \in hostRequests : pendingById'[request.id] = pendingById[request.id],
           \A f \in Engines \ {e} : browserCommand[f].at = "calling" =>
                pendingById'[browserCommand[f].id] = pendingById[browserCommand[f].id],
           pendingById' \in [Ids -> Commands],
           UNCHANGED <<browserRegistration, pendingNext, hostRequests, completions>>
    PROVE  BrowserInvariant'
<1> USE DEF BrowserInvariant
<1>1. /\ \A f \in Engines \ {e} : browserCommand'[f] = browserCommand[f]
      /\ \A f \in Engines : Command(f)' = Command(f)
      /\ \A f \in Engines : browserCommand'[f].number = browserCommand[f].number
      /\ browserCommand'[e] = [at |-> "idle", number |-> browserCommand[e].number, id |-> 0,
                               slot |-> NoCommand, outcome |-> NoCommand]
    BY DEF CommandReturns, BrowserTypes, Command
<1>2. BrowserTypes'
    BY CommandsDiffer DEF BrowserTypes, CommandReturns, CommandPlaces
<1>3. RegistryOwned'
    <2> SUFFICES ASSUME NEW id \in Ids, pendingById'[id] # NoCommand
                 PROVE  \E f \in Engines :
                            /\ pendingById'[id] = Command(f)' /\ browserCommand'[f].id = id
                            /\ browserCommand'[f].at # "idle"
        BY DEF RegistryOwned
    <2>1. PICK f \in Engines : /\ pendingById[id] = Command(f) /\ browserCommand[f].id = id
                               /\ browserCommand[f].at # "idle"
        BY DEF RegistryOwned
    <2> QED
        BY <1>1, <2>1
<1>4. CallRegistered'
    BY <1>1 DEF CallRegistered
<1>5. RequestOwed'
    <2> SUFFICES ASSUME NEW request \in hostRequests
                 PROVE  \E f \in Engines :
                            /\ request = [command |-> Command(f)', id |-> browserCommand'[f].id,
                                          context |-> browserRegistration'[f]]
                            /\ pendingById'[request.id] = Command(f)'
                            /\ browserCommand'[f].at \notin {"idle", "calling"}
        BY DEF RequestOwed
    <2>1. PICK f \in Engines :
            /\ request = [command |-> Command(f), id |-> browserCommand[f].id,
                          context |-> browserRegistration[f]]
            /\ pendingById[request.id] = Command(f)
            /\ browserCommand[f].at \notin {"idle", "calling"}
        BY DEF RequestOwed
    <2>2. request.id \in Ids
        BY DEF BrowserTypes
    <2> QED
        BY <1>1, <2>1, <2>2
<1>6. CompletionOfRequest'
    <2>1. \A c \in completions : c.slot # NoCommand
        BY BrowserAssumption DEF CompletionOfRequest, NoCommand
    <2> QED
        BY <1>1, <2>1 DEF CompletionOfRequest
<1>7. SlotIsOwn' /\ AnsweredByOwnRequest'
    BY <1>1, CommandsDiffer DEF SlotIsOwn, AnsweredByOwnRequest
<1> QED
    BY <1>2, <1>3, <1>4, <1>5, <1>6, <1>7

\* The host accepts: it owes the request of the command that calls.
LEMMA AcceptKeepsInvariant ==
    ASSUME BrowserInvariant, NEW e \in Engines, HostAccepts(e)
    PROVE  BrowserInvariant'
<1> USE DEF BrowserInvariant
<1>1. /\ \A f \in Engines :
            /\ browserCommand'[f].number = browserCommand[f].number
            /\ browserCommand'[f].id = browserCommand[f].id
            /\ browserCommand'[f].slot = browserCommand[f].slot
            /\ browserCommand'[f].outcome = browserCommand[f].outcome
            /\ Command(f)' = Command(f)
            /\ f # e => browserCommand'[f].at = browserCommand[f].at
      /\ browserCommand[e].at = "calling" /\ browserCommand'[e].at = "accepted"
      /\ UNCHANGED <<browserRegistration, pendingNext, pendingById, completions>>
    BY DEF HostAccepts, CommandMoves, BrowserTypes, Command
<1>2. /\ browserCommand[e].id \in Ids /\ pendingById[browserCommand[e].id] = Command(e)
    BY <1>1 DEF CallRegistered
<1>3. BrowserTypes'
    BY <1>2, CommandsDiffer DEF BrowserTypes, HostAccepts, CommandMoves, CommandPlaces
<1>4. RegistryOwned' /\ CallRegistered' /\ CompletionOfRequest'
    BY <1>1 DEF RegistryOwned, CallRegistered, CompletionOfRequest
<1>5. RequestOwed'
    <2> DEFINE owed == [command |-> Command(e), id |-> browserCommand[e].id,
                        context |-> browserRegistration[e]]
    <2>1. hostRequests' = hostRequests \union {owed}
        BY DEF HostAccepts
    <2>2. ASSUME NEW request \in hostRequests
          PROVE  \E f \in Engines :
                    /\ request = [command |-> Command(f)', id |-> browserCommand'[f].id,
                                  context |-> browserRegistration'[f]]
                    /\ pendingById'[request.id] = Command(f)'
                    /\ browserCommand'[f].at \notin {"idle", "calling"}
        BY <1>1 DEF RequestOwed
    <2>3. /\ owed = [command |-> Command(e)', id |-> browserCommand'[e].id,
                     context |-> browserRegistration'[e]]
          /\ pendingById'[owed.id] = Command(e)'
          /\ browserCommand'[e].at \notin {"idle", "calling"}
        BY <1>1, <1>2
    <2> HIDE DEF owed
    <2> QED
        BY <2>1, <2>2, <2>3 DEF RequestOwed
<1>6. SlotIsOwn' /\ AnsweredByOwnRequest'
    BY <1>1 DEF SlotIsOwn, AnsweredByOwnRequest
<1> QED
    BY <1>3, <1>4, <1>5, <1>6

\* The host completes a request: its id leaves the registry.
LEMMA CompleteKeepsInvariant ==
    ASSUME BrowserInvariant, NEW request \in hostRequests, CompleteBrowserPending(request)
    PROVE  BrowserInvariant'
<1> USE DEF BrowserInvariant
<1>1. PICK e \in Engines :
        /\ request = [command |-> Command(e), id |-> browserCommand[e].id,
                      context |-> browserRegistration[e]]
        /\ pendingById[request.id] = Command(e)
        /\ browserCommand[e].at \notin {"idle", "calling"}
    BY DEF RequestOwed
<1>2. request.id \in Ids /\ request.command = Command(e)
    BY <1>1 DEF BrowserTypes
<1>3. /\ hostRequests' = hostRequests \ {request}
      /\ completions' = completions \union {[slot |-> Command(e), result |-> Command(e)]}
      /\ \A id \in Ids : pendingById'[id] = IF id = request.id THEN NoCommand ELSE pendingById[id]
      /\ \A f \in Engines : Command(f)' = Command(f)
      /\ UNCHANGED <<browserRegistration, pendingNext, browserCommand>>
    BY <1>1, <1>2 DEF CompleteBrowserPending, BrowserTypes, Command
<1>4. BrowserTypes'
    <2>1. pendingById' \in [Ids -> Commands]
        BY <1>2, CommandsDiffer DEF CompleteBrowserPending, BrowserTypes
    <2> QED
        BY <1>3, <2>1, CommandsDiffer DEF BrowserTypes
<1>5. RegistryOwned'
    BY <1>3 DEF RegistryOwned
<1>6. CallRegistered'
    <2> SUFFICES ASSUME NEW f \in Engines, browserCommand[f].at = "calling"
                 PROVE  browserCommand[f].id # request.id
        BY <1>3 DEF CallRegistered
    <2> QED
        BY <1>1, <1>2, CommandsDiffer DEF CallRegistered
<1>7. RequestOwed'
    <2> SUFFICES ASSUME NEW other \in hostRequests, other # request PROVE other.id # request.id
        BY <1>3 DEF RequestOwed, BrowserTypes
    <2> QED
        BY <1>1, CommandsDiffer DEF RequestOwed
<1>8. \A id \in Ids : pendingById'[id] # Command(e)
    BY <1>1, <1>2, <1>3, CommandsDiffer DEF RegistryOwned
<1>9. CompletionOfRequest'
    <2>1. \A c \in completions : c.slot # NoCommand
        BY BrowserAssumption DEF CompletionOfRequest, NoCommand
    <2>2. Command(e).number <= browserCommand[e].number /\ Command(e).engine = e
        BY DEF Command, BrowserTypes
    <2> QED
        BY <1>3, <1>8, <2>1, <2>2 DEF CompletionOfRequest
<1>10. SlotIsOwn' /\ AnsweredByOwnRequest'
    BY <1>3, CommandsDiffer DEF SlotIsOwn, AnsweredByOwnRequest
<1> QED
    BY <1>4, <1>5, <1>6, <1>7, <1>9, <1>10

\* A completion fills the slot of the command it is for, and no other.
LEMMA FillKeepsInvariant ==
    ASSUME BrowserInvariant, NEW completion \in completions, FillSlot(completion)
    PROVE  BrowserInvariant'
<1> USE DEF BrowserInvariant
<1>1. /\ completions' = completions \ {completion}
      /\ UNCHANGED <<browserRegistration, pendingNext, pendingById, hostRequests>>
    BY DEF FillSlot
<1>2. CASE browserCommand' = browserCommand
    <2>1. \A f \in Engines : Command(f)' = Command(f)
        BY <1>2 DEF Command
    <2> QED
        BY <1>1, <1>2, <2>1
        DEF BrowserTypes, RegistryOwned, CallRegistered, RequestOwed, CompletionOfRequest,
            SlotIsOwn, AnsweredByOwnRequest
<1>3. CASE browserCommand' # browserCommand
    <2> DEFINE e == completion.slot.engine
    <2>1. /\ e \in Engines /\ completion.slot = Command(e) /\ completion.result = Command(e)
          /\ \A id \in Ids : pendingById[id] # Command(e)
          /\ browserCommand' = [browserCommand EXCEPT ![e].slot = completion.result]
        BY <1>3 DEF FillSlot, SlotIsRead, CompletionOfRequest
    <2> HIDE DEF e
    <2>2. /\ \A f \in Engines :
                /\ browserCommand'[f].number = browserCommand[f].number
                /\ browserCommand'[f].id = browserCommand[f].id
                /\ browserCommand'[f].at = browserCommand[f].at
                /\ browserCommand'[f].outcome = browserCommand[f].outcome
                /\ Command(f)' = Command(f)
                /\ f # e => browserCommand'[f].slot = browserCommand[f].slot
          /\ browserCommand'[e].slot = Command(e)
        BY <2>1 DEF BrowserTypes, Command
    <2>3. BrowserTypes'
        BY <1>1, <2>1, CommandsDiffer DEF BrowserTypes
    <2>4. RegistryOwned' /\ RequestOwed' /\ CompletionOfRequest'
        BY <1>1, <2>2 DEF RegistryOwned, RequestOwed, CompletionOfRequest
    <2>5. CallRegistered'
        <3>1. browserCommand[e].at # "calling"
            BY <2>1 DEF CallRegistered
        <3> QED
            BY <1>1, <2>2, <3>1 DEF CallRegistered
    <2>6. SlotIsOwn' /\ AnsweredByOwnRequest'
        BY <1>1, <2>1, <2>2 DEF SlotIsOwn, AnsweredByOwnRequest
    <2> QED
        BY <2>3, <2>4, <2>5, <2>6
<1> QED
    BY <1>2, <1>3

\* await hands the slot over as the outcome of the command.
LEMMA AwaitKeepsInvariant ==
    ASSUME BrowserInvariant, NEW e \in Engines, AwaitTakes(e)
    PROVE  BrowserInvariant'
<1> USE DEF BrowserInvariant
<1>1. /\ \A f \in Engines :
            /\ browserCommand'[f].number = browserCommand[f].number
            /\ browserCommand'[f].id = browserCommand[f].id
            /\ Command(f)' = Command(f)
            /\ f # e => browserCommand'[f] = browserCommand[f]
      /\ browserCommand[e].at = "await" /\ browserCommand'[e].at = "check"
      /\ browserCommand'[e].slot = NoCommand
      /\ browserCommand'[e].outcome = browserCommand[e].slot
      /\ UNCHANGED <<browserRegistration, pendingNext, pendingById, hostRequests, completions>>
    BY DEF AwaitTakes, BrowserTypes, Command
<1>2. BrowserTypes'
    BY CommandsDiffer DEF BrowserTypes, AwaitTakes, CommandPlaces
<1>3. RegistryOwned' /\ CallRegistered' /\ CompletionOfRequest'
    BY <1>1 DEF RegistryOwned, CallRegistered, CompletionOfRequest
<1>4. RequestOwed'
    BY <1>1 DEF RequestOwed
<1>5. SlotIsOwn' /\ AnsweredByOwnRequest'
    BY <1>1 DEF SlotIsOwn, AnsweredByOwnRequest
<1> QED
    BY <1>2, <1>3, <1>4, <1>5

\* Every step of an engine, of the host and of its completions keeps the invariant.
LEMMA BrowserStep == BrowserInvariant /\ [BrowserNext]_browserVars => BrowserInvariant'
<1> SUFFICES ASSUME BrowserInvariant, [BrowserNext]_browserVars PROVE BrowserInvariant'
    OBVIOUS
<1> DEFINE Rest == <<browserRegistration, browserSetter, pendingNext, pendingById, hostRequests,
                     completions>>
<1>1. ASSUME NEW e \in Engines, HostRejects(e) PROVE BrowserInvariant'
    <2>1. /\ browserCommand[e].id \in Ids /\ pendingById[browserCommand[e].id] = Command(e)
          /\ pendingById' = [pendingById EXCEPT ![browserCommand[e].id] = NoCommand]
          /\ BrowserTypes
        BY <1>1 DEF HostRejects, BrowserInvariant, CallRegistered
    <2>2. \A id \in Ids :
            pendingById'[id] = IF id = browserCommand[e].id THEN NoCommand ELSE pendingById[id]
        BY <2>1 DEF BrowserTypes
    <2>3. pendingById' \in [Ids -> Commands]
        BY <2>1, CommandsDiffer DEF BrowserTypes
    <2>4. \A id \in Ids : pendingById'[id] # Command(e)
        BY <2>1, <2>2, CommandsDiffer DEF BrowserInvariant, RegistryOwned
    <2>5. ASSUME NEW request \in hostRequests
          PROVE  pendingById'[request.id] = pendingById[request.id]
        <3>1. request.id \in Ids
            BY <2>1 DEF BrowserTypes
        <3>2. request.id # browserCommand[e].id
            BY <1>1, <2>1, CommandsDiffer DEF BrowserInvariant, RequestOwed, HostRejects
        <3> QED
            BY <2>2, <3>1, <3>2
    <2>6. ASSUME NEW f \in Engines \ {e}, browserCommand[f].at = "calling"
          PROVE  pendingById'[browserCommand[f].id] = pendingById[browserCommand[f].id]
        BY <2>1, <2>2, <2>6, CommandsDiffer DEF BrowserInvariant, CallRegistered
    <2> QED
        BY <1>1, <2>2, <2>3, <2>4, <2>5, <2>6, ReturnKeepsInvariant DEF HostRejects
<1>2. ASSUME NEW e \in Engines, CommandReturns(e), UNCHANGED Rest,
             \A id \in Ids : pendingById[id] # Command(e)
      PROVE  BrowserInvariant'
    <2>1. pendingById' \in [Ids -> Commands]
        BY <1>2 DEF BrowserInvariant, BrowserTypes
    <2> QED
        BY <1>2, <2>1, ReturnKeepsInvariant
<1>3. ASSUME NEW e \in Engines,
             BrowserCallbackReturns(e) \/ TurnCancelled(e) \/ CancelReturns(e)
      PROVE  BrowserInvariant'
    BY <1>3, MoveKeepsInvariant
    DEF BrowserCallbackReturns, TurnCancelled, CancelReturns, CommandPlaces
<1>4. ASSUME NEW e \in Engines, CheckPending(e) PROVE BrowserInvariant'
    <2>1. CASE pendingById[browserCommand[e].id] # NoCommand
        BY <1>4, <2>1, MoveKeepsInvariant DEF CheckPending, CommandPlaces
    <2>2. CASE pendingById[browserCommand[e].id] = NoCommand
        <3>1. \A id \in Ids : pendingById[id] # Command(e)
            BY <2>2, CommandsDiffer DEF BrowserInvariant, RegistryOwned
        <3> QED
            BY <1>2, <1>4, <2>2, <3>1 DEF CheckPending
    <2> QED
        BY <2>1, <2>2
<1>5. ASSUME NEW e \in Engines, Drained(e) PROVE BrowserInvariant'
    <2>1. \A id \in Ids : pendingById[id] # Command(e)
        BY <1>5 DEF Drained, BrowserInvariant, SlotIsOwn
    <2> QED
        BY <1>2, <1>5, <2>1 DEF Drained
<1>6. ASSUME UNCHANGED <<browserRegistration, pendingNext, pendingById, browserCommand,
                         hostRequests, completions>>
      PROVE  BrowserInvariant'
    <2>1. \A e \in Engines : Command(e)' = Command(e)
        BY <1>6 DEF Command
    <2>2. BrowserTypes' /\ RegistryOwned' /\ CallRegistered'
        BY <1>6, <2>1 DEF BrowserInvariant, BrowserTypes, RegistryOwned, CallRegistered
    <2>3. RequestOwed' /\ CompletionOfRequest'
        BY <1>6, <2>1 DEF BrowserInvariant, RequestOwed, CompletionOfRequest
    <2>4. SlotIsOwn' /\ AnsweredByOwnRequest'
        BY <1>6, <2>1 DEF BrowserInvariant, SlotIsOwn, AnsweredByOwnRequest
    <2> QED
        BY <2>2, <2>3, <2>4 DEF BrowserInvariant
<1>7. ASSUME NEW e \in Engines, NEW context \in HostContexts \union {NoContext},
             BrowserCallbackSet(e, context)
      PROVE  BrowserInvariant'
    <2>1. /\ UNCHANGED <<pendingNext, pendingById, browserCommand, hostRequests, completions>>
          /\ \A f \in Engines : Command(f)' = Command(f)
          /\ browserCommand[e].at = "idle"
          /\ \A f \in Engines \ {e} : browserRegistration'[f] = browserRegistration[f]
        BY <1>7 DEF BrowserCallbackSet, Command, BrowserInvariant, BrowserTypes
    <2>2. BrowserTypes'
        BY <1>7, <2>1 DEF BrowserCallbackSet, BrowserInvariant, BrowserTypes
    <2>3. RequestOwed'
        BY <2>1 DEF BrowserInvariant, RequestOwed
    <2> QED
        BY <2>1, <2>2, <2>3 DEF BrowserInvariant, RegistryOwned, CallRegistered,
            CompletionOfRequest, SlotIsOwn, AnsweredByOwnRequest
<1>8. ASSUME UNCHANGED browserVars \/ \E e \in Engines : SetBrowserCallback(e)
      PROVE  BrowserInvariant'
    BY <1>6, <1>8 DEF browserVars, SetBrowserCallback
<1> QED
    BY <1>1, <1>3, <1>4, <1>5, <1>7, <1>8, InvokeKeepsInvariant, AcceptKeepsInvariant,
       CompleteKeepsInvariant, FillKeepsInvariant, AwaitKeepsInvariant
    DEF BrowserNext, BrowserProgress

\* The invariant holds in every reachable state.
LEMMA BrowserInvariantHolds == BrowserSpec => []BrowserInvariant
<1>1. BrowserInit => BrowserInvariant
    <2> SUFFICES ASSUME BrowserInit PROVE BrowserInvariant
        OBVIOUS
    <2>1. NoCommand \in Commands
        BY DEF NoCommand, Commands
    <2>2. (CHOOSE context \in HostContexts : TRUE) \in HostContexts
        BY BrowserAssumption
    <2>3. BrowserTypes
        BY <2>1, <2>2 DEF BrowserInit, BrowserTypes, CommandPlaces, Ids
    <2> QED
        BY <2>3 DEF BrowserInit, BrowserInvariant, RegistryOwned, CallRegistered, RequestOwed,
                    CompletionOfRequest, SlotIsOwn, AnsweredByOwnRequest, Ids
<1> QED
    BY <1>1, BrowserStep, PTL DEF BrowserSpec

\* No completion reaches a command whose request it does not answer, for any
\* number of engines that share the registry of pending requests.
THEOREM BrowserAnswersOwnRequest == BrowserSpec => []AnsweredByOwnRequest
<1>1. BrowserInvariant => AnsweredByOwnRequest
    BY DEF BrowserInvariant
<1> QED
    BY <1>1, BrowserInvariantHolds, PTL

\* A context that set_browser_callback has replaced owes no completion, so the
\* host may free it.
THEOREM BrowserReplacedContextIdle == BrowserSpec => []ReplacedContextIdle
<1>1. BrowserInvariant => ReplacedContextIdle
    <2> SUFFICES ASSUME BrowserInvariant, NEW request \in hostRequests
                 PROVE  request.context = browserRegistration[request.command.engine]
        BY DEF ReplacedContextIdle
    <2>1. PICK e \in Engines :
            request = [command |-> Command(e), id |-> browserCommand[e].id,
                       context |-> browserRegistration[e]]
        BY DEF BrowserInvariant, RequestOwed
    <2> QED
        BY <2>1, CommandsDiffer DEF BrowserInvariant
<1> QED
    BY <1>1, BrowserInvariantHolds, PTL

===============================================================================
