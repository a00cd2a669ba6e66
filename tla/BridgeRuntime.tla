---------------------------- MODULE BridgeRuntime ----------------------------
(***************************************************************************)
(* HaskellAgentBridgeRuntime.c: who starts the Haskell runtime of the      *)
(* process. ha_runtime_init starts it under runtime_lock and counts its    *)
(* callers; ha_cli_main claims it under the lock and starts it after the   *)
(* lock is released, so that "initialized" is set before it is true.       *)
(***************************************************************************)
EXTENDS Integers, FiniteSets

CONSTANTS
    Threads,          \* threads of the embedding program
    NoThread,
    MaxReferences     \* bound: successful calls of ha_runtime_init

ASSUME NoThreadAssumption == NoThread \notin Threads

VARIABLES
    runtimeLock,      \* the thread in the critical section of runtime_lock
    runtimeReferences, runtimeInitialized, runtimeCliStarted,
    rts,              \* "off", "up", or "down" once the process exits
    starts,           \* how often hs_init or hs_init_ghc was called
    runtimeCall,      \* what each thread executes
    granted           \* successful ha_runtime_init calls not yet given back

runtimeVars == <<runtimeLock, runtimeReferences, runtimeInitialized, runtimeCliStarted,
                 rts, starts, runtimeCall, granted>>

RuntimeInit ==
    /\ runtimeLock = NoThread /\ runtimeReferences = 0
    /\ runtimeInitialized = FALSE /\ runtimeCliStarted = FALSE
    /\ rts = "off" /\ starts = 0
    /\ runtimeCall = [t \in Threads |-> "none"] /\ granted = 0

CanEnter(t) == rts # "down" /\ runtimeCall[t] = "none" /\ runtimeLock = NoThread

\* ha_cli_main with well-formed arguments. It returns 70 if the runtime is
\* taken, else claims it and leaves the lock.
CliMain(t) ==
    /\ CanEnter(t) /\ ~runtimeInitialized
    /\ runtimeInitialized' = TRUE /\ runtimeCliStarted' = TRUE
    /\ runtimeCall' = [runtimeCall EXCEPT ![t] = "cliInit"]
    /\ UNCHANGED <<runtimeLock, runtimeReferences, rts, starts, granted>>

\* hs_init_ghc, outside the lock.
CliHsInit(t) ==
    /\ rts # "down" /\ runtimeCall[t] = "cliInit"
    /\ rts' = "up" /\ starts' = starts + 1
    /\ runtimeCall' = [runtimeCall EXCEPT ![t] = "cliRun"]
    /\ UNCHANGED <<runtimeLock, runtimeReferences, runtimeInitialized, runtimeCliStarted,
                   granted>>

\* The CLI's main has returned: shutdownHaskellAndExit ends the process.
CliExit(t) ==
    /\ rts # "down" /\ runtimeCall[t] = "cliRun" /\ rts' = "down"
    /\ UNCHANGED <<runtimeLock, runtimeReferences, runtimeInitialized, runtimeCliStarted,
                   starts, runtimeCall, granted>>

Granted ==
    /\ runtimeReferences < MaxReferences
    /\ runtimeReferences' = runtimeReferences + 1 /\ granted' = granted + 1

\* Mutant of RuntimeInitEnter: ha_runtime_init does not ask for the CLI.
RuntimeInitIgnoresCli(t) ==
    /\ CanEnter(t)
    /\ IF runtimeInitialized
       THEN Granted /\ UNCHANGED <<runtimeLock, runtimeCall>>
       ELSE /\ runtimeLock' = t
            /\ runtimeCall' = [runtimeCall EXCEPT ![t] = "hsInit"]
            /\ UNCHANGED <<runtimeReferences, granted>>
    /\ UNCHANGED <<runtimeInitialized, runtimeCliStarted, rts, starts>>

\* ha_runtime_init up to hs_init; -1, and no change, if the CLI has the runtime.
RuntimeInitEnter(t) ==
    /\ CanEnter(t) /\ ~runtimeCliStarted
    /\ IF runtimeInitialized
       THEN Granted /\ UNCHANGED <<runtimeLock, runtimeCall>>
       ELSE /\ runtimeLock' = t
            /\ runtimeCall' = [runtimeCall EXCEPT ![t] = "hsInit"]
            /\ UNCHANGED <<runtimeReferences, granted>>
    /\ UNCHANGED <<runtimeInitialized, runtimeCliStarted, rts, starts>>

\* hs_init, with the lock held, and the end of ha_runtime_init.
RuntimeHsInit(t) ==
    /\ rts # "down" /\ runtimeCall[t] = "hsInit" /\ Granted
    /\ rts' = "up" /\ starts' = starts + 1 /\ runtimeInitialized' = TRUE
    /\ runtimeLock' = NoThread /\ runtimeCall' = [runtimeCall EXCEPT ![t] = "none"]
    /\ UNCHANGED runtimeCliStarted

\* ha_runtime_exit never stops the runtime; a call too many is ignored.
RuntimeExit(t) ==
    /\ CanEnter(t)
    /\ runtimeReferences' = IF runtimeReferences > 0 THEN runtimeReferences - 1 ELSE 0
    /\ granted' = IF granted > 0 THEN granted - 1 ELSE 0
    /\ UNCHANGED <<runtimeLock, runtimeInitialized, runtimeCliStarted, rts, starts, runtimeCall>>

RuntimeNext ==
    \E t \in Threads :
        \/ CliMain(t) \/ CliHsInit(t) \/ CliExit(t)
        \/ RuntimeInitEnter(t) \/ RuntimeHsInit(t) \/ RuntimeExit(t)

RuntimeSpec == RuntimeInit /\ [][RuntimeNext]_runtimeVars

\* An embedder that was told the runtime is up can call into it: the runtime was
\* started, once, whichever threads raced in ha_runtime_init and ha_cli_main,
\* and no CLI owns it or will end the process under the embedder.
RuntimeReady ==
    /\ starts <= 1
    /\ granted > 0 => rts = "up" /\ ~runtimeCliStarted

=============================================================================
