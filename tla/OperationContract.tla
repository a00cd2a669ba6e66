-------------------------- MODULE OperationContract --------------------------
(***************************************************************************)
(* What HaskellAgentBridge.h promises the host of an accepted operation:   *)
(* callbacks come one at a time, exactly one of them is terminal, none     *)
(* follows it, and destroy returns only when the last callback has. The    *)
(* host releases its context on the terminal callback or after destroy.    *)
(***************************************************************************)

VARIABLES
    phase,     \* "none", "rejected", "open", "ended" or "destroyed"
    calling    \* a callback of the operation is in progress

contractVars == <<phase, calling>>

ContractInit == phase = "none" /\ calling = FALSE

Accept == phase = "none" /\ phase' = "open" /\ UNCHANGED calling
Reject == phase = "none" /\ phase' = "rejected" /\ UNCHANGED calling
Callback == phase = "open" /\ ~calling /\ calling' = TRUE /\ UNCHANGED phase
Terminal == phase = "open" /\ ~calling /\ calling' = TRUE /\ phase' = "ended"
CallbackReturns == calling /\ calling' = FALSE /\ UNCHANGED phase
Destroyed == phase = "ended" /\ ~calling /\ phase' = "destroyed" /\ UNCHANGED calling

ContractNext == Accept \/ Reject \/ Callback \/ Terminal \/ CallbackReturns \/ Destroyed

ContractSpec == ContractInit /\ [][ContractNext]_contractVars

=============================================================================
