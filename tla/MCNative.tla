------------------------------- MODULE MCNative -------------------------------
(***************************************************************************)
(* The border of the program: the C services under it and the              *)
(* conversations of the native bridge with its host, each with its         *)
(* callers. They share no state, so a behaviour of this module is a        *)
(* behaviour of one of them, "focus"; the others stay in their initial     *)
(* state.                                                                  *)
(***************************************************************************)
EXTENDS BridgeRuntime, NetworkPathMonitor, McpKeychain, ClipboardTypes, MediaAudio, MediaPeer,
        MediaHelper, BridgeOperation, RepositoryWorkers, BrowserHost, ComputerHost

VARIABLE focus

nativeVars == <<focus, runtimeVars, networkVars, keychainVars, clipboardVars, audioVars,
                peerVars, helperProcessVars, operationVars, repositoryVars, browserVars,
                computerVars>>

Services == {"runtime", "network", "keychain", "clipboard", "audio", "peer", "helper"}
Conversations == {"operation", "repository", "browser", "computer"}

Init ==
    /\ focus \in Services \cup Conversations
    /\ RuntimeInit /\ NetworkInit /\ KeychainInit /\ ClipboardInit /\ AudioInit /\ PeerInit
    /\ MediaInit /\ OperationInit /\ RepositoryInit /\ BrowserInit /\ ComputerInit
    \* One initial state of those that are not looked at.
    /\ focus # "keychain" => item = NoCredential
    /\ focus # "clipboard" => board.items = <<>>
    /\ focus # "audio" => device = "capture"
    /\ focus # "operation" => opKind = "connection"

Only(part) ==
    /\ focus = part /\ UNCHANGED focus
    /\ part # "runtime" => UNCHANGED runtimeVars
    /\ part # "network" => UNCHANGED networkVars
    /\ part # "keychain" => UNCHANGED keychainVars
    /\ part # "clipboard" => UNCHANGED clipboardVars
    /\ part # "audio" => UNCHANGED audioVars
    /\ part # "peer" => UNCHANGED peerVars
    /\ part # "helper" => UNCHANGED helperProcessVars
    /\ part # "operation" => UNCHANGED operationVars
    /\ part # "repository" => UNCHANGED repositoryVars
    /\ part # "browser" => UNCHANGED browserVars
    /\ part # "computer" => UNCHANGED computerVars

Next ==
    \/ Only("runtime") /\ RuntimeNext
    \/ Only("network") /\ NetworkNext
    \/ Only("keychain") /\ KeychainNext
    \/ Only("clipboard") /\ ClipboardNext
    \/ Only("audio") /\ AudioNext
    \/ Only("peer") /\ PeerNext
    \/ Only("helper") /\ MediaNext
    \/ Only("operation") /\ OperationNext
    \/ Only("repository") /\ RepositoryNext
    \/ Only("browser") /\ BrowserNext
    \/ Only("computer") /\ ComputerNext

\* The dispatch queue runs its blocks and the closing threads are scheduled; the
\* operating system runs the client of a media helper and the helper, and a
\* transfer that waits times out, so the client never depends on the helper.
ServiceFairness ==
    /\ WF_nativeVars(Only("network") /\ QueueStep)
    /\ WF_nativeVars(Only("network") /\ CloserStep)
    /\ WF_nativeVars(Only("helper") /\ ClientStep)
    /\ WF_nativeVars(Only("helper") /\ HelperStep)

\* Runtime threads are scheduled, the host's callbacks return and the host
\* completes what it has accepted, as the header asks of it. An action killed
\* while it calls the host again and again is killed between two of the calls.
ConversationFairness ==
    /\ WF_nativeVars(Only("operation") /\ WorkerStep)
    /\ WF_nativeVars(Only("operation") /\ ActionCallbackReturns)
    /\ SF_nativeVars(Only("operation") /\ ActionKilled)
    /\ WF_nativeVars(Only("browser") /\ BrowserProgress)

Spec == Init /\ [][Next]_nativeVars /\ ServiceFairness /\ ConversationFairness

\* Text; an image; an image with its text; a Finder copy of a picture, as one
\* item and as two; a picture of a format that is no raster of the tip.
ClipboardContents ==
    {<<>>, <<{"text"}>>, <<{"png", "image"}>>, <<{"text"}, {"png"}>>, <<{"png", "file"}>>,
     <<{"png"}, {"file"}>>, <<{"image"}>>}

\* Destroying the monitor returns to the thread that took the handle to close it,
\* although it waits for the queue whose blocks call back into Haskell.
MonitorCloses ==
    (\E c \in Closers : closer[c] = "wait") ~> (\A c \in Closers : closer[c] # "wait")

\* Destroying an operation returns: the cancellation reaches an action in the
\* middle of a callback and a worker still at its gate.
DestroyReturns == opHost = "joining" ~> opHost = "destroyed"

\* Replacing the browser callbacks returns, although a command holds them until
\* the host has completed its request, cancelled or not. It is not promised once
\* there were more commands than ids: cancelAndDrain waits for the id alone, which
\* may by then be that of another command (2^64 commands in the code).
SetBrowserReturns ==
    (\E e \in Engines : browserSetter[e] = "wait") ~>
        \/ \A e \in Engines : browserSetter[e] # "wait"
        \/ CommandsIssued > MaxPendingId

=============================================================================
