------------------------------ MODULE MediaPeer ------------------------------
(***************************************************************************)
(* peer.c: a WebRTC peer. Creating or setting a description is handed to   *)
(* webrtcbin with a promise; the caller polls agent_peer_operation until   *)
(* the promise's callback has run, and may give up polling at any time,    *)
(* after its timeout or when its thread is cancelled. The promise then     *)
(* stays the peer's operation.                                             *)
(***************************************************************************)
EXTENDS Integers, Sequences, FiniteSets

CONSTANTS
    MaxOperations,   \* bound: descriptions the callers ask for
    SourceLimit,     \* 48000 bytes, what the encoder's source queues
    SinkLimit        \* buffers the receiver keeps; older ones are dropped

VARIABLES
    peer,            \* "live" or "freed"
    operation,       \* p->operation: the promise, 0 for NULL
    promises,        \* promise -> what it was replied to, and whether its callback ran
    asked,           \* requests webrtcbin works on, each with its promise
    caller,          \* the request whose answer the caller polls for, 0 if none
    requests,        \* requests made so far
    answer,          \* the last answer: who got it and what it answers
    linked,          \* the receiver has an incoming pad
    peerFailed, peerBus, sourceLevel, received, arrived

peerVars == <<peer, operation, promises, asked, caller, requests, answer, linked, peerFailed,
              peerBus, sourceLevel, received, arrived>>
signalingVars == <<operation, promises, asked, caller, requests, answer>>
mediaVars == <<linked, peerFailed, peerBus, sourceLevel, received, arrived>>

Pending == [reply |-> 0, done |-> FALSE]

\* agent_peer_new built its pipeline.
PeerInit ==
    /\ peer = "live" /\ operation = 0 /\ promises = <<>> /\ asked = {} /\ caller = 0
    /\ requests = 0 /\ answer = [to |-> 0, of |-> 0]
    /\ linked = FALSE /\ peerFailed = FALSE /\ peerBus = FALSE
    /\ sourceLevel = 0 /\ received = <<>> /\ arrived = 0

CanCall == peer = "live" /\ caller = 0

\* begin_operation with a fresh promise.
Begin ==
    /\ operation' = Len(promises) + 1 /\ promises' = Append(promises, Pending)

Ask(promise) ==
    /\ requests < MaxOperations /\ requests' = requests + 1 /\ caller' = requests + 1
    /\ asked' = asked \cup {[request |-> requests + 1, promise |-> promise]}

\* agent_peer_create_description; 0, and no request, while an operation is left.
PeerCreateDescription ==
    /\ CanCall /\ operation = 0 /\ Begin /\ Ask(operation')
    /\ UNCHANGED <<peer, answer, mediaVars>>

\* Mutant of PeerSetDescription: no test for an operation that was left, so the
\* request goes out with the old promise (the result of begin_operation is not
\* looked at).
PeerSetDescriptionUnchecked ==
    /\ CanCall
    /\ IF operation = 0 THEN Begin /\ Ask(operation')
       ELSE Ask(operation) /\ UNCHANGED <<operation, promises>>
    /\ UNCHANGED <<peer, answer, mediaVars>>

\* agent_peer_set_description with a description that parses, local or remote.
PeerSetDescription ==
    /\ CanCall /\ operation = 0 /\ Begin /\ Ask(operation')
    /\ UNCHANGED <<peer, answer, mediaVars>>

\* webrtcbin replies to a promise once, with a result or an error.
PromiseReplied(a) ==
    /\ asked' = asked \ {a}
    /\ promises' = IF promises[a.promise].reply = 0
                   THEN [promises EXCEPT ![a.promise].reply = a.request] ELSE promises
    /\ UNCHANGED <<peer, operation, caller, requests, answer, mediaVars>>
OperationDone(p) ==
    /\ promises[p].reply # 0 /\ ~promises[p].done
    /\ promises' = [promises EXCEPT ![p].done = TRUE]
    /\ UNCHANGED <<peer, operation, asked, caller, requests, answer, mediaVars>>

\* agent_peer_operation once the callback has run; before, it returns 0.
PeerOperation ==
    /\ peer = "live" /\ caller # 0 /\ operation # 0 /\ promises[operation].done
    /\ answer' = [to |-> caller, of |-> promises[operation].reply]
    /\ caller' = 0 /\ operation' = 0
    /\ UNCHANGED <<peer, promises, asked, requests, mediaVars>>

\* pollBytes ends without an answer.
PollAbandoned ==
    /\ caller # 0 /\ caller' = 0
    /\ UNCHANGED <<peer, operation, promises, asked, requests, answer, mediaVars>>

\* The pad-added callback: one stream of audio is received, a second is an error.
Incoming ==
    /\ peer = "live"
    /\ \/ ~linked /\ linked' = TRUE /\ UNCHANGED peerFailed
       \/ peerFailed' = TRUE /\ UNCHANGED linked
    /\ UNCHANGED <<peer, signalingVars, peerBus, sourceLevel, received, arrived>>

PeerBusError ==
    /\ peer = "live" /\ peerBus' = TRUE
    /\ UNCHANGED <<peer, signalingVars, linked, peerFailed, sourceLevel, received, arrived>>

\* agent_peer_state takes one error off the bus; a failure is for good. A caller
\* that polls asks for it before every poll and gives up on a failure.
PeerState ==
    /\ peer = "live" /\ peerFailed' = (peerFailed \/ peerBus) /\ peerBus' = FALSE
    /\ UNCHANGED <<peer, signalingVars, linked, sourceLevel, received, arrived>>

\* agent_peer_push: a frame that does not fit is refused.
PeerPush(size) ==
    /\ CanCall /\ sourceLevel + size <= SourceLimit /\ sourceLevel' = sourceLevel + size
    /\ UNCHANGED <<peer, signalingVars, linked, peerFailed, peerBus, received, arrived>>
Encode ==
    /\ sourceLevel > 0 /\ sourceLevel' = sourceLevel - 1
    /\ UNCHANGED <<peer, signalingVars, linked, peerFailed, peerBus, received, arrived>>

\* The receiver keeps the latest buffers; agent_peer_pull takes the oldest.
Receive ==
    /\ peer = "live" /\ linked /\ arrived < SinkLimit + 2 /\ arrived' = arrived + 1
    /\ LET all == Append(received, arrived + 1) IN
       received' = IF Len(all) > SinkLimit THEN Tail(all) ELSE all
    /\ UNCHANGED <<peer, signalingVars, linked, peerFailed, peerBus, sourceLevel>>
PeerPull ==
    /\ CanCall /\ received # <<>> /\ received' = Tail(received)
    /\ UNCHANGED <<peer, signalingVars, linked, peerFailed, peerBus, sourceLevel, arrived>>

\* agent_peer_free interrupts the promise and joins the streaming threads.
PeerFree ==
    /\ CanCall /\ peer' = "freed" /\ operation' = 0 /\ asked' = {}
    /\ received' = <<>> /\ sourceLevel' = 0
    /\ UNCHANGED <<promises, caller, requests, answer, linked, peerFailed, peerBus, arrived>>

PeerNext ==
    \/ PeerCreateDescription \/ PeerSetDescription \/ PeerOperation \/ PollAbandoned
    \/ (\E a \in asked : PromiseReplied(a)) \/ (\E p \in DOMAIN promises : OperationDone(p))
    \/ Incoming \/ PeerBusError \/ PeerState \/ PeerPush(1) \/ Encode \/ Receive \/ PeerPull
    \/ PeerFree

PeerSpec == PeerInit /\ [][PeerNext]_peerVars

\* A caller gets the answer to its own request: a late reply to one that was
\* abandoned is never taken for the answer to the next. An answer exists only
\* once per promise, and a promise in use is the peer's operation.
AnswerToOwnRequest ==
    /\ answer.to = answer.of
    /\ caller # 0 => operation # 0
    /\ \A a \in asked : promises[a.promise].reply = 0

=============================================================================
