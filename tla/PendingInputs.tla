---------------------------- MODULE PendingInputs ----------------------------
(***************************************************************************)
(* Messages and notices that are prepended to the next submission          *)
(* (PendingInputs in Agent.Loop.InputQueue, withPendingInputs in           *)
(* Agent.CLI.PendingInputs). A submission leases all that is queued; if it *)
(* succeeds the lease is committed, if it fails or is cancelled the inputs *)
(* go back to the front. Producers and the reset of the conversation do    *)
(* not wait for the lease.                                                 *)
(***************************************************************************)
EXTENDS InputQueue

CONSTANTS
    Submitters,  \* threads that submit turns
    Sizes,       \* sizes of inputs
    MaxInputs,   \* inputs offered in a behaviour
    MaxEpoch     \* resets in a behaviour

ASSUME SizeAssumption == Sizes \subseteq Nat /\ MaxInputs \in Nat /\ MaxEpoch \in Nat

VARIABLES
    queue,      \* the TVar of the queue
    batch,      \* batch[s]: the leases of submitter s, at most one entry
    next,       \* inputs offered so far
    delivered,  \* what the provider accepted, in order
    accepted,   \* entries the queue accepted for this conversation
    floor       \* inputs offered before this conversation

vars == <<queue, batch, next, delivered, accepted, floor>>

Init ==
    /\ queue = EmptyQueue
    /\ batch = [s \in Submitters |-> <<>>]
    /\ next = 0 /\ floor = 0
    /\ delivered = <<>>
    /\ accepted = {}

Offer(e, after) ==
    /\ next < MaxInputs
    /\ next' = next + 1
    /\ queue' = after
    /\ accepted' = IF e.input \in Ids(after.entries) THEN accepted \cup {e} ELSE accepted
    /\ UNCHANGED <<batch, delivered, floor>>

EnqueuePendingInput(n) ==
    LET e == InputEntry(next + 1, n, "none") IN Offer(e, EnqueueInput(queue, e))

EnqueuePendingNotice(kind, n) ==
    LET e == InputEntry(next + 1, n, kind) IN Offer(e, EnqueueNotice(queue, e))

\* withPendingInputBatch, acquire: waits until no batch is active.
Acquire(s) ==
    /\ batch[s] = <<>> /\ ~queue.active
    /\ batch' = [batch EXCEPT ![s] = <<[epoch |-> queue.epoch, entries |-> queue.entries]>>]
    /\ queue' = [Drain(queue) EXCEPT !.active = TRUE]
    /\ UNCHANGED <<next, delivered, accepted, floor>>

\* withPendingInputBatch, release: the provider took the batch.
ReleaseSucceeded(s) ==
    /\ batch[s] # <<>>
    /\ queue' = [Commit(batch[s][1], queue) EXCEPT !.active = FALSE]
    /\ delivered' = delivered \o Inputs(batch[s][1].entries)
    /\ batch' = [batch EXCEPT ![s] = <<>>]
    /\ UNCHANGED <<next, accepted, floor>>

\* withPendingInputBatch, release: the submission failed or was cancelled.
ReleaseFailed(s) ==
    /\ batch[s] # <<>>
    /\ queue' = [Requeue(batch[s][1], queue) EXCEPT !.active = FALSE]
    /\ batch' = [batch EXCEPT ![s] = <<>>]
    /\ UNCHANGED <<next, delivered, accepted, floor>>

ClearPendingInputs ==
    /\ queue.epoch < MaxEpoch
    /\ queue' = Cleared(queue)
    /\ accepted' = {}
    /\ floor' = next
    /\ UNCHANGED <<batch, next, delivered>>

Next ==
    \/ \E n \in Sizes : EnqueuePendingInput(n)
    \/ \E n \in Sizes, kind \in {"mcp", "subagent"} : EnqueuePendingNotice(kind, n)
    \/ \E s \in Submitters : Acquire(s) \/ ReleaseSucceeded(s) \/ ReleaseFailed(s)
    \/ ClearPendingInputs

Spec == Init /\ [][Next]_vars

-----------------------------------------------------------------------------
(* Properties *)

Holders == {s \in Submitters : batch[s] # <<>>}
Leased == IF Holders = {} THEN <<>> ELSE batch[CHOOSE s \in Holders : TRUE][1].entries
Current == {s \in Holders : batch[s][1].epoch = queue.epoch}
Charged == IF Current = {} THEN queue.entries ELSE Leased \o queue.entries

\* One submission at a time leases a batch, a reset in between included
\* (withPendingInputBatch: a reset invalidates the batch but never permits
\* overlapping submissions), and the flag says whether one does.
OneBatch ==
    /\ \A s, t \in Holders : s = t
    /\ queue.active <=> Holders # {}

\* The retained budget is exactly what is queued plus what is leased from the
\* present conversation, and stays within both limits: budgets are neither
\* leaked nor given back twice by leases that a reset or a newer snapshot
\* overtook.
BudgetExact ==
    /\ queue.count = Len(Charged) /\ queue.count <= CountLimit
    /\ queue.bytes = Bytes(Charged) /\ queue.bytes <= ByteLimit

\* What was delivered, what is leased and what is queued are in the order in
\* which they were offered, and nothing occurs twice: a failed or cancelled
\* submission goes back in front of what arrived meanwhile.
InputsInOrder ==
    LET all == delivered \o Inputs(Leased) \o Inputs(queue.entries)
    IN  \A i, j \in 1..Len(all) : i < j => all[i] < all[j]

\* An accepted input of the conversation is delivered, leased or queued, or it
\* is an MCP snapshot and a later snapshot was accepted.
AcceptedIsKept ==
    \A e \in accepted :
        \/ e.input \in Ids(queue.entries) \cup Ids(Leased)
        \/ \E i \in 1..Len(delivered) : delivered[i] = e.input
        \/ e.kind = "mcp" /\ \E f \in accepted : f.kind = "mcp" /\ f.input > e.input

\* A reset leaves nothing of the earlier conversation in the queue, not even
\* when a submission of that conversation fails after it.
ResetIsolates == \A i \in Ids(queue.entries) : i > floor

\* At most one MCP snapshot is queued.
OneSnapshot == Len(OfKind(queue.entries, "mcp")) <= 1

=============================================================================
