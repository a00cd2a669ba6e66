----------------------------- MODULE InputQueue -----------------------------
(***************************************************************************)
(* The transitions of a session input queue (Agent.Loop.InputQueue and its *)
(* Model): a bounded queue of inputs for the model whose budget also       *)
(* covers inputs that were handed out and are not acknowledged yet. Every  *)
(* transition is one STM transaction of the code, written here as a        *)
(* function on the queue's state. PendingInputs and SteeredLoop run them.  *)
(***************************************************************************)
EXTENDS Integers, Sequences, FiniteSets

CONSTANTS
    CountLimit,  \* queueCountLimit
    ByteLimit,   \* queueByteLimit
    Keys,        \* keys of background tasks
    NoKey        \* entryBackgroundKey of an input that is no completion notice

ASSUME LimitAssumption == CountLimit \in Nat /\ ByteLimit \in Nat
ASSUME KeyAssumption == NoKey \notin Keys

\* An input is known by the number under which it was offered to the queue; its
\* kind is "none", "mcp" or "subagent" (PendingNoticeKind).
InputEntry(i, n, kind) ==
    [input |-> i, bytes |-> n, kind |-> kind, key |-> NoKey, wake |-> TRUE]

EmptyQueue ==
    [epoch |-> 0, entries |-> <<>>, deferred |-> <<>>, count |-> 0, bytes |-> 0,
     omitted |-> FALSE, closed |-> FALSE, reserved |-> 0, active |-> FALSE]

Ids(s) == {s[i].input : i \in 1..Len(s)}

\* The inputs of a sequence of entries, in order.
Inputs(s) == [i \in 1..Len(s) |-> s[i].input]

Bytes(s) ==
    LET sum[n \in 0..Len(s)] == IF n = 0 THEN 0 ELSE sum[n - 1] + s[n].bytes
    IN  sum[Len(s)]

Clamped(n) == IF n > 0 THEN n ELSE 0

\* The entries of s at the indices in K, in order.
Selected(s, K) ==
    LET of[n \in 0..Len(s)] ==
            IF n = 0 THEN <<>>
            ELSE IF n \in K THEN Append(of[n - 1], s[n]) ELSE of[n - 1]
    IN  of[Len(s)]

Take(s, n) == SubSeq(s, 1, IF n < Len(s) THEN n ELSE Len(s))
Drop(s, n) == SubSeq(s, n + 1, Len(s))

-----------------------------------------------------------------------------
(* Admission *)

Fits(q, s) == q.count + Len(s) <= CountLimit /\ q.bytes + Bytes(s) <= ByteLimit

\* appendEntries, once the entries fit.
Appended(q, s) ==
    [q EXCEPT !.entries = @ \o s, !.count = @ + Len(s), !.bytes = @ + Bytes(s)]

\* promoteDeferredCompletions: deferred notices enter the queue, oldest first,
\* as long as they fit, and wake the host again.
Promoted(q) ==
    LET fitting == {0} \cup {m \in 1..Len(q.deferred) : Fits(q, Take(q.deferred, m))}
        n == CHOOSE most \in fitting : \A m \in fitting : m <= most
        woken == [i \in 1..n |-> [q.deferred[i] EXCEPT !.wake = TRUE]]
    IN  [Appended(q, woken) EXCEPT !.deferred = Drop(@, n)]

\* Mutant: a reset also ends the batch in flight.
ClearedBatch(q) == [EmptyQueue EXCEPT !.epoch = q.epoch + 1]

\* clearPendingState. A batch keeps its lifecycle: active is left alone.
Cleared(q) == [EmptyQueue EXCEPT !.epoch = q.epoch + 1, !.active = q.active]

-----------------------------------------------------------------------------
(* Batches of a pending queue *)

OfKind(s, kind) == Selected(s, {i \in 1..Len(s) : s[i].kind = kind})
NotOfKind(s, kind) == Selected(s, {i \in 1..Len(s) : s[i].kind # kind})

RemoveNotice(q, kind) ==
    LET removed == OfKind(q.entries, kind)
    IN  [q EXCEPT !.entries = NotOfKind(@, kind),
                  !.count = @ - Len(removed),
                  !.bytes = Clamped(@ - Bytes(removed))]

EnqueueInput(q, e) == IF Fits(q, <<e>>) THEN Appended(q, <<e>>) ELSE q

\* Mutant: the older snapshot is removed although the new one is rejected.
EnqueueNoticeEagerly(q, e) ==
    LET room == IF e.kind = "mcp" THEN RemoveNotice(q, "mcp") ELSE q
    IN  IF Fits(room, <<e>>) THEN Appended(room, <<e>>)
        ELSE [room EXCEPT !.omitted = TRUE]

\* enqueueNotice: an MCP snapshot replaces the one that is queued; a rejected
\* notice leaves the queue as it was and records the omission.
EnqueueNotice(q, e) ==
    LET room == IF e.kind = "mcp" THEN RemoveNotice(q, "mcp") ELSE q
    IN  IF Fits(room, <<e>>) THEN Appended(room, <<e>>)
        ELSE [q EXCEPT !.omitted = TRUE]

Drain(q) == [q EXCEPT !.entries = <<>>, !.omitted = FALSE]

\* Mutants of requeue: a batch of an earlier conversation comes back; the
\* batch goes behind what arrived while it was out; an old snapshot comes back
\* although a newer one is queued.
RequeueStale(b, q) == [q EXCEPT !.entries = b.entries \o @]
RequeueBehind(b, q) ==
    IF b.epoch # q.epoch THEN q ELSE [q EXCEPT !.entries = @ \o b.entries]
RequeueBoth(b, q) ==
    IF b.epoch # q.epoch THEN q ELSE [q EXCEPT !.entries = b.entries \o @]

\* requeue: the batch goes back in front of what arrived while it was out,
\* unless its conversation is over; a newer MCP snapshot supersedes its own.
Requeue(b, q) ==
    LET newer == \E i \in 1..Len(q.entries) : q.entries[i].kind = "mcp"
        removed == IF newer THEN OfKind(b.entries, "mcp") ELSE <<>>
        kept == IF newer THEN NotOfKind(b.entries, "mcp") ELSE b.entries
    IN  IF b.epoch # q.epoch THEN q
        ELSE [q EXCEPT !.entries = kept \o @,
                       !.count = Clamped(@ - Len(removed)),
                       !.bytes = Clamped(@ - Bytes(removed))]

\* Mutant: a batch of an earlier conversation gives back budget it no longer
\* holds.
CommitStale(b, q) ==
    Promoted([q EXCEPT !.count = Clamped(@ - Len(b.entries)),
                       !.bytes = Clamped(@ - Bytes(b.entries))])

Commit(b, q) ==
    IF b.epoch # q.epoch THEN q
    ELSE Promoted([q EXCEPT !.count = Clamped(@ - Len(b.entries)),
                            !.bytes = Clamped(@ - Bytes(b.entries))])

-----------------------------------------------------------------------------
(* The steering queue *)

HasKey(s, k) == \E i \in 1..Len(s) : s[i].key = k
WithoutKey(s, k) == Selected(s, {i \in 1..Len(s) : s[i].key # k})

\* enqueueSteeringInputsSTM, for one input.
Steer(q, e) == IF ~q.closed /\ Fits(q, <<e>>) THEN Appended(q, <<e>>) ELSE q

\* Mutant: the conversation a completion belongs to is not compared.
CompletedAnywhere(q, epoch, e) ==
    IF \/ HasKey(q.entries, e.key) \/ HasKey(q.deferred, e.key)
       \/ e.bytes > ByteLimit
    THEN q
    ELSE Promoted([q EXCEPT !.deferred = Append(@, e)])

\* enqueueBackgroundCompletionForEpoch: a notice for the conversation epoch,
\* unless one with its key is still queued.
Completed(q, epoch, e) ==
    IF \/ epoch # q.epoch
       \/ HasKey(q.entries, e.key) \/ HasKey(q.deferred, e.key)
       \/ e.bytes > ByteLimit
    THEN q
    ELSE Promoted([q EXCEPT !.deferred = Append(@, e)])

\* reserveInputQueueState
Reserved(q) == [q EXCEPT !.reserved = Len(q.entries)]

\* closeSteeringInputs
Closed(q) == IF q.entries = <<>> THEN [Reserved(q) EXCEPT !.closed = TRUE] ELSE Reserved(q)

AnyWake(q) == \E i \in 1..Len(q.entries \o q.deferred) : (q.entries \o q.deferred)[i].wake

Quiet(s) == [i \in 1..Len(s) |-> [s[i] EXCEPT !.wake = FALSE]]

\* awaitSteeringInput, once some entry wakes.
WakeConsumed(q) == [q EXCEPT !.entries = Quiet(@), !.deferred = Quiet(@)]

\* awaitUserSteeringAfter
GuidanceAfter(q, n) == \E i \in (n + 1)..Len(q.entries) : q.entries[i].key = NoKey

\* suppressUserSteeringWake
WakeSuppressed(q) ==
    [q EXCEPT !.entries =
        [i \in 1..Len(@) |-> IF @[i].key = NoKey THEN [@[i] EXCEPT !.wake = FALSE] ELSE @[i]]]

\* Mutant: reserved notices are dismissed too.
DismissedAnywhere(q, k) ==
    LET kept == WithoutKey(q.entries, k)
    IN  Promoted([q EXCEPT !.entries = kept,
                           !.count = @ - (Len(q.entries) - Len(kept)),
                           !.bytes = Bytes(kept),
                           !.deferred = WithoutKey(@, k)])

\* dismissBackgroundCompletion: the reserved prefix stays in place.
Dismissed(q, k) ==
    LET kept == Take(q.entries, q.reserved) \o WithoutKey(Drop(q.entries, q.reserved), k)
    IN  Promoted([q EXCEPT !.entries = kept,
                           !.count = @ - (Len(q.entries) - Len(kept)),
                           !.bytes = Bytes(kept),
                           !.deferred = WithoutKey(@, k)])

\* commitSteeringInputsSTM
Acknowledged(q, n) ==
    LET removed == Take(q.entries, n)
    IN  Promoted([q EXCEPT !.entries = Drop(@, Len(removed)),
                           !.count = Clamped(@ - Len(removed)),
                           !.bytes = Clamped(@ - Bytes(removed)),
                           !.reserved = Clamped(@ - n)])

=============================================================================
