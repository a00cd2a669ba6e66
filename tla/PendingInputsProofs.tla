------------------------ MODULE PendingInputsProofs ------------------------
(***************************************************************************)
(* The pending queue, for any number of submitters, any limits and sizes.  *)
(* Submissions exclude each other though a reset neither waits for a batch *)
(* nor ends it; the budget is exact; inputs are neither lost, doubled nor  *)
(* reordered, and a reset isolates the conversations. Each transition of   *)
(* the queue is first shown to keep what is said of entries, sizes and     *)
(* deliveries (the lemmas named ...Sound); the actions follow from them.   *)
(***************************************************************************)
EXTENDS PendingInputs, InputQueueProofs

\* r is a queue with the lifecycle of q.
SameLease(q, r) == DOMAIN r = DOMAIN q /\ r.active = q.active

\* Appending, removing and promoting entries leaves the lifecycle alone.
LEMMA TransitionsKeepLease ==
    ASSUME NEW q
    PROVE  /\ \A s : SameLease(q, Appended(q, s))
           /\ SameLease(q, Promoted(q))
           /\ \A k : SameLease(q, RemoveNotice(q, k))
           /\ SameLease(q, Drain(q))
<1>1. \A s : SameLease(q, Appended(q, s))
  BY DEF SameLease, Appended
<1>2. SameLease(q, Promoted(q))
  BY <1>1 DEF SameLease, Promoted, Appended
<1>3. \A k : SameLease(q, RemoveNotice(q, k))
  BY DEF SameLease, RemoveNotice
<1>4. SameLease(q, Drain(q))
  BY DEF SameLease, Drain
<1> QED
  BY <1>1, <1>2, <1>3, <1>4

\* So do enqueueInput and enqueueNotice,
LEMMA EnqueueKeepsLease ==
    ASSUME NEW q, NEW e
    PROVE  SameLease(q, EnqueueInput(q, e)) /\ SameLease(q, EnqueueNotice(q, e))
<1>1. SameLease(q, EnqueueInput(q, e))
  BY TransitionsKeepLease DEF EnqueueInput, SameLease
<1>2. SameLease(q, EnqueueNotice(q, e))
  <2> DEFINE room == IF e.kind = "mcp" THEN RemoveNotice(q, "mcp") ELSE q
  <2>1. SameLease(q, room)
    BY TransitionsKeepLease DEF SameLease
  <2>2. SameLease(room, Appended(room, <<e>>))
    BY TransitionsKeepLease
  <2>3. SameLease(q, [q EXCEPT !.omitted = TRUE])
    BY DEF SameLease
  <2> QED
    BY <2>1, <2>2, <2>3 DEF EnqueueNotice, SameLease
<1> QED
  BY <1>1, <1>2

\* and the settlement of a batch, whichever conversation it belongs to.
LEMMA SettlementKeepsLease ==
    ASSUME NEW q, NEW b
    PROVE  SameLease(q, Commit(b, q)) /\ SameLease(q, Requeue(b, q))
<1>1. SameLease(q, Commit(b, q))
  <2> DEFINE r == [q EXCEPT !.count = Clamped(@ - Len(b.entries)),
                            !.bytes = Clamped(@ - Bytes(b.entries))]
  <2>1. SameLease(q, r)
    BY DEF SameLease
  <2>2. SameLease(r, Promoted(r))
    BY TransitionsKeepLease
  <2> QED
    BY <2>1, <2>2 DEF Commit, SameLease
<1>2. SameLease(q, Requeue(b, q))
  BY DEF Requeue, SameLease
<1> QED
  BY <1>1, <1>2

\* What makes OneBatch inductive: the shapes of the queue and of the leases.
LeaseInvariant ==
    /\ "active" \in DOMAIN queue
    /\ queue.active \in BOOLEAN
    /\ batch = [s \in Submitters |-> batch[s]]
    /\ OneBatch

\* A step that gives nobody a batch and leaves the lifecycle alone.
LEMMA QuietStep ==
    ASSUME LeaseInvariant, SameLease(queue, queue'), UNCHANGED batch
    PROVE  LeaseInvariant'
BY DEF LeaseInvariant, SameLease, OneBatch, Holders

\* The end of a batch frees the queue for the next submission.
LEMMA ReleaseStep ==
    ASSUME LeaseInvariant, NEW s \in Submitters, batch[s] # <<>>,
           batch' = [batch EXCEPT ![s] = <<>>],
           NEW r, SameLease(queue, r), queue' = [r EXCEPT !.active = FALSE]
    PROVE  LeaseInvariant'
<1>1. /\ "active" \in DOMAIN queue' /\ queue'.active = FALSE
  BY DEF LeaseInvariant, SameLease
<1>2. batch' = [t \in Submitters |-> batch'[t]] /\ \A t \in Submitters : batch'[t] = <<>>
  BY DEF LeaseInvariant, OneBatch, Holders
<1> QED
  BY <1>1, <1>2 DEF LeaseInvariant, OneBatch, Holders

\* Every step keeps it.
LEMMA LeaseStep ==
    ASSUME LeaseInvariant, [Next]_vars
    PROVE  LeaseInvariant'
<1>1. ASSUME NEW n \in Sizes, EnqueuePendingInput(n) PROVE LeaseInvariant'
  BY <1>1, EnqueueKeepsLease, QuietStep DEF EnqueuePendingInput, Offer
<1>2. ASSUME NEW n \in Sizes, NEW kind, EnqueuePendingNotice(kind, n)
      PROVE  LeaseInvariant'
  BY <1>2, EnqueueKeepsLease, QuietStep DEF EnqueuePendingNotice, Offer
<1>3. ASSUME NEW s \in Submitters, Acquire(s) PROVE LeaseInvariant'
  <2>1. Holders = {}
    BY <1>3 DEF Acquire, LeaseInvariant, OneBatch
  <2>2. "active" \in DOMAIN queue' /\ queue'.active = TRUE
    BY <1>3, TransitionsKeepLease DEF Acquire, LeaseInvariant, SameLease
  <2>3. batch' = [t \in Submitters |-> batch'[t]] /\ Holders' = {s}
    BY <1>3, <2>1 DEF Acquire, LeaseInvariant, Holders
  <2> QED
    BY <2>2, <2>3 DEF LeaseInvariant, OneBatch
<1>4. ASSUME NEW s \in Submitters, ReleaseSucceeded(s) PROVE LeaseInvariant'
  BY <1>4, ReleaseStep, SettlementKeepsLease DEF ReleaseSucceeded
<1>5. ASSUME NEW s \in Submitters, ReleaseFailed(s) PROVE LeaseInvariant'
  BY <1>5, ReleaseStep, SettlementKeepsLease DEF ReleaseFailed
<1>6. CASE ClearPendingInputs
  <2>1. UNCHANGED batch /\ "active" \in DOMAIN queue' /\ queue'.active = queue.active
    BY <1>6 DEF ClearPendingInputs, Cleared, EmptyQueue
  <2> QED
    BY <2>1 DEF LeaseInvariant, OneBatch, Holders
<1>7. CASE UNCHANGED vars
  BY <1>7 DEF vars, LeaseInvariant, OneBatch, Holders
<1> QED
  BY <1>1, <1>2, <1>3, <1>4, <1>5, <1>6, <1>7 DEF Next

\* withPendingInputBatch: at most one submission holds a batch of the pending
\* queue, and the flag in the queue says whether one does, also after a reset
\* in the middle of a submission.
THEOREM SubmissionsExclude == Spec => []OneBatch
<1>1. Init => LeaseInvariant
  BY DEF Init, LeaseInvariant, OneBatch, Holders, EmptyQueue
<1>2. LeaseInvariant /\ [Next]_vars => LeaseInvariant'
  BY LeaseStep
<1>3. LeaseInvariant => OneBatch
  BY DEF LeaseInvariant
<1> QED
  BY <1>1, <1>2, <1>3, PTL DEF Spec

-----------------------------------------------------------------------------
(* What happens to the inputs                                              *)

(***************************************************************************)
(* The invariant speaks of the leased entries L, of whether they are of    *)
(* the present conversation (C), of the queued entries Q, the delivered    *)
(* inputs d, the accepted entries A, the inputs offered (n) and those that *)
(* were offered to earlier conversations (f).                              *)
(***************************************************************************)

\* Delivered, leased and queued inputs follow each other.
InOrder(L, Q, d, n) ==
    /\ Ascending(L) /\ Ascending(Q)
    /\ \A i, j \in 1..Len(d) : i < j => d[i] < d[j]
    /\ \A i \in 1..Len(d) : \A x \in Ids(L) \cup Ids(Q) : d[i] < x
    /\ \A x \in Ids(L), y \in Ids(Q) : x < y
    /\ \A i \in 1..Len(d) : d[i] <= n
    /\ \A x \in Ids(L) \cup Ids(Q) : x <= n

\* Queued entries, and the leased ones unless a reset overtook them, were
\* accepted by the present conversation.
OfConversation(L, C, Q, A, n, f) ==
    /\ \A e \in A : f < e.input /\ e.input <= n
    /\ \A e, g \in A : e.input = g.input => e = g
    /\ \A i \in 1..Len(Q) : Q[i] \in A
    /\ C => \A i \in 1..Len(L) : L[i] \in A
    /\ ~C => \A x \in Ids(L) : x <= f

\* AcceptedIsKept
AllKept(L, Q, d, A) ==
    \A e \in A :
        \/ e.input \in Ids(Q) \cup Ids(L)
        \/ \E i \in 1..Len(d) : d[i] = e.input
        \/ e.kind = "mcp" /\ \E g \in A : g.kind = "mcp" /\ g.input > e.input

\* BudgetExact
Budget(L, C, Q, c, b) ==
    LET charged == IF C THEN L \o Q ELSE Q
    IN  /\ c = Len(charged) /\ c <= CountLimit
        /\ b = Bytes(charged) /\ b <= ByteLimit

Sound(L, C, Q, c, b, d, A, n, f) ==
    /\ InOrder(L, Q, d, n)
    /\ OfConversation(L, C, Q, A, n, f)
    /\ AtMostOne(L, "mcp") /\ AtMostOne(Q, "mcp")
    /\ AllKept(L, Q, d, A)
    /\ Budget(L, C, Q, c, b)

Batch == [epoch : Nat, entries : Seq(Entry)]

PendingTypeOK ==
    /\ queue \in QueueState /\ queue.deferred = <<>>
    /\ batch \in [Submitters -> Seq(Batch)]
    /\ \A s \in Submitters : batch[s] = <<>> \/ Len(batch[s]) = 1
    /\ delivered \in Seq(Nat) /\ accepted \subseteq Entry
    /\ next \in Nat /\ floor \in Nat /\ floor <= next

PendingInvariant ==
    /\ PendingTypeOK /\ OneBatch
    /\ \A s \in Holders : batch[s][1].epoch <= queue.epoch
    /\ Sound(Leased, Current # {}, queue.entries, queue.count, queue.bytes,
             delivered, accepted, next, floor)

\* An entry goes to the end of a queue in which a snapshot made room for a
\* newer one: Q0 is what remains of Q.
LEMMA AppendSound ==
    ASSUME NEW L \in Seq(Entry), NEW C \in BOOLEAN, NEW Q \in Seq(Entry), NEW c, NEW b,
           NEW d \in Seq(Nat), NEW A \in SUBSET Entry, NEW n \in Nat, NEW f \in Nat,
           Sound(L, C, Q, c, b, d, A, n, f), f <= n,
           NEW e \in Entry, e.input = n + 1,
           NEW Q0 \in Seq(Entry), NEW c0 \in Nat, NEW b0 \in Nat,
           Ascending(Q0), AtMostOne(Q0, "mcp"),
           \A j \in 1..Len(Q0) : \E i \in 1..Len(Q) : Q0[j] = Q[i],
           \A i \in 1..Len(Q) : \/ \E j \in 1..Len(Q0) : Q0[j] = Q[i]
                                \/ Q[i].kind = "mcp" /\ e.kind = "mcp",
           e.kind = "mcp" => \A j \in 1..Len(Q0) : Q0[j].kind # "mcp",
           Budget(L, C, Q0, c0, b0), c0 + 1 <= CountLimit, b0 + e.bytes <= ByteLimit
    PROVE  Sound(L, C, Q0 \o <<e>>, c0 + 1, b0 + e.bytes, d, A \cup {e}, n + 1, f)
<1> DEFINE new == <<e>>
           R == Q0 \o new
<1>1. new \in Seq(Entry) /\ Len(new) = 1 /\ new[1] = e
  OBVIOUS
<1>2. Ids(new) = {n + 1} /\ Ascending(new) /\ AtMostOne(new, "mcp")
  BY <1>1 DEF Ids, Ascending, AtMostOne
<1>3. \A i \in 1..Len(new) : new[i] = e
  BY <1>1
<1> HIDE DEF new
<1>4. R \in Seq(Entry) /\ Ids(R) = Ids(Q0) \cup {n + 1}
  BY <1>1, <1>2, ConcatFacts, ConcatIds
<1>5. Ids(Q0) \subseteq Ids(Q)
  BY IdsPart
<1>6. \A x \in Ids(Q) \cup Ids(L) : x \in Nat /\ x <= n
  BY IdsType DEF Sound, InOrder
<1>7. InOrder(L, R, d, n + 1)
  <2>1. Ascending(R)
    <3>1. \A x \in Ids(Q0), y \in Ids(new) : x < y
      BY <1>2, <1>5, <1>6
    <3> QED
      BY <1>1, <1>2, <3>1, ConcatAscending
  <2>2. \A i \in 1..Len(d) : d[i] \in Nat /\ d[i] <= n
    BY SMTT(30) DEF Sound, InOrder
  <2> HIDE DEF R
  <2> QED
    BY <1>4, <1>5, <1>6, <2>1, <2>2, SMTT(30) DEF Sound, InOrder
<1>8. \A i \in 1..Len(R) : R[i] = e \/ \E j \in 1..Len(Q) : R[i] = Q[j]
  <2> SUFFICES ASSUME NEW i \in 1..Len(R)
               PROVE  R[i] = e \/ \E j \in 1..Len(Q) : R[i] = Q[j]
    OBVIOUS
  <2>1. CASE i \in 1..Len(Q0) /\ R[i] = Q0[i]
    BY <2>1
  <2>2. CASE i - Len(Q0) \in 1..Len(new) /\ R[i] = new[i - Len(Q0)]
    BY <1>3, <2>2
  <2> QED
    BY <1>1, <2>1, <2>2, ConcatFacts, ZenonT(60)
<1>9. OfConversation(L, C, R, A \cup {e}, n + 1, f)
  <2>1. \A g \in A : f < g.input /\ g.input <= n /\ g.input \in Nat
    BY DEF Sound, OfConversation, Entry
  <2>2. \A g \in A \cup {e} : f < g.input /\ g.input <= n + 1
    BY <2>1
  <2>3. \A g, h \in A \cup {e} : g.input = h.input => g = h
    BY <2>1 DEF Sound, OfConversation
  <2> HIDE DEF R
  <2> QED
    BY <1>8, <2>2, <2>3 DEF Sound, OfConversation
<1>10. AtMostOne(R, "mcp")
  BY <1>1, <1>2, <1>3, ConcatAtMostOne
<1>11. AllKept(L, R, d, A \cup {e})
  <2> SUFFICES ASSUME NEW g \in A \cup {e}
               PROVE  \/ g.input \in Ids(R) \cup Ids(L)
                      \/ \E i \in 1..Len(d) : d[i] = g.input
                      \/ /\ g.kind = "mcp"
                         /\ \E h \in A \cup {e} : h.kind = "mcp" /\ h.input > g.input
    BY DEF AllKept
  <2> HIDE DEF R
  <2>1. CASE g = e
    BY <1>4, <2>1
  <2>2. CASE g \in A /\ g.input \in Ids(Q)
    <3>1. PICK i \in 1..Len(Q) : Q[i].input = g.input
      BY <2>2 DEF Ids
    <3>2. Q[i] = g
      BY <2>2, <3>1 DEF Sound, OfConversation
    <3>3. CASE \E j \in 1..Len(Q0) : Q0[j] = Q[i]
      <4>1. PICK j \in 1..Len(Q0) : Q0[j] = Q[i]
        BY <3>3
      <4>2. Q0[j].input \in Ids(Q0)
        BY DEF Ids
      <4> QED
        BY <1>4, <3>1, <4>1, <4>2
    <3>4. CASE Q[i].kind = "mcp" /\ e.kind = "mcp"
      <4>1. g.input <= n /\ g.input \in Nat
        BY <2>2 DEF Sound, OfConversation, Entry
      <4> QED
        BY <3>2, <3>4, <4>1
    <3> QED
      BY <3>3, <3>4
  <2>3. CASE g \in A /\ g.input \notin Ids(Q)
    BY <2>3 DEF Sound, AllKept
  <2> QED
    BY <2>1, <2>2, <2>3
<1>12. Budget(L, C, R, c0 + 1, b0 + e.bytes)
  <2>1. e.bytes \in Nat /\ Bytes(new) = e.bytes
    BY BytesType DEF Entry, new
  <2>2. Len(R) = Len(Q0) + 1
    <3>1. Len(R) = Len(Q0) + Len(new)
      BY <1>1, ConcatFacts
    <3> HIDE DEF R
    <3> QED
      BY <1>1, <3>1
  <2>6. Bytes(R) = Bytes(Q0) + e.bytes
    BY <1>1, <2>1, BytesConcat
  <2>7. Bytes(Q0) \in Nat /\ Bytes(L) \in Nat
    BY BytesType
  <2>3. /\ Bytes(L \o R) = Bytes(L) + Bytes(R) /\ Len(L \o R) = Len(L) + Len(R)
        /\ Bytes(L \o Q0) = Bytes(L) + Bytes(Q0) /\ Len(L \o Q0) = Len(L) + Len(Q0)
    BY <1>4, ConcatFacts, BytesConcat
  <2> HIDE DEF R
  <2>4. CASE C
    <3>1. c0 = Len(L) + Len(Q0) /\ b0 = Bytes(L) + Bytes(Q0)
      BY <2>3, <2>4 DEF Budget
    <3>2. c0 + 1 = Len(L \o R)
      BY <2>2, <2>3, <3>1
    <3>3. b0 + e.bytes = Bytes(L \o R)
      BY <2>1, <2>3, <2>6, <2>7, <3>1
    <3> QED
      BY <2>4, <3>2, <3>3 DEF Budget
  <2>5. CASE ~C
    <3>1. c0 = Len(Q0) /\ b0 = Bytes(Q0)
      BY <2>5 DEF Budget
    <3> QED
      BY <2>2, <2>5, <2>6, <3>1 DEF Budget
  <2> QED
    BY <2>4, <2>5
<1> QED
  BY <1>7, <1>9, <1>10, <1>11, <1>12 DEF Sound, new

\* A rejected input changes nothing.
LEMMA RejectSound ==
    ASSUME NEW L \in Seq(Entry), NEW C \in BOOLEAN, NEW Q \in Seq(Entry), NEW c, NEW b,
           NEW d \in Seq(Nat), NEW A \in SUBSET Entry, NEW n \in Nat, NEW f \in Nat,
           Sound(L, C, Q, c, b, d, A, n, f)
    PROVE  Sound(L, C, Q, c, b, d, A, n + 1, f)
<1>1. \A x \in Ids(L) \cup Ids(Q) : x \in Nat
  BY IdsType
<1>2. \A i \in 1..Len(d) : d[i] \in Nat
  OBVIOUS
<1>3. InOrder(L, Q, d, n + 1)
  BY <1>1, <1>2 DEF Sound, InOrder
<1>4. \A e \in A : e.input \in Nat
  BY DEF Entry
<1>5. OfConversation(L, C, Q, A, n + 1, f)
  BY <1>4 DEF Sound, OfConversation
<1> QED
  BY <1>3, <1>5 DEF Sound

\* The empty sequence of entries.
LEMMA NoEntries ==
    /\ <<>> \in Seq(Entry) /\ Len(<<>>) = 0 /\ Ids(<<>>) = {} /\ Bytes(<<>>) = 0
    /\ Ascending(<<>>) /\ \A kind : AtMostOne(<<>>, kind)
    /\ \A s \in Seq(Entry) : s \o <<>> = s /\ <<>> \o s = s
<1>1. Ids(<<>>) = {} /\ Ascending(<<>>) /\ \A kind : AtMostOne(<<>>, kind)
  BY DEF Ids, Ascending, AtMostOne
<1>2. \A s \in Seq(Entry) : s \o <<>> = s /\ <<>> \o s = s
  OBVIOUS
<1> QED
  BY <1>1, <1>2, BytesType

\* A submission leases all that is queued.
LEMMA AcquireSound ==
    ASSUME NEW Q \in Seq(Entry), NEW c, NEW b,
           NEW d \in Seq(Nat), NEW A \in SUBSET Entry, NEW n \in Nat, NEW f \in Nat,
           Sound(<<>>, FALSE, Q, c, b, d, A, n, f)
    PROVE  Sound(Q, TRUE, <<>>, c, b, d, A, n, f)
<1>1. InOrder(Q, <<>>, d, n)
  BY NoEntries DEF Sound, InOrder
<1>2. OfConversation(Q, TRUE, <<>>, A, n, f)
  BY NoEntries DEF Sound, OfConversation
<1>3. AllKept(Q, <<>>, d, A)
  BY NoEntries DEF Sound, AllKept
<1>4. Budget(Q, TRUE, <<>>, c, b)
  BY NoEntries DEF Sound, Budget
<1> QED
  BY <1>1, <1>2, <1>3, <1>4, NoEntries DEF Sound

\* The provider takes a batch.
LEMMA CommitSound ==
    ASSUME NEW L \in Seq(Entry), NEW C \in BOOLEAN, NEW Q \in Seq(Entry), NEW c, NEW b,
           NEW d \in Seq(Nat), NEW A \in SUBSET Entry, NEW n \in Nat, NEW f \in Nat,
           Sound(L, C, Q, c, b, d, A, n, f)
    PROVE  /\ d \o Inputs(L) \in Seq(Nat)
           /\ Sound(<<>>, FALSE, Q, IF C THEN c - Len(L) ELSE c,
                    IF C THEN b - Bytes(L) ELSE b, d \o Inputs(L), A, n, f)
<1> DEFINE new == Inputs(L)
           r == d \o new
<1>1. new \in Seq(Nat) /\ Len(new) = Len(L) /\ \A i \in 1..Len(L) : new[i] = L[i].input
  <2>1. \A i \in 1..Len(L) : L[i] \in Entry
    OBVIOUS
  <2>2. \A i \in 1..Len(L) : L[i].input \in Nat
    BY <2>1 DEF Entry
  <2> QED
    BY <2>2 DEF Inputs
<1>2. \A i \in 1..Len(L) : new[i] \in Ids(L)
  BY <1>1 DEF Ids
<1> HIDE DEF new
<1>3. /\ r \in Seq(Nat) /\ Len(r) = Len(d) + Len(L)
      /\ \A i \in 1..Len(d) : i \in 1..Len(r) /\ r[i] = d[i]
      /\ \A j \in 1..Len(L) : Len(d) + j \in 1..Len(r) /\ r[Len(d) + j] = new[j]
      /\ \A i \in 1..Len(r) : \/ i \in 1..Len(d) /\ r[i] = d[i]
                              \/ i - Len(d) \in 1..Len(L) /\ r[i] = new[i - Len(d)]
  <2>1. /\ r \in Seq(Nat) /\ Len(r) = Len(d) + Len(new)
        /\ \A i \in 1..Len(d) : i \in 1..Len(r) /\ r[i] = d[i]
        /\ \A j \in 1..Len(new) : Len(d) + j \in 1..Len(r) /\ r[Len(d) + j] = new[j]
        /\ \A i \in 1..Len(r) : \/ i \in 1..Len(d) /\ r[i] = d[i]
                                \/ i - Len(d) \in 1..Len(new) /\ r[i] = new[i - Len(d)]
    <3>1. new \in Seq(Nat)
      BY <1>1
    <3> QED
      BY <3>1
  <2> HIDE DEF r
  <2> QED
    BY <1>1, <2>1
<1> HIDE DEF r
<1>4. InOrder(<<>>, Q, r, n)
  <2>1. ASSUME NEW i \in 1..Len(r), NEW j \in 1..Len(r), i < j PROVE r[i] < r[j]
    <3>1. CASE j \in 1..Len(d)
      <4>1. i \in 1..Len(d)
        BY <2>1, <3>1
      <4> QED
        BY <1>3, <2>1, <3>1, <4>1 DEF Sound, InOrder
    <3>2. CASE j \notin 1..Len(d) /\ i \in 1..Len(d)
      <4>1. j - Len(d) \in 1..Len(L) /\ r[j] = new[j - Len(d)] /\ r[i] = d[i]
        BY <1>3, <3>2
      <4>2. r[j] \in Ids(L)
        BY <1>2, <4>1
      <4> QED
        BY <3>2, <4>1, <4>2 DEF Sound, InOrder
    <3>3. CASE j \notin 1..Len(d) /\ i \notin 1..Len(d)
      <4>1. /\ j - Len(d) \in 1..Len(L) /\ r[j] = new[j - Len(d)]
            /\ i - Len(d) \in 1..Len(L) /\ r[i] = new[i - Len(d)]
        BY <1>3, <3>3
      <4>2. i - Len(d) < j - Len(d)
        BY <2>1
      <4>3. L[i - Len(d)].input < L[j - Len(d)].input
        BY <4>1, <4>2 DEF Sound, InOrder, Ascending
      <4> QED
        BY <1>1, <4>1, <4>3
    <3> QED
      BY <3>1, <3>2, <3>3
  <2>2. \A i \in 1..Len(r) : r[i] \in Ids(L) \/ \E j \in 1..Len(d) : r[i] = d[j]
    BY <1>2, <1>3
  <2>3. \A i \in 1..Len(r) : r[i] <= n /\ \A x \in Ids(Q) : r[i] < x
    BY <2>2 DEF Sound, InOrder
  <2> QED
    BY <2>1, <2>3, NoEntries DEF Sound, InOrder
<1>5. OfConversation(<<>>, FALSE, Q, A, n, f)
  BY NoEntries DEF Sound, OfConversation
<1>6. AllKept(<<>>, Q, r, A)
  <2> SUFFICES ASSUME NEW e \in A
               PROVE  \/ e.input \in Ids(Q) \cup Ids(<<>>)
                      \/ \E i \in 1..Len(r) : r[i] = e.input
                      \/ e.kind = "mcp" /\ \E g \in A : g.kind = "mcp" /\ g.input > e.input
    BY DEF AllKept
  <2>1. CASE e.input \in Ids(L)
    <3>1. PICK j \in 1..Len(L) : L[j].input = e.input
      BY <2>1 DEF Ids
    <3> QED
      BY <1>1, <1>3, <3>1
  <2>2. CASE \E i \in 1..Len(d) : d[i] = e.input
    BY <1>3, <2>2
  <2>3. CASE e.input \notin Ids(L) /\ ~ \E i \in 1..Len(d) : d[i] = e.input
    BY <2>3 DEF Sound, AllKept
  <2> QED
    BY <2>1, <2>2, <2>3
<1>7. Budget(<<>>, FALSE, Q, IF C THEN c - Len(L) ELSE c, IF C THEN b - Bytes(L) ELSE b)
  <2>1. CASE C
    <3>1. /\ c = Len(L \o Q) /\ Len(L \o Q) = Len(L) + Len(Q) /\ c <= CountLimit
          /\ b = Bytes(L \o Q) /\ Bytes(L \o Q) = Bytes(L) + Bytes(Q) /\ b <= ByteLimit
      BY <2>1, BytesConcat, ConcatFacts DEF Sound, Budget
    <3>2. Bytes(L) \in Nat /\ Bytes(Q) \in Nat
      BY BytesType
    <3>3. c - Len(L) = Len(Q) /\ c - Len(L) <= CountLimit
      BY <3>1, LimitAssumption
    <3>4. b - Bytes(L) = Bytes(Q) /\ b - Bytes(L) <= ByteLimit
      BY <3>1, <3>2, LimitAssumption
    <3> QED
      BY <2>1, <3>3, <3>4 DEF Budget
  <2>2. CASE ~C
    BY <2>2 DEF Sound, Budget
  <2> QED
    BY <2>1, <2>2
<1> QED
  BY <1>3, <1>4, <1>5, <1>6, <1>7, NoEntries DEF Sound, r, new

\* A batch of an earlier conversation is dropped.
LEMMA DropSound ==
    ASSUME NEW L \in Seq(Entry), NEW Q \in Seq(Entry), NEW c, NEW b,
           NEW d \in Seq(Nat), NEW A \in SUBSET Entry, NEW n \in Nat, NEW f \in Nat,
           Sound(L, FALSE, Q, c, b, d, A, n, f)
    PROVE  Sound(<<>>, FALSE, Q, c, b, d, A, n, f)
<1>1. InOrder(<<>>, Q, d, n) /\ OfConversation(<<>>, FALSE, Q, A, n, f)
  BY NoEntries DEF Sound, InOrder, OfConversation
<1>2. \A e \in A : e.input \notin Ids(L)
  <2>1. \A e \in A : e.input \in Nat /\ f < e.input
    BY DEF Sound, OfConversation, Entry
  <2>2. \A x \in Ids(L) : x \in Nat /\ x <= f
    BY IdsType DEF Sound, OfConversation
  <2> QED
    BY <2>1, <2>2
<1>3. AllKept(<<>>, Q, d, A)
  BY <1>2 DEF Sound, AllKept
<1>4. Budget(<<>>, FALSE, Q, c, b)
  BY DEF Sound, Budget
<1> QED
  BY <1>1, <1>3, <1>4, NoEntries DEF Sound

\* A reset forgets what is queued and what was accepted, and makes the lease a
\* lease of an earlier conversation.
LEMMA ClearSound ==
    ASSUME NEW L \in Seq(Entry), NEW C \in BOOLEAN, NEW Q \in Seq(Entry), NEW c, NEW b,
           NEW d \in Seq(Nat), NEW A \in SUBSET Entry, NEW n \in Nat, NEW f \in Nat,
           Sound(L, C, Q, c, b, d, A, n, f)
    PROVE  Sound(L, FALSE, <<>>, 0, 0, d, {}, n, n)
<1>1. InOrder(L, <<>>, d, n) /\ OfConversation(L, FALSE, <<>>, {}, n, n)
  BY NoEntries DEF Sound, InOrder, OfConversation
<1>2. AllKept(L, <<>>, d, {}) /\ Budget(L, FALSE, <<>>, 0, 0)
  BY NoEntries, LimitAssumption DEF AllKept, Budget
<1> QED
  BY <1>1, <1>2, NoEntries DEF Sound

\* A failed submission puts its batch back in front of the queue, without a
\* snapshot that a newer one supersedes: K is what goes back.
LEMMA RequeueSound ==
    ASSUME NEW L \in Seq(Entry), NEW Q \in Seq(Entry), NEW c, NEW b,
           NEW d \in Seq(Nat), NEW A \in SUBSET Entry, NEW n \in Nat, NEW f \in Nat,
           Sound(L, TRUE, Q, c, b, d, A, n, f),
           NEW K \in Seq(Entry), NEW c0, NEW b0,
           Ascending(K), AtMostOne(K, "mcp"),
           \A j \in 1..Len(K) : \E i \in 1..Len(L) : K[j] = L[i],
           \A i \in 1..Len(L) :
                \/ \E j \in 1..Len(K) : K[j] = L[i]
                \/ L[i].kind = "mcp" /\ \E k \in 1..Len(Q) : Q[k].kind = "mcp",
           \/ \A j \in 1..Len(K) : K[j].kind # "mcp"
           \/ \A k \in 1..Len(Q) : Q[k].kind # "mcp",
           c0 = Len(K) + Len(Q), c0 <= CountLimit,
           b0 = Bytes(K) + Bytes(Q), b0 <= ByteLimit
    PROVE  Sound(<<>>, FALSE, K \o Q, c0, b0, d, A, n, f)
<1> DEFINE R == K \o Q
<1>1. R \in Seq(Entry) /\ Ids(R) = Ids(K) \cup Ids(Q)
  BY ConcatFacts, ConcatIds
<1>2. Ids(K) \subseteq Ids(L)
  BY IdsPart
<1>3. InOrder(<<>>, R, d, n)
  <2>1. Ascending(R)
    BY <1>2, ConcatAscending DEF Sound, InOrder
  <2> HIDE DEF R
  <2> QED
    BY <1>1, <1>2, <2>1, NoEntries DEF Sound, InOrder
<1>4. OfConversation(<<>>, FALSE, R, A, n, f)
  <2>1. ASSUME NEW i \in 1..Len(R) PROVE R[i] \in A
    <3>1. CASE i \in 1..Len(K) /\ R[i] = K[i]
      BY <3>1 DEF Sound, OfConversation
    <3>2. CASE i - Len(K) \in 1..Len(Q) /\ R[i] = Q[i - Len(K)]
      BY <3>2 DEF Sound, OfConversation
    <3> QED
      BY <3>1, <3>2, ConcatFacts
  <2> HIDE DEF R
  <2> QED
    BY <2>1, NoEntries DEF Sound, OfConversation
<1>5. AtMostOne(R, "mcp")
  BY ConcatAtMostOne DEF Sound
<1>6. AllKept(<<>>, R, d, A)
  <2> SUFFICES ASSUME NEW e \in A
               PROVE  \/ e.input \in Ids(R) \cup Ids(<<>>)
                      \/ \E i \in 1..Len(d) : d[i] = e.input
                      \/ e.kind = "mcp" /\ \E g \in A : g.kind = "mcp" /\ g.input > e.input
    BY DEF AllKept
  <2> HIDE DEF R
  <2>1. CASE e.input \in Ids(L)
    <3>1. PICK i \in 1..Len(L) : L[i].input = e.input
      BY <2>1 DEF Ids
    <3>2. L[i] = e
      BY <3>1 DEF Sound, OfConversation
    <3>3. CASE \E j \in 1..Len(K) : K[j] = L[i]
      <4>1. PICK j \in 1..Len(K) : K[j] = L[i]
        BY <3>3
      <4>2. K[j].input \in Ids(K)
        BY DEF Ids
      <4> QED
        BY <1>1, <3>1, <4>1, <4>2
    <3>4. CASE L[i].kind = "mcp" /\ \E k \in 1..Len(Q) : Q[k].kind = "mcp"
      <4>1. PICK k \in 1..Len(Q) : Q[k].kind = "mcp"
        BY <3>4
      <4>2. Q[k] \in A /\ Q[k].input \in Ids(Q)
        BY DEF Sound, OfConversation, Ids
      <4>3. e.input < Q[k].input
        BY <2>1, <4>2 DEF Sound, InOrder
      <4>4. e.input \in Nat /\ Q[k].input \in Nat
        BY <4>2 DEF Entry
      <4>5. Q[k].input > e.input
        BY <4>3, <4>4
      <4> QED
        BY <3>2, <3>4, <4>1, <4>2, <4>5
    <3> QED
      BY <3>3, <3>4
  <2>2. CASE e.input \notin Ids(L)
    BY <1>1, <2>2 DEF Sound, AllKept
  <2> QED
    BY <2>1, <2>2
<1>7. Budget(<<>>, FALSE, R, c0, b0)
  <2>1. Len(R) = Len(K) + Len(Q) /\ Bytes(R) = Bytes(K) + Bytes(Q)
    BY ConcatFacts, BytesConcat
  <2> HIDE DEF R
  <2> QED
    BY <2>1 DEF Budget
<1> QED
  BY <1>3, <1>4, <1>5, <1>6, <1>7, NoEntries DEF Sound

\* What OfKind and NotOfKind do with a sequence.
LEMMA KindSplit ==
    ASSUME NEW s \in Seq(Entry), NEW kind
    PROVE  LET of == OfKind(s, kind)  rest == NotOfKind(s, kind)
           IN  /\ of \in Seq(Entry) /\ rest \in Seq(Entry)
               /\ Len(rest) + Len(of) = Len(s) /\ Bytes(rest) + Bytes(of) = Bytes(s)
               /\ Ascending(s) => Ascending(rest)
               /\ \A j \in 1..Len(rest) : rest[j].kind # kind
               /\ \A j \in 1..Len(rest) : \E i \in 1..Len(s) : rest[j] = s[i]
               /\ \A i \in 1..Len(s) : \/ \E j \in 1..Len(rest) : rest[j] = s[i]
                                       \/ s[i].kind = kind
<1> DEFINE O == {i \in 1..Len(s) : s[i].kind = kind}
           N == {i \in 1..Len(s) : s[i].kind # kind}
<1>1. \A i \in 1..Len(s) : i \in N <=> i \notin O
  OBVIOUS
<1>2. OfKind(s, kind) = Selected(s, O) /\ NotOfKind(s, kind) = Selected(s, N)
  BY DEF OfKind, NotOfKind
<1>3. \A i \in N : s[i].kind # kind
  OBVIOUS
<1>4. \A i \in 1..Len(s) : i \in N \/ s[i].kind = kind
  OBVIOUS
<1> HIDE DEF O, N
<1>5. /\ Len(Selected(s, N)) + Len(Selected(s, O)) = Len(s)
      /\ Bytes(Selected(s, N)) + Bytes(Selected(s, O)) = Bytes(s)
  BY <1>1, SelectedSplit
<1>6. /\ Selected(s, N) \in Seq(Entry)
      /\ \A j \in 1..Len(Selected(s, N)) :
            \E i \in 1..Len(s) : i \in N /\ Selected(s, N)[j] = s[i]
      /\ \A i \in 1..Len(s) : i \in N =>
            \E j \in 1..Len(Selected(s, N)) : Selected(s, N)[j] = s[i]
      /\ Ascending(s) => Ascending(Selected(s, N))
      /\ Selected(s, O) \in Seq(Entry)
  BY SelectedFacts
<1> DEFINE rest == Selected(s, N)
<1> HIDE DEF rest
<1>7. \A j \in 1..Len(rest) : rest[j].kind # kind /\ \E i \in 1..Len(s) : rest[j] = s[i]
  BY <1>3, <1>6 DEF rest
<1>8. \A i \in 1..Len(s) : (\E j \in 1..Len(rest) : rest[j] = s[i]) \/ s[i].kind = kind
  BY <1>4, <1>6 DEF rest
<1> QED
  BY <1>2, <1>5, <1>6, <1>7, <1>8 DEF rest

-----------------------------------------------------------------------------
(* The steps of the pending queue                                          *)

\* The queue of pending inputs defers nothing, so nothing is promoted.
LEMMA NothingPromoted ==
    ASSUME NEW q \in QueueState, q.deferred = <<>>
    PROVE  Promoted(q) = q
<1>1. {0} \cup {n \in 1..Len(q.deferred) : Fits(q, Take(q.deferred, n))} = {0}
  OBVIOUS
<1>a. (CHOOSE most \in {0} : \A m \in {0} : m <= most) = 0
  OBVIOUS
<1> DEFINE woken == [i \in 1..0 |-> [q.deferred[i] EXCEPT !.wake = TRUE]]
<1>2. Promoted(q) = [Appended(q, woken) EXCEPT !.deferred = Drop(@, 0)]
  BY <1>1, <1>a DEF Promoted
<1>3. woken = <<>>
  OBVIOUS
<1>4. q.entries \in Seq(Entry) /\ q.bytes \in Nat /\ q.count \in Nat
  BY DEF QueueState
<1>5. /\ q.entries \o <<>> = q.entries
      /\ q.count + Len(<<>>) = q.count /\ q.bytes + Bytes(<<>>) = q.bytes
  BY <1>4, NoEntries
<1>6. Appended(q, <<>>) = q
  <2>1. Appended(q, <<>>) = [q EXCEPT !.entries = q.entries, !.count = q.count, !.bytes = q.bytes]
    BY <1>5, Zenon DEF Appended
  <2> QED
    BY <2>1 DEF QueueState
<1>7. Drop(q.deferred, 0) = <<>>
  BY DEF Drop
<1> QED
  BY <1>2, <1>3, <1>6, <1>7 DEF QueueState

\* Who holds the one lease.
LEMMA LeaseView ==
    ASSUME PendingTypeOK, OneBatch
    PROVE  /\ Leased \in Seq(Entry)
           /\ Holders = {} => Leased = <<>> /\ Current = {}
           /\ \A s \in Holders : /\ Leased = batch[s][1].entries
                                 /\ Current # {} <=> batch[s][1].epoch = queue.epoch
<1>1. CASE Holders = {}
  BY <1>1, NoEntries DEF Leased, Current
<1>2. ASSUME NEW s \in Holders
      PROVE  /\ Leased = batch[s][1].entries /\ Leased \in Seq(Entry)
             /\ Current # {} <=> batch[s][1].epoch = queue.epoch
  <2>1. Holders = {s}
    BY <1>2 DEF OneBatch
  <2>2. Leased = batch[s][1].entries
    BY <2>1 DEF Leased
  <2>3. batch[s] \in Seq(Batch) /\ Len(batch[s]) = 1
    BY <1>2 DEF PendingTypeOK, Holders
  <2>4. batch[s][1] \in Batch
    BY <2>3
  <2>5. Current # {} <=> batch[s][1].epoch = queue.epoch
    BY <2>1 DEF Current
  <2> QED
    BY <2>2, <2>4, <2>5 DEF Batch
<1> QED
  BY <1>1, <1>2

\* The same after a step.
LEMMA LeaseViewNext ==
    ASSUME PendingTypeOK', OneBatch'
    PROVE  /\ Holders' = {} => Leased' = <<>> /\ Current' = {}
           /\ \A s \in Holders' : /\ Leased' = batch'[s][1].entries
                                  /\ Current' # {} <=> batch'[s][1].epoch = queue'.epoch
<1>1. CASE Holders' = {}
  BY <1>1 DEF Leased, Current
<1>2. ASSUME NEW s \in Holders'
      PROVE  /\ Leased' = batch'[s][1].entries
             /\ Current' # {} <=> batch'[s][1].epoch = queue'.epoch
  <2>1. Holders' = {s}
    BY <1>2 DEF OneBatch
  <2>2. Leased' = batch'[s][1].entries
    BY <2>1 DEF Leased
  <2>3. Current' # {} <=> batch'[s][1].epoch = queue'.epoch
    BY <2>1 DEF Current
  <2> QED
    BY <2>2, <2>3
<1> QED
  BY <1>1, <1>2

\* An offer that changes only what it must leaves the lease as it is.
LEMMA OfferLease ==
    ASSUME PendingInvariant, UNCHANGED batch, queue'.epoch = queue.epoch
    PROVE  Leased' = Leased /\ (Current # {})' = (Current # {}) /\ Holders' = Holders
BY DEF Leased, Current, Holders

\* The queue admits an entry: what remains of the queue, and the entry.
LEMMA AdmitStep ==
    ASSUME PendingInvariant, OneBatch', UNCHANGED <<batch, delivered, floor>>,
           NEW e \in Entry, e.input = next + 1,
           NEW Q0 \in Seq(Entry), NEW c0 \in Nat, NEW b0 \in Nat,
           Ascending(Q0), AtMostOne(Q0, "mcp"),
           \A j \in 1..Len(Q0) : \E i \in 1..Len(queue.entries) : Q0[j] = queue.entries[i],
           \A i \in 1..Len(queue.entries) :
                \/ \E j \in 1..Len(Q0) : Q0[j] = queue.entries[i]
                \/ queue.entries[i].kind = "mcp" /\ e.kind = "mcp",
           e.kind = "mcp" => \A j \in 1..Len(Q0) : Q0[j].kind # "mcp",
           Budget(Leased, Current # {}, Q0, c0, b0),
           c0 + 1 <= CountLimit, b0 + e.bytes <= ByteLimit,
           queue' \in QueueState, queue'.deferred = <<>>, queue'.epoch = queue.epoch,
           queue'.entries = Q0 \o <<e>>, queue'.count = c0 + 1, queue'.bytes = b0 + e.bytes,
           next' = next + 1, accepted' = accepted \cup {e}
    PROVE  PendingInvariant'
<1>1. PendingTypeOK /\ OneBatch
  BY DEF PendingInvariant
<1>5. PendingTypeOK'
  <2>1. accepted' \subseteq Entry
    BY <1>1 DEF PendingTypeOK
  <2>2. next' \in Nat /\ floor' \in Nat /\ floor' <= next'
    BY <1>1 DEF PendingTypeOK
  <2>3. /\ batch' \in [Submitters -> Seq(Batch)]
        /\ \A s \in Submitters : batch'[s] = <<>> \/ Len(batch'[s]) = 1
        /\ delivered' \in Seq(Nat)
    BY <1>1 DEF PendingTypeOK
  <2> QED
    BY <2>1, <2>2, <2>3 DEF PendingTypeOK
<1>6. Leased' = Leased /\ (Current # {})' = (Current # {}) /\ Holders' = Holders
  BY OfferLease
<1>7. Leased \in Seq(Entry) /\ queue.entries \in Seq(Entry)
  BY <1>1, LeaseView DEF PendingTypeOK, QueueState
<1>8. Sound(Leased, Current # {}, queue.entries, queue.count, queue.bytes,
            delivered, accepted, next, floor)
  BY DEF PendingInvariant
<1>9. Sound(Leased, Current # {}, Q0 \o <<e>>, c0 + 1, b0 + e.bytes,
            delivered, accepted \cup {e}, next + 1, floor)
  <2>1. (Current # {}) \in BOOLEAN
    OBVIOUS
  <2>2. delivered \in Seq(Nat) /\ accepted \in SUBSET Entry
        /\ next \in Nat /\ floor \in Nat /\ floor <= next
    BY <1>1 DEF PendingTypeOK
  <2> QED
    BY <1>7, <1>8, <2>1, <2>2, AppendSound
<1>10. Sound(Leased, Current # {}, queue.entries, queue.count, queue.bytes,
             delivered, accepted, next, floor)'
  BY <1>6, <1>9
<1>11. \A s \in Holders' : batch'[s][1].epoch <= queue'.epoch
  BY <1>6 DEF PendingInvariant
<1> QED
  BY <1>5, <1>10, <1>11 DEF PendingInvariant

\* The queue rejects an entry.
LEMMA RejectStep ==
    ASSUME PendingInvariant, OneBatch', UNCHANGED <<batch, delivered, floor, accepted>>,
           queue' = queue \/ queue' = [queue EXCEPT !.omitted = TRUE], next' = next + 1
    PROVE  PendingInvariant'
<1>1. PendingTypeOK /\ OneBatch
  BY DEF PendingInvariant
<1>4. /\ queue' \in QueueState /\ queue'.deferred = <<>> /\ queue'.epoch = queue.epoch
      /\ queue'.entries = queue.entries /\ queue'.count = queue.count
      /\ queue'.bytes = queue.bytes
  BY <1>1 DEF PendingTypeOK, QueueState
<1>5. PendingTypeOK'
  BY <1>1, <1>4 DEF PendingTypeOK
<1>6. Leased' = Leased /\ (Current # {})' = (Current # {}) /\ Holders' = Holders
  BY <1>4, OfferLease
<1>7. Leased \in Seq(Entry) /\ queue.entries \in Seq(Entry)
  BY <1>1, LeaseView DEF PendingTypeOK, QueueState
<1>8. Sound(Leased, Current # {}, queue.entries, queue.count, queue.bytes,
            delivered, accepted, next, floor)
  BY DEF PendingInvariant
<1>9. Sound(Leased, Current # {}, queue.entries, queue.count, queue.bytes,
            delivered, accepted, next + 1, floor)
  <2>1. (Current # {}) \in BOOLEAN
    OBVIOUS
  <2>2. /\ delivered \in Seq(Nat) /\ accepted \in SUBSET Entry
        /\ next \in Nat /\ floor \in Nat
    BY <1>1 DEF PendingTypeOK
  <2> QED
    BY <1>7, <1>8, <2>1, <2>2, RejectSound
<1>10. Sound(Leased, Current # {}, queue.entries, queue.count, queue.bytes,
             delivered, accepted, next, floor)'
  BY <1>4, <1>6, <1>9
<1>11. \A s \in Holders' : batch'[s][1].epoch <= queue'.epoch
  BY <1>4, <1>6 DEF PendingInvariant
<1> QED
  BY <1>5, <1>10, <1>11 DEF PendingInvariant

\* What appendEntries does with one entry.
LEMMA AppendedOne ==
    ASSUME NEW q \in QueueState, NEW e \in Entry, NEW r, r = Appended(q, <<e>>)
    PROVE  /\ r \in QueueState /\ r.deferred = q.deferred /\ r.epoch = q.epoch
           /\ r.entries = q.entries \o <<e>>
           /\ r.count = q.count + 1 /\ r.bytes = q.bytes + e.bytes
           /\ e.input \in Ids(r.entries)
<1>1. Bytes(<<e>>) = e.bytes /\ e.bytes \in Nat /\ Len(<<e>>) = 1
  BY BytesType DEF Entry
<1>2. q.entries \in Seq(Entry) /\ q.count \in Nat /\ q.bytes \in Nat
  BY DEF QueueState
<1>3. r = [q EXCEPT !.entries = q.entries \o <<e>>, !.count = q.count + 1,
                    !.bytes = q.bytes + e.bytes]
  BY <1>1 DEF Appended
<1>4. <<e>> \in Seq(Entry) /\ <<e>>[1] = e /\ 1 \in 1..Len(<<e>>)
  OBVIOUS
<1>5. q.entries \o <<e>> \in Seq(Entry) /\ q.count + 1 \in Nat /\ q.bytes + e.bytes \in Nat
  BY <1>1, <1>2, <1>4
<1>6. e.input \in Ids(<<e>>)
  BY <1>4 DEF Ids
<1>7. e.input \in Ids(q.entries \o <<e>>)
  BY <1>2, <1>4, <1>6, ConcatIds
<1>8. /\ r \in QueueState /\ r.deferred = q.deferred /\ r.epoch = q.epoch
      /\ r.entries = q.entries \o <<e>>
      /\ r.count = q.count + 1 /\ r.bytes = q.bytes + e.bytes
  <2>1. PICK E \in Seq(Entry), c \in Nat, b \in Nat :
            E = q.entries \o <<e>> /\ c = q.count + 1 /\ b = q.bytes + e.bytes
    BY <1>5
  <2>2. r = [q EXCEPT !.entries = E, !.count = c, !.bytes = b]
    BY <1>3, <2>1
  <2>3. /\ r \in QueueState /\ r.deferred = q.deferred /\ r.epoch = q.epoch
        /\ r.entries = E /\ r.count = c /\ r.bytes = b
    BY <2>2 DEF QueueState
  <2> QED
    BY <2>1, <2>3
<1> QED
  BY <1>7, <1>8

\* The next input is new to the queue.
LEMMA NextIsNew ==
    ASSUME PendingInvariant
    PROVE  next + 1 \notin Ids(queue.entries)
<1>1. next \in Nat /\ \A x \in Ids(queue.entries) : x <= next
  BY DEF PendingInvariant, PendingTypeOK, Sound, InOrder
<1>2. \A x \in Ids(queue.entries) : x \in Nat
  BY IdsType DEF PendingInvariant, PendingTypeOK, QueueState
<1> QED
  BY <1>1, <1>2

\* enqueuePendingInput
LEMMA InputStep ==
    ASSUME PendingInvariant, OneBatch', NEW n \in Sizes, EnqueuePendingInput(n)
    PROVE  PendingInvariant'
<1> DEFINE e == InputEntry(next + 1, n, "none")
<1>1. PendingTypeOK /\ OneBatch /\ queue \in QueueState /\ queue.deferred = <<>>
  BY DEF PendingInvariant, PendingTypeOK
<1>2. e \in Entry /\ e.input = next + 1 /\ e.bytes = n /\ e.kind = "none"
  BY <1>1, SizeAssumption DEF InputEntry, Entry, PendingTypeOK
<1>3. Offer(e, EnqueueInput(queue, e))
  BY DEF EnqueuePendingInput
<1> HIDE DEF e
<1>4. /\ next' = next + 1 /\ queue' = EnqueueInput(queue, e)
      /\ accepted' = IF e.input \in Ids(queue'.entries) THEN accepted \cup {e} ELSE accepted
      /\ UNCHANGED <<batch, delivered, floor>>
  BY <1>3 DEF Offer
<1>5. CASE Fits(queue, <<e>>)
  <2>1. queue' = Appended(queue, <<e>>)
    BY <1>4, <1>5 DEF EnqueueInput
  <2>2. /\ queue' \in QueueState /\ queue'.deferred = <<>> /\ queue'.epoch = queue.epoch
        /\ queue'.entries = queue.entries \o <<e>>
        /\ queue'.count = queue.count + 1 /\ queue'.bytes = queue.bytes + e.bytes
        /\ e.input \in Ids(queue'.entries)
    BY <1>1, <1>2, <2>1, AppendedOne
  <2>3. accepted' = accepted \cup {e}
    BY <1>4, <2>2
  <2>4. queue.entries \in Seq(Entry) /\ queue.count \in Nat /\ queue.bytes \in Nat
    BY <1>1 DEF QueueState
  <2>5. /\ Ascending(queue.entries) /\ AtMostOne(queue.entries, "mcp")
        /\ Budget(Leased, Current # {}, queue.entries, queue.count, queue.bytes)
    BY DEF PendingInvariant, Sound, InOrder
  <2>6. Bytes(<<e>>) = e.bytes /\ Len(<<e>>) = 1
    BY <1>2, BytesType
  <2>7. queue.count + 1 <= CountLimit /\ queue.bytes + e.bytes <= ByteLimit
    BY <1>5, <2>6 DEF Fits
  <2> QED
    BY <1>2, <1>4, <2>2, <2>3, <2>4, <2>5, <2>7, AdmitStep
<1>6. CASE ~Fits(queue, <<e>>)
  <2>1. queue' = queue
    BY <1>4, <1>6 DEF EnqueueInput
  <2>2. accepted' = accepted
    BY <1>2, <1>4, <2>1, NextIsNew
  <2> QED
    BY <1>4, <2>1, <2>2, RejectStep
<1> QED
  BY <1>5, <1>6

\* removeNotice takes the queued snapshot out, with its share of the budget.
LEMMA SnapshotRemoved ==
    ASSUME PendingInvariant, NEW r, r = RemoveNotice(queue, "mcp")
    PROVE  /\ r \in QueueState /\ r.deferred = <<>> /\ r.epoch = queue.epoch
           /\ r.entries = NotOfKind(queue.entries, "mcp")
           /\ Budget(Leased, Current # {}, r.entries, r.count, r.bytes)
<1> DEFINE Q == queue.entries
           of == OfKind(Q, "mcp")
           rest == NotOfKind(Q, "mcp")
<1>1. /\ queue \in QueueState /\ queue.deferred = <<>> /\ Q \in Seq(Entry)
      /\ queue.count \in Nat /\ queue.bytes \in Nat /\ Leased \in Seq(Entry)
  BY LeaseView DEF PendingInvariant, PendingTypeOK, QueueState
<1>2. /\ of \in Seq(Entry) /\ rest \in Seq(Entry)
      /\ Len(rest) + Len(of) = Len(Q) /\ Bytes(rest) + Bytes(of) = Bytes(Q)
  BY <1>1, KindSplit
<1>3. r = [queue EXCEPT !.entries = rest, !.count = queue.count - Len(of),
                        !.bytes = Clamped(queue.bytes - Bytes(of))]
  BY DEF RemoveNotice
<1> HIDE DEF of, rest
<1>4. Bytes(of) \in Nat /\ Bytes(rest) \in Nat /\ Bytes(Leased) \in Nat
  BY <1>1, <1>2, BytesType
<1>5. PICK u \in Nat, v \in Nat, w \in Nat : u = Len(of) /\ v = Len(rest) /\ w = Len(Leased)
  BY <1>1, <1>2
<1>6. v + u = Len(Q)
  BY <1>2, <1>5
<1>7. Budget(Leased, Current # {}, Q, queue.count, queue.bytes)
  BY DEF PendingInvariant, Sound
<1>8. /\ queue.count - u \in Nat /\ queue.bytes - Bytes(of) \in Nat
      /\ Budget(Leased, Current # {}, rest, queue.count - u, queue.bytes - Bytes(of))
  <2>1. CASE Current # {}
    <3>1. /\ queue.count = Len(Leased \o Q) /\ Len(Leased \o Q) = Len(Leased) + Len(Q)
          /\ queue.bytes = Bytes(Leased \o Q) /\ Bytes(Leased \o Q) = Bytes(Leased) + Bytes(Q)
          /\ queue.count <= CountLimit /\ queue.bytes <= ByteLimit
      BY <1>1, <1>7, <2>1, ConcatFacts, BytesConcat DEF Budget
    <3>2. Len(Leased \o rest) = w + v /\ Bytes(Leased \o rest) = Bytes(Leased) + Bytes(rest)
      BY <1>1, <1>2, <1>5, ConcatFacts, BytesConcat
    <3>3. queue.count = w + (v + u)
      BY <1>5, <1>6, <3>1
    <3>4. queue.count - u = w + v /\ queue.count - u <= CountLimit
      BY <3>1, <3>3, LimitAssumption
    <3>5. /\ queue.bytes - Bytes(of) = Bytes(Leased) + Bytes(rest)
          /\ queue.bytes - Bytes(of) <= ByteLimit
      BY <1>2, <1>4, <3>1, LimitAssumption
    <3>6. queue.count - u \in Nat /\ queue.bytes - Bytes(of) \in Nat
      BY <1>4, <3>4, <3>5
    <3> QED
      BY <2>1, <3>2, <3>4, <3>5, <3>6 DEF Budget
  <2>2. CASE ~(Current # {})
    <3>1. /\ queue.count = Len(Q) /\ queue.bytes = Bytes(Q)
          /\ queue.count <= CountLimit /\ queue.bytes <= ByteLimit
      BY <1>7, <2>2 DEF Budget
    <3>2. queue.count = v + u
      BY <1>6, <3>1
    <3>3. queue.count - u = v /\ queue.count - u <= CountLimit
      BY <3>1, <3>2, LimitAssumption
    <3>4. queue.bytes - Bytes(of) = Bytes(rest) /\ queue.bytes - Bytes(of) <= ByteLimit
      BY <1>2, <1>4, <3>1, LimitAssumption
    <3> QED
      BY <1>4, <1>5, <2>2, <3>3, <3>4 DEF Budget
  <2> QED
    BY <2>1, <2>2
<1>9. Clamped(queue.bytes - Bytes(of)) = queue.bytes - Bytes(of)
  BY <1>8 DEF Clamped
<1>10. PICK c \in Nat, b \in Nat : c = queue.count - u /\ b = queue.bytes - Bytes(of)
  BY <1>8
<1>11. r = [queue EXCEPT !.entries = rest, !.count = c, !.bytes = b]
  BY <1>3, <1>5, <1>9, <1>10
<1>12. /\ r \in QueueState /\ r.deferred = queue.deferred /\ r.epoch = queue.epoch
       /\ r.entries = rest /\ r.count = c /\ r.bytes = b
  BY <1>1, <1>2, <1>11 DEF QueueState
<1> QED
  BY <1>1, <1>8, <1>10, <1>12 DEF rest

\* The queue with the room a notice needs takes it.
LEMMA RoomStep ==
    ASSUME PendingInvariant, OneBatch', UNCHANGED <<batch, delivered, floor>>,
           NEW e \in Entry, e.input = next + 1, next' = next + 1,
           NEW room \in QueueState, room.deferred = <<>>, room.epoch = queue.epoch,
           \/ room = queue /\ e.kind # "mcp"
           \/ room.entries = NotOfKind(queue.entries, "mcp"),
           Budget(Leased, Current # {}, room.entries, room.count, room.bytes),
           Fits(room, <<e>>), queue' = Appended(room, <<e>>),
           accepted' = IF e.input \in Ids(queue'.entries) THEN accepted \cup {e} ELSE accepted,
           e.kind # "mcp" => room = queue
    PROVE  PendingInvariant'
<1> DEFINE Q == queue.entries
           Q0 == room.entries
<1>1. Q \in Seq(Entry) /\ Ascending(Q) /\ AtMostOne(Q, "mcp")
  BY DEF PendingInvariant, PendingTypeOK, QueueState, Sound, InOrder
<1>2. Q0 \in Seq(Entry) /\ room.count \in Nat /\ room.bytes \in Nat
  BY DEF QueueState
<1>3. /\ queue' \in QueueState /\ queue'.deferred = <<>> /\ queue'.epoch = queue.epoch
      /\ queue'.entries = Q0 \o <<e>>
      /\ queue'.count = room.count + 1 /\ queue'.bytes = room.bytes + e.bytes
      /\ e.input \in Ids(queue'.entries)
  BY AppendedOne
<1>4. accepted' = accepted \cup {e}
  BY <1>3
<1>5. Bytes(<<e>>) = e.bytes /\ Len(<<e>>) = 1
  BY BytesType
<1>6. room.count + 1 <= CountLimit /\ room.bytes + e.bytes <= ByteLimit
  BY <1>5 DEF Fits
<1>7. /\ Ascending(Q0) /\ AtMostOne(Q0, "mcp")
      /\ \A j \in 1..Len(Q0) : \E i \in 1..Len(Q) : Q0[j] = Q[i]
      /\ \A i \in 1..Len(Q) : \/ \E j \in 1..Len(Q0) : Q0[j] = Q[i]
                              \/ Q[i].kind = "mcp" /\ e.kind = "mcp"
      /\ e.kind = "mcp" => \A j \in 1..Len(Q0) : Q0[j].kind # "mcp"
  <2>1. CASE room = queue /\ e.kind # "mcp"
    BY <1>1, <2>1
  <2>2. CASE Q0 = NotOfKind(Q, "mcp") /\ e.kind = "mcp"
    <3> HIDE DEF Q, Q0
    <3> DEFINE rest == NotOfKind(Q, "mcp")
    <3>3. /\ Ascending(Q) => Ascending(rest)
          /\ \A j \in 1..Len(rest) : rest[j].kind # "mcp"
          /\ \A j \in 1..Len(rest) : \E i \in 1..Len(Q) : rest[j] = Q[i]
          /\ \A i \in 1..Len(Q) : \/ \E j \in 1..Len(rest) : rest[j] = Q[i]
                                  \/ Q[i].kind = "mcp"
      BY <1>1, KindSplit
    <3> HIDE DEF rest
    <3>4. Q0 = rest
      BY <2>2 DEF rest
    <3>1. /\ Ascending(Q0)
          /\ \A j \in 1..Len(Q0) : Q0[j].kind # "mcp"
          /\ \A j \in 1..Len(Q0) : \E i \in 1..Len(Q) : Q0[j] = Q[i]
          /\ \A i \in 1..Len(Q) : (\E j \in 1..Len(Q0) : Q0[j] = Q[i]) \/ Q[i].kind = "mcp"
      BY <1>1, <3>3, <3>4
    <3>2. AtMostOne(Q0, "mcp")
      BY <3>1 DEF AtMostOne
    <3> QED
      BY <2>2, <3>1, <3>2
  <2> QED
    BY <2>1, <2>2
<1> QED
  BY <1>2, <1>3, <1>4, <1>6, <1>7, AdmitStep

\* enqueuePendingNotice
LEMMA NoticeStep ==
    ASSUME PendingInvariant, OneBatch', NEW n \in Sizes, NEW kind \in {"mcp", "subagent"},
           EnqueuePendingNotice(kind, n)
    PROVE  PendingInvariant'
<1> DEFINE e == InputEntry(next + 1, n, kind)
           room == IF e.kind = "mcp" THEN RemoveNotice(queue, "mcp") ELSE queue
<1>1. PendingTypeOK /\ OneBatch /\ queue \in QueueState /\ queue.deferred = <<>>
  BY DEF PendingInvariant, PendingTypeOK
<1>2. e \in Entry /\ e.input = next + 1 /\ e.kind = kind
  BY <1>1, SizeAssumption DEF InputEntry, Entry, PendingTypeOK
<1>3. Offer(e, EnqueueNotice(queue, e))
  BY DEF EnqueuePendingNotice
<1> HIDE DEF e
<1>4. /\ next' = next + 1 /\ queue' = EnqueueNotice(queue, e)
      /\ accepted' = IF e.input \in Ids(queue'.entries) THEN accepted \cup {e} ELSE accepted
      /\ UNCHANGED <<batch, delivered, floor>>
  BY <1>3 DEF Offer
<1>5. CASE Fits(room, <<e>>)
  <2>1. queue' = Appended(room, <<e>>)
    BY <1>4, <1>5 DEF EnqueueNotice
  <2>2. CASE e.kind = "mcp"
    <3>1. room = RemoveNotice(queue, "mcp")
      BY <2>2
    <3> HIDE DEF room
    <3>2. /\ room \in QueueState /\ room.deferred = <<>> /\ room.epoch = queue.epoch
          /\ room.entries = NotOfKind(queue.entries, "mcp")
          /\ Budget(Leased, Current # {}, room.entries, room.count, room.bytes)
      BY <3>1, SnapshotRemoved
    <3> QED
      BY <1>2, <1>4, <1>5, <2>1, <2>2, <3>2, RoomStep
  <2>3. CASE e.kind # "mcp"
    <3>1. room = queue
      BY <2>3
    <3> HIDE DEF room
    <3>2. Budget(Leased, Current # {}, queue.entries, queue.count, queue.bytes)
      BY DEF PendingInvariant, Sound
    <3> QED
      BY <1>1, <1>2, <1>4, <1>5, <2>1, <2>3, <3>1, <3>2, RoomStep
  <2> QED
    BY <2>2, <2>3
<1>6. CASE ~Fits(room, <<e>>)
  <2>1. queue' = [queue EXCEPT !.omitted = TRUE]
    BY <1>4, <1>6 DEF EnqueueNotice
  <2>2. queue'.entries = queue.entries
    BY <1>1, <2>1 DEF QueueState
  <2>3. accepted' = accepted
    BY <1>2, <1>4, <2>2, NextIsNew
  <2> QED
    BY <1>4, <2>1, <2>3, RejectStep
<1> QED
  BY <1>5, <1>6

\* withPendingInputBatch, acquire
LEMMA AcquireStep ==
    ASSUME PendingInvariant, OneBatch', NEW s \in Submitters, Acquire(s)
    PROVE  PendingInvariant'
<1> DEFINE new == [epoch |-> queue.epoch, entries |-> queue.entries]
<1>1. /\ PendingTypeOK /\ OneBatch /\ queue \in QueueState /\ queue.deferred = <<>>
      /\ queue.entries \in Seq(Entry) /\ queue.epoch \in Nat
  BY DEF PendingInvariant, PendingTypeOK, QueueState
<1>2. /\ batch[s] = <<>> /\ Holders = {} /\ batch' = [batch EXCEPT ![s] = <<new>>]
      /\ UNCHANGED <<next, delivered, accepted, floor>>
  BY <1>1 DEF Acquire, OneBatch
<1>3. /\ queue' \in QueueState /\ queue'.deferred = <<>> /\ queue'.epoch = queue.epoch
      /\ queue'.entries = <<>> /\ queue'.count = queue.count /\ queue'.bytes = queue.bytes
  <2>1. PICK E \in Seq(Entry) : E = <<>>
    BY NoEntries
  <2>2. queue' = [[queue EXCEPT !.entries = E, !.omitted = FALSE] EXCEPT !.active = TRUE]
    BY <2>1 DEF Acquire, Drain
  <2>3. /\ queue' \in QueueState /\ queue'.deferred = queue.deferred
        /\ queue'.epoch = queue.epoch /\ queue'.entries = E
        /\ queue'.count = queue.count /\ queue'.bytes = queue.bytes
    BY <1>1, <2>2 DEF QueueState
  <2> QED
    BY <1>1, <2>1, <2>3
<1>4. new \in Batch /\ new.epoch = queue.epoch /\ new.entries = queue.entries
  BY <1>1 DEF Batch
<1> HIDE DEF new
<1>5. /\ batch' \in [Submitters -> Seq(Batch)] /\ batch'[s] = <<new>> /\ batch'[s][1] = new
      /\ \A t \in Submitters : batch'[t] = <<>> \/ Len(batch'[t]) = 1
      /\ Holders' = {s}
  <2>1. batch \in [Submitters -> Seq(Batch)] /\ \A t \in Submitters : batch[t] = <<>>
    BY <1>1, <1>2 DEF PendingTypeOK, Holders
  <2>6. <<new>> \in Seq(Batch) /\ Len(<<new>>) = 1 /\ <<new>>[1] = new /\ <<new>> # <<>>
    BY <1>4
  <2>2. PICK N \in Seq(Batch) : N = <<new>> /\ Len(N) = 1 /\ N[1] = new /\ N # <<>>
    BY <2>6
  <2>3. batch' = [batch EXCEPT ![s] = N]
    BY <1>2, <2>2
  <2>4. /\ batch' \in [Submitters -> Seq(Batch)] /\ batch'[s] = N
        /\ \A t \in Submitters : t # s => batch'[t] = <<>>
    BY <2>1, <2>3
  <2>5. Holders' = {s}
    BY <2>2, <2>4 DEF Holders
  <2> QED
    BY <2>2, <2>4, <2>5
<1>6. PendingTypeOK'
  <2>1. /\ delivered' \in Seq(Nat) /\ accepted' \subseteq Entry
        /\ next' \in Nat /\ floor' \in Nat /\ floor' <= next'
    BY <1>1, <1>2 DEF PendingTypeOK
  <2> QED
    BY <1>3, <1>5, <2>1 DEF PendingTypeOK
<1>7. Leased' = queue.entries /\ Current' # {}
  BY <1>3, <1>4, <1>5, <1>6, LeaseViewNext
<1>8. Sound(<<>>, FALSE, queue.entries, queue.count, queue.bytes,
            delivered, accepted, next, floor)
  <2>1. Leased = <<>> /\ (Current # {}) = FALSE
    BY <1>1, <1>2, LeaseView
  <2>2. Sound(Leased, Current # {}, queue.entries, queue.count, queue.bytes,
              delivered, accepted, next, floor)
    BY DEF PendingInvariant
  <2> QED
    BY <2>1, <2>2
<1>9. Sound(queue.entries, TRUE, <<>>, queue.count, queue.bytes,
            delivered, accepted, next, floor)
  <2>1. delivered \in Seq(Nat) /\ accepted \in SUBSET Entry /\ next \in Nat /\ floor \in Nat
    BY <1>1 DEF PendingTypeOK
  <2> QED
    BY <1>1, <1>8, <2>1, AcquireSound
<1>10. Sound(Leased, Current # {}, queue.entries, queue.count, queue.bytes,
             delivered, accepted, next, floor)'
  <2>1. (Current # {})' = TRUE
    BY <1>7
  <2> QED
    BY <1>2, <1>3, <1>7, <1>9, <2>1
<1>11. \A t \in Holders' : batch'[t][1].epoch <= queue'.epoch
  BY <1>1, <1>3, <1>4, <1>5
<1> QED
  BY <1>6, <1>10, <1>11 DEF PendingInvariant

\* A submission gives its lease back, whatever becomes of the entries.
LEMMA SettledStep ==
    ASSUME PendingInvariant, OneBatch', NEW s \in Submitters, batch[s] # <<>>,
           batch' = [batch EXCEPT ![s] = <<>>], UNCHANGED <<next, accepted, floor>>,
           NEW r \in QueueState, r.deferred = <<>>, queue' = [r EXCEPT !.active = FALSE],
           delivered' \in Seq(Nat),
           Sound(<<>>, FALSE, r.entries, r.count, r.bytes, delivered', accepted, next, floor)
    PROVE  PendingInvariant'
<1>1. PendingTypeOK /\ OneBatch
  BY DEF PendingInvariant
<1>2. /\ queue' \in QueueState /\ queue'.deferred = <<>> /\ queue'.entries = r.entries
      /\ queue'.count = r.count /\ queue'.bytes = r.bytes
  BY DEF QueueState
<1>3. Holders = {s}
  BY <1>1 DEF OneBatch, Holders
<1>4. /\ batch' \in [Submitters -> Seq(Batch)]
      /\ \A t \in Submitters : batch'[t] = <<>>
      /\ Holders' = {}
  <2>1. batch \in [Submitters -> Seq(Batch)] /\ \A t \in Submitters \ {s} : batch[t] = <<>>
    BY <1>1, <1>3 DEF PendingTypeOK, Holders
  <2>2. batch' \in [Submitters -> Seq(Batch)] /\ \A t \in Submitters : batch'[t] = <<>>
    BY <2>1
  <2> QED
    BY <2>2 DEF Holders
<1>5. PendingTypeOK'
  <2>1. /\ accepted' \subseteq Entry
        /\ next' \in Nat /\ floor' \in Nat /\ floor' <= next'
    BY <1>1 DEF PendingTypeOK
  <2> QED
    BY <1>2, <1>4, <2>1 DEF PendingTypeOK
<1>6. Leased' = <<>> /\ (Current # {})' = FALSE
  BY <1>4, <1>5, LeaseViewNext
<1>7. Sound(Leased, Current # {}, queue.entries, queue.count, queue.bytes,
            delivered, accepted, next, floor)'
  BY <1>2, <1>6
<1> QED
  BY <1>4, <1>5, <1>7 DEF PendingInvariant

\* withPendingInputBatch, release after a success
LEMMA SucceedStep ==
    ASSUME PendingInvariant, OneBatch', NEW s \in Submitters, ReleaseSucceeded(s)
    PROVE  PendingInvariant'
<1> DEFINE b == batch[s][1]
           L == Leased
           r == Commit(b, queue)
<1>1. /\ PendingTypeOK /\ OneBatch /\ queue \in QueueState /\ queue.deferred = <<>>
      /\ queue.entries \in Seq(Entry) /\ queue.epoch \in Nat
      /\ queue.count \in Nat /\ queue.bytes \in Nat
      /\ delivered \in Seq(Nat) /\ accepted \in SUBSET Entry /\ next \in Nat /\ floor \in Nat
  BY DEF PendingInvariant, PendingTypeOK, QueueState
<1>2. /\ batch[s] # <<>> /\ batch' = [batch EXCEPT ![s] = <<>>]
      /\ UNCHANGED <<next, accepted, floor>>
      /\ queue' = [r EXCEPT !.active = FALSE]
      /\ delivered' = delivered \o Inputs(b.entries)
  BY DEF ReleaseSucceeded
<1>3. s \in Holders
  BY <1>2 DEF Holders
<1>4. L = b.entries /\ L \in Seq(Entry) /\ (Current # {} <=> b.epoch = queue.epoch)
  BY <1>1, <1>3, LeaseView
<1>5. Sound(L, Current # {}, queue.entries, queue.count, queue.bytes,
            delivered, accepted, next, floor)
  BY DEF PendingInvariant
<1> DEFINE C == Current # {}
           d == delivered \o Inputs(L)
<1>6. C \in BOOLEAN
  OBVIOUS
<1> HIDE DEF b, L, C, r
<1>7. /\ d \in Seq(Nat)
      /\ Sound(<<>>, FALSE, queue.entries, IF C THEN queue.count - Len(L) ELSE queue.count,
               IF C THEN queue.bytes - Bytes(L) ELSE queue.bytes,
               d, accepted, next, floor)
  BY <1>1, <1>4, <1>5, <1>6, CommitSound DEF C
<1>8. delivered' = d
  BY <1>2, <1>4
<1> HIDE DEF d
<1>9. /\ r \in QueueState /\ r.deferred = <<>> /\ r.entries = queue.entries
      /\ r.count = IF C THEN queue.count - Len(L) ELSE queue.count
      /\ r.bytes = IF C THEN queue.bytes - Bytes(L) ELSE queue.bytes
  <2>1. CASE C
    <3>1. Budget(L, C, queue.entries, queue.count, queue.bytes)
      BY <1>5 DEF Sound, C
    <3>2. /\ queue.count - Len(L) = Len(queue.entries)
          /\ queue.bytes - Bytes(L) = Bytes(queue.entries)
      <4>1. PICK E \in Seq(Entry), k \in Nat, z \in Nat :
                E = queue.entries /\ k = queue.count /\ z = queue.bytes
        BY <1>1
      <4>2. Budget(L, C, E, k, z)
        BY <3>1, <4>1
      <4>3. k - Len(L) = Len(E) /\ z - Bytes(L) = Bytes(E)
        <5>1. /\ k = Len(L \o E) /\ z = Bytes(L \o E)
              /\ Len(L \o E) = Len(L) + Len(E) /\ Bytes(L \o E) = Bytes(L) + Bytes(E)
          BY <1>4, <2>1, <4>2, ConcatFacts, BytesConcat DEF Budget
        <5>2. Bytes(L) \in Nat /\ Bytes(E) \in Nat
          BY <1>4, BytesType
        <5>3. z - Bytes(L) = Bytes(E)
          BY <5>1, <5>2
        <5>4. PICK u \in Nat, v \in Nat : u = Len(L) /\ v = Len(E)
          BY <1>4
        <5>5. k - u = v
          BY <5>1, <5>4
        <5> QED
          BY <5>3, <5>4, <5>5
      <4> QED
        BY <4>1, <4>3
    <3>3. Bytes(queue.entries) \in Nat /\ Len(queue.entries) \in Nat
      BY <1>1, BytesType
    <3>4. PICK c \in Nat, m \in Nat : c = queue.count - Len(L) /\ m = queue.bytes - Bytes(L)
      BY <3>2, <3>3
    <3>5. Clamped(c) = c /\ Clamped(m) = m
      BY DEF Clamped
    <3>6. PICK q : q = [queue EXCEPT !.count = c, !.bytes = m]
      OBVIOUS
    <3>7. r = Promoted(q)
      BY <1>4, <2>1, <3>4, <3>5, <3>6 DEF Commit, r, C
    <3>8. /\ q \in QueueState /\ q.deferred = queue.deferred /\ q.entries = queue.entries
          /\ q.count = c /\ q.bytes = m
      BY <1>1, <3>6 DEF QueueState
    <3>9. r = q
      BY <1>1, <3>7, <3>8, NothingPromoted
    <3> QED
      BY <1>1, <2>1, <3>4, <3>8, <3>9
  <2>2. CASE ~C
    <3>1. r = queue
      BY <1>4, <2>2 DEF Commit, r, C
    <3> QED
      BY <1>1, <2>2, <3>1
  <2> QED
    BY <2>1, <2>2
<1>10. Sound(<<>>, FALSE, r.entries, r.count, r.bytes, delivered', accepted, next, floor)
  BY <1>7, <1>8, <1>9
<1> QED
  BY <1>2, <1>7, <1>8, <1>9, <1>10, SettledStep


\* Of the lease L requeue puts K back in front of Q and drops O.
Divided(L, Q, K, O) ==
    \/ /\ \E k \in 1..Len(Q) : Q[k].kind = "mcp"
       /\ K = NotOfKind(L, "mcp") /\ O = OfKind(L, "mcp")
    \/ /\ \A k \in 1..Len(Q) : Q[k].kind # "mcp"
       /\ K = L /\ O = <<>>

\* K is L without the snapshot that Q supersedes.
Kept(L, Q, K) ==
    /\ Ascending(K) /\ AtMostOne(K, "mcp")
    /\ \A j \in 1..Len(K) : \E i \in 1..Len(L) : K[j] = L[i]
    /\ \A i \in 1..Len(L) :
        \/ \E j \in 1..Len(K) : K[j] = L[i]
        \/ L[i].kind = "mcp" /\ \E k \in 1..Len(Q) : Q[k].kind = "mcp"
    /\ \/ \A j \in 1..Len(K) : K[j].kind # "mcp"
       \/ \A k \in 1..Len(Q) : Q[k].kind # "mcp"

\* The parts of a batch that requeue tells apart.
LEMMA RequeueParts ==
    ASSUME NEW L \in Seq(Entry), NEW Q \in Seq(Entry), NEW K, NEW O, Divided(L, Q, K, O),
           Ascending(L), AtMostOne(L, "mcp")
    PROVE  /\ K \in Seq(Entry) /\ O \in Seq(Entry)
           /\ Len(K) + Len(O) = Len(L) /\ Bytes(K) + Bytes(O) = Bytes(L)
           /\ Kept(L, Q, K)
<1>1. CASE /\ \E k \in 1..Len(Q) : Q[k].kind = "mcp"
           /\ K = NotOfKind(L, "mcp") /\ O = OfKind(L, "mcp")
  <2> DEFINE rest == NotOfKind(L, "mcp")
             of == OfKind(L, "mcp")
  <2>1. /\ of \in Seq(Entry) /\ rest \in Seq(Entry)
        /\ Len(rest) + Len(of) = Len(L) /\ Bytes(rest) + Bytes(of) = Bytes(L)
        /\ Ascending(L) => Ascending(rest)
        /\ \A j \in 1..Len(rest) : rest[j].kind # "mcp"
        /\ \A j \in 1..Len(rest) : \E i \in 1..Len(L) : rest[j] = L[i]
        /\ \A i \in 1..Len(L) : \/ \E j \in 1..Len(rest) : rest[j] = L[i]
                                \/ L[i].kind = "mcp"
    BY KindSplit
  <2> HIDE DEF rest, of
  <2>2. K = rest /\ O = of
    BY <1>1 DEF rest, of
  <2>3. AtMostOne(rest, "mcp")
    BY <2>1 DEF AtMostOne
  <2>4. /\ K \in Seq(Entry) /\ O \in Seq(Entry)
        /\ Len(K) + Len(O) = Len(L) /\ Bytes(K) + Bytes(O) = Bytes(L)
    BY <2>1, <2>2
  <2>5. \A i \in 1..Len(L) :
            \/ \E j \in 1..Len(K) : K[j] = L[i]
            \/ L[i].kind = "mcp" /\ \E k \in 1..Len(Q) : Q[k].kind = "mcp"
    BY <1>1, <2>1, <2>2
  <2> QED
    BY <2>1, <2>2, <2>3, <2>4, <2>5 DEF Kept
<1>2. CASE (\A k \in 1..Len(Q) : Q[k].kind # "mcp") /\ K = L /\ O = <<>>
  <2>1. K = L /\ O = <<>>
    BY <1>2
  <2>2. Len(O) = 0 /\ Bytes(O) = 0 /\ O \in Seq(Entry)
    BY <2>1, NoEntries
  <2>3. PICK l \in Nat, lb \in Nat : l = Len(L) /\ lb = Bytes(L)
    BY BytesType
  <2>4. l + 0 = l /\ lb + 0 = lb
    OBVIOUS
  <2>5. Len(K) + Len(O) = Len(L) /\ Bytes(K) + Bytes(O) = Bytes(L)
    BY <2>1, <2>2, <2>3, <2>4
  <2> QED
    BY <1>2, <2>1, <2>2, <2>5 DEF Kept
<1> QED
  BY <1>1, <1>2 DEF Divided

\* withPendingInputBatch, release after a failure or a cancellation
LEMMA FailStep ==
    ASSUME PendingInvariant, OneBatch', NEW s \in Submitters, ReleaseFailed(s)
    PROVE  PendingInvariant'
<1> DEFINE b == batch[s][1]
           L == Leased
           C == Current # {}
           r == Requeue(b, queue)
<1>1. /\ PendingTypeOK /\ OneBatch /\ queue \in QueueState /\ queue.deferred = <<>>
      /\ queue.entries \in Seq(Entry) /\ queue.epoch \in Nat
      /\ queue.count \in Nat /\ queue.bytes \in Nat
      /\ delivered \in Seq(Nat) /\ accepted \in SUBSET Entry /\ next \in Nat /\ floor \in Nat
  BY DEF PendingInvariant, PendingTypeOK, QueueState
<1>2. /\ batch[s] # <<>> /\ batch' = [batch EXCEPT ![s] = <<>>]
      /\ UNCHANGED <<next, delivered, accepted, floor>>
      /\ queue' = [r EXCEPT !.active = FALSE]
  BY DEF ReleaseFailed
<1>3. s \in Holders
  BY <1>2 DEF Holders
<1>4. L = b.entries /\ L \in Seq(Entry) /\ (C <=> b.epoch = queue.epoch)
  BY <1>1, <1>3, LeaseView
<1>5. Sound(L, C, queue.entries, queue.count, queue.bytes, delivered, accepted, next, floor)
  BY DEF PendingInvariant
<1>6. C \in BOOLEAN
  OBVIOUS
<1> HIDE DEF b, L, C, r
<1>7. /\ r \in QueueState /\ r.deferred = <<>>
      /\ Sound(<<>>, FALSE, r.entries, r.count, r.bytes, delivered, accepted, next, floor)
  <2>1. CASE ~C
    <3>1. r = queue
      BY <1>4, <2>1 DEF Requeue, r
    <3>2. C = FALSE
      BY <1>6, <2>1
    <3>3. Sound(L, FALSE, queue.entries, queue.count, queue.bytes,
                delivered, accepted, next, floor)
      BY <1>5, <3>2
    <3>4. Sound(<<>>, FALSE, queue.entries, queue.count, queue.bytes,
                delivered, accepted, next, floor)
      BY <1>1, <1>4, <3>3, DropSound
    <3> QED
      BY <1>1, <3>1, <3>4
  <2>2. CASE C
    <3>12. PICK Q \in Seq(Entry), c \in Nat, z \in Nat :
               Q = queue.entries /\ c = queue.count /\ z = queue.bytes
      BY <1>1
    <3>13. PICK newer \in BOOLEAN : newer <=> \E k \in 1..Len(Q) : Q[k].kind = "mcp"
      OBVIOUS
    <3>14. PICK K : K = IF newer THEN NotOfKind(L, "mcp") ELSE L
      OBVIOUS
    <3>15. PICK O : O = IF newer THEN OfKind(L, "mcp") ELSE <<>>
      OBVIOUS
    <3>1. C = TRUE
      BY <1>6, <2>2
    <3>2. Sound(L, TRUE, Q, c, z, delivered, accepted, next, floor)
      BY <1>5, <3>1, <3>12
    <3>3. Ascending(L) /\ AtMostOne(L, "mcp")
      BY <3>2 DEF Sound, InOrder
    <3>4. /\ K \in Seq(Entry) /\ O \in Seq(Entry)
          /\ Len(K) + Len(O) = Len(L) /\ Bytes(K) + Bytes(O) = Bytes(L)
          /\ Kept(L, Q, K)
      <4>1. Divided(L, Q, K, O)
        BY <3>13, <3>14, <3>15 DEF Divided
      <4> QED
        BY <1>4, <3>3, <4>1, RequeueParts
    <3>16. K \in Seq(Entry) /\ O \in Seq(Entry) /\ Q \in Seq(Entry)
      BY <3>4
    <3>17. Len(K) + Len(O) = Len(L) /\ Bytes(K) + Bytes(O) = Bytes(L)
      BY <3>4
    <3>5. r = [queue EXCEPT !.entries = K \o Q,
                            !.count = Clamped(c - Len(O)),
                            !.bytes = Clamped(z - Bytes(O))]
      <4>1. newer <=> \E k \in 1..Len(queue.entries) : queue.entries[k].kind = "mcp"
        BY <3>12, <3>13
      <4> QED
        BY <1>4, <2>2, <3>12, <3>14, <3>15, <4>1 DEF Requeue, r
    <3>6. /\ c = Len(L \o Q) /\ c <= CountLimit
          /\ z = Bytes(L \o Q) /\ z <= ByteLimit
      BY <3>2 DEF Sound, Budget
    <3>7. PICK c0 \in Nat, b0 \in Nat :
              /\ c0 = Len(K) + Len(Q) /\ c0 <= CountLimit
              /\ b0 = Bytes(K) + Bytes(Q) /\ b0 <= ByteLimit
              /\ Clamped(c - Len(O)) = c0 /\ Clamped(z - Bytes(O)) = b0
      <4>1. Len(L \o Q) = Len(L) + Len(Q) /\ Bytes(L \o Q) = Bytes(L) + Bytes(Q)
        BY <1>4, <3>16, ConcatFacts, BytesConcat
      <4>2. PICK l \in Nat, q \in Nat, k \in Nat, o \in Nat :
                l = Len(L) /\ q = Len(Q) /\ k = Len(K) /\ o = Len(O)
        BY <1>4, <3>16
      <4>3. PICK lb \in Nat, qb \in Nat, kb \in Nat, ob \in Nat :
                lb = Bytes(L) /\ qb = Bytes(Q) /\ kb = Bytes(K) /\ ob = Bytes(O)
        BY <1>4, <3>16, BytesType
      <4>4. c = l + q /\ k + o = l
        BY <3>6, <3>17, <4>1, <4>2
      <4>5. z = lb + qb /\ kb + ob = lb
        BY <3>6, <3>17, <4>1, <4>3
      <4>6. c - o = k + q /\ k + q <= CountLimit /\ z - ob = kb + qb /\ kb + qb <= ByteLimit
        BY <3>6, <4>4, <4>5, LimitAssumption
      <4>8. k + q \in Nat /\ kb + qb \in Nat
        OBVIOUS
      <4>12. \A x \in Nat : Clamped(x) = x
        BY DEF Clamped
      <4>7. Clamped(c - o) = k + q /\ Clamped(z - ob) = kb + qb
        BY <4>6, <4>8, <4>12
      <4>9. PICK c0 \in Nat, b0 \in Nat : c0 = k + q /\ b0 = kb + qb
        BY <4>8
      <4>10. c0 = Len(K) + Len(Q) /\ b0 = Bytes(K) + Bytes(Q)
        BY <4>2, <4>3, <4>9
      <4>11. Clamped(c - Len(O)) = c0 /\ Clamped(z - Bytes(O)) = b0
        BY <4>2, <4>3, <4>7, <4>9
      <4> QED
        BY <4>6, <4>9, <4>10, <4>11
    <3>8. PICK R \in Seq(Entry) : R = K \o Q
      BY <3>16, ConcatFacts
    <3>9. r = [queue EXCEPT !.entries = R, !.count = c0, !.bytes = b0]
      BY <3>5, <3>7, <3>8
    <3>10. /\ r \in QueueState /\ r.deferred = queue.deferred /\ r.entries = R
           /\ r.count = c0 /\ r.bytes = b0
      BY <1>1, <3>9 DEF QueueState
    <3>11. Sound(<<>>, FALSE, K \o Q, c0, b0, delivered, accepted, next, floor)
      BY <1>1, <1>4, <3>2, <3>4, <3>7, RequeueSound DEF Kept
    <3> QED
      BY <1>1, <3>8, <3>10, <3>11
  <2> QED
    BY <2>1, <2>2
<1>8. delivered' \in Seq(Nat) /\ delivered' = delivered
  BY <1>1, <1>2
<1> QED
  BY <1>2, <1>7, <1>8, SettledStep

\* clearPendingInputs
LEMMA ClearStep ==
    ASSUME PendingInvariant, OneBatch', ClearPendingInputs
    PROVE  PendingInvariant'
<1>1. /\ PendingTypeOK /\ OneBatch /\ queue \in QueueState /\ queue.epoch \in Nat
      /\ queue.entries \in Seq(Entry) /\ queue.active \in BOOLEAN
      /\ delivered \in Seq(Nat) /\ accepted \in SUBSET Entry /\ next \in Nat /\ floor \in Nat
  BY DEF PendingInvariant, PendingTypeOK, QueueState
<1>2. /\ queue' = Cleared(queue) /\ accepted' = {} /\ floor' = next
      /\ UNCHANGED <<batch, next, delivered>>
  BY DEF ClearPendingInputs
<1>3. /\ queue' \in QueueState /\ queue'.deferred = <<>> /\ queue'.epoch = queue.epoch + 1
      /\ queue'.entries = <<>> /\ queue'.count = 0 /\ queue'.bytes = 0
  <2>1. PICK E \in Seq(Entry) : E = <<>>
    BY NoEntries
  <2>2. queue' = [epoch |-> queue.epoch + 1, entries |-> E, deferred |-> E, count |-> 0,
                  bytes |-> 0, omitted |-> FALSE, closed |-> FALSE, reserved |-> 0,
                  active |-> queue.active]
    BY <1>2, <2>1 DEF Cleared, EmptyQueue
  <2>3. /\ queue' \in QueueState /\ queue'.deferred = E /\ queue'.epoch = queue.epoch + 1
        /\ queue'.entries = E /\ queue'.count = 0 /\ queue'.bytes = 0
    BY <1>1, <2>2 DEF QueueState
  <2> QED
    BY <2>1, <2>3
<1>4. PendingTypeOK'
  <2>1. /\ batch' \in [Submitters -> Seq(Batch)]
        /\ \A s \in Submitters : batch'[s] = <<>> \/ Len(batch'[s]) = 1
        /\ delivered' \in Seq(Nat) /\ accepted' \subseteq Entry
    BY <1>1, <1>2 DEF PendingTypeOK
  <2>2. next' \in Nat /\ floor' \in Nat /\ floor' <= next'
    BY <1>1, <1>2
  <2> QED
    BY <1>3, <2>1, <2>2 DEF PendingTypeOK
<1>5. \A s \in Holders : /\ batch[s][1].epoch \in Nat
                         /\ batch[s][1].epoch <= queue.epoch
  <2> SUFFICES ASSUME NEW s \in Holders
               PROVE  batch[s][1].epoch \in Nat /\ batch[s][1].epoch <= queue.epoch
    OBVIOUS
  <2>1. batch[s] \in Seq(Batch) /\ Len(batch[s]) = 1
    BY <1>1 DEF PendingTypeOK, Holders
  <2>2. batch[s][1] \in Batch
    BY <2>1
  <2> QED
    BY <2>2 DEF PendingInvariant, Batch
<1>6. Holders' = Holders /\ \A s \in Holders : batch'[s] = batch[s]
  BY <1>2 DEF Holders
<1>7. \A s \in Holders' : /\ batch'[s][1].epoch <= queue'.epoch
                          /\ batch'[s][1].epoch # queue'.epoch
  BY <1>1, <1>3, <1>5, <1>6
<1>8. Leased' = Leased /\ (Current # {})' = FALSE
  BY <1>2, <1>7 DEF Leased, Holders, Current
<1>9. Sound(Leased, FALSE, <<>>, 0, 0, delivered, {}, next, next)
  <2>1. Sound(Leased, Current # {}, queue.entries, queue.count, queue.bytes,
              delivered, accepted, next, floor)
    BY DEF PendingInvariant
  <2>2. Leased \in Seq(Entry) /\ (Current # {}) \in BOOLEAN
    BY <1>1, LeaseView
  <2> QED
    BY <1>1, <2>1, <2>2, ClearSound
<1>10. Sound(Leased, Current # {}, queue.entries, queue.count, queue.bytes,
             delivered, accepted, next, floor)'
  BY <1>2, <1>3, <1>8, <1>9
<1> QED
  BY <1>4, <1>7, <1>10 DEF PendingInvariant

\* The invariant holds initially
LEMMA PendingInit == Init => PendingInvariant
<1> SUFFICES ASSUME Init PROVE PendingInvariant
  OBVIOUS
<1>1. /\ queue \in QueueState /\ queue.deferred = <<>> /\ queue.entries = <<>>
      /\ queue.count = 0 /\ queue.bytes = 0 /\ queue.active = FALSE
  <2>1. PICK E \in Seq(Entry) : E = <<>>
    BY NoEntries
  <2>2. queue = [epoch |-> 0, entries |-> E, deferred |-> E, count |-> 0, bytes |-> 0,
                 omitted |-> FALSE, closed |-> FALSE, reserved |-> 0, active |-> FALSE]
    BY <2>1 DEF Init, EmptyQueue
  <2>3. /\ queue \in QueueState /\ queue.deferred = E /\ queue.entries = E
        /\ queue.count = 0 /\ queue.bytes = 0 /\ queue.active = FALSE
    BY <2>2 DEF QueueState
  <2> QED
    BY <2>1, <2>3
<1>2. /\ batch \in [Submitters -> Seq(Batch)] /\ \A s \in Submitters : batch[s] = <<>>
      /\ delivered = <<>> /\ accepted = {} /\ next = 0 /\ floor = 0
  BY DEF Init
<1>3. Holders = {}
  BY <1>2 DEF Holders
<1>4. PendingTypeOK /\ OneBatch
  BY <1>1, <1>2, <1>3 DEF PendingTypeOK, OneBatch
<1>5. Leased = <<>> /\ (Current # {}) = FALSE
  BY <1>3 DEF Leased, Current
<1>6. Sound(<<>>, FALSE, <<>>, 0, 0, <<>>, {}, 0, 0)
  <2>1. InOrder(<<>>, <<>>, <<>>, 0) /\ OfConversation(<<>>, FALSE, <<>>, {}, 0, 0)
    BY NoEntries DEF InOrder, OfConversation
  <2>2. AllKept(<<>>, <<>>, <<>>, {}) /\ Budget(<<>>, FALSE, <<>>, 0, 0)
    BY NoEntries, LimitAssumption DEF AllKept, Budget
  <2> QED
    BY <2>1, <2>2, NoEntries DEF Sound
<1> QED
  BY <1>1, <1>2, <1>3, <1>4, <1>5, <1>6 DEF PendingInvariant

\* and every step keeps it.
LEMMA PendingStep ==
    ASSUME PendingInvariant, [Next]_vars
    PROVE  PendingInvariant'
<1>1. LeaseInvariant
  BY DEF PendingInvariant, PendingTypeOK, QueueState, LeaseInvariant
<1>2. OneBatch'
  BY <1>1, LeaseStep DEF LeaseInvariant
<1>3. CASE UNCHANGED vars
  BY <1>3 DEF vars, PendingInvariant, PendingTypeOK, OneBatch, Holders, Leased, Current
<1>4. CASE Next
  <2>1. ASSUME NEW n \in Sizes, EnqueuePendingInput(n) PROVE PendingInvariant'
    BY <1>2, <2>1, InputStep
  <2>2. ASSUME NEW n \in Sizes, NEW kind \in {"mcp", "subagent"},
               EnqueuePendingNotice(kind, n)
        PROVE  PendingInvariant'
    BY <1>2, <2>2, NoticeStep
  <2>3. ASSUME NEW s \in Submitters, Acquire(s) \/ ReleaseSucceeded(s) \/ ReleaseFailed(s)
        PROVE  PendingInvariant'
    BY <1>2, <2>3, AcquireStep, SucceedStep, FailStep
  <2>4. CASE ClearPendingInputs
    BY <1>2, <2>4, ClearStep
  <2> QED
    BY <1>4, <2>1, <2>2, <2>3, <2>4 DEF Next
<1> QED
  BY <1>3, <1>4

\* So it holds in every behaviour.
LEMMA PendingInvariance == Spec => []PendingInvariant
<1>1. PendingInvariant /\ [Next]_vars => PendingInvariant'
  BY PendingStep
<1> QED
  BY <1>1, PendingInit, PTL DEF Spec

\* The budget of the pending queue is exact and within both limits, whatever
\* was leased, given back, superseded by a newer snapshot or overtaken by a
\* reset (Commit, Requeue, RemoveNotice and Cleared keep count and bytes; the
\* code's clamps at zero never hide a debt).
THEOREM PendingBudgetExact == Spec => []BudgetExact
<1>1. PendingInvariant => BudgetExact
  BY DEF PendingInvariant, Sound, Budget, BudgetExact, Charged
<1> QED
  BY <1>1, PendingInvariance, PTL

\* What was delivered, is leased and is queued stays in the order of the
\* offers, without repetition: appendEntries and requeue never swap or double
\* an input, for any interleaving of producers, submissions and resets.
THEOREM PendingInputsInOrder == Spec => []InputsInOrder
<1>1. ASSUME PendingInvariant PROVE InputsInOrder
  <2>1. /\ Leased \in Seq(Entry) /\ (Current # {}) \in BOOLEAN
        /\ queue.entries \in Seq(Entry) /\ delivered \in Seq(Nat)
        /\ accepted \in SUBSET Entry /\ next \in Nat /\ floor \in Nat
    BY <1>1, LeaseView DEF PendingInvariant, PendingTypeOK, QueueState
  <2>2. Sound(Leased, Current # {}, queue.entries, queue.count, queue.bytes,
              delivered, accepted, next, floor)
    BY <1>1 DEF PendingInvariant
  <2>7. LET d1 == delivered \o Inputs(Leased)
        IN  /\ d1 \in Seq(Nat)
            /\ Sound(<<>>, FALSE, queue.entries,
                     IF Current # {} THEN queue.count - Len(Leased) ELSE queue.count,
                     IF Current # {} THEN queue.bytes - Bytes(Leased) ELSE queue.bytes,
                     d1, accepted, next, floor)
    BY <2>1, <2>2, CommitSound
  <2>3. PICK d \in Seq(Nat) : \E c, b :
            /\ d = delivered \o Inputs(Leased)
            /\ Sound(<<>>, FALSE, queue.entries, c, b, d, accepted, next, floor)
    BY <2>7
  <2>8. PICK c, b : Sound(<<>>, FALSE, queue.entries, c, b, d, accepted, next, floor)
    BY <2>3
  <2>4. Sound(queue.entries, TRUE, <<>>, c, b, d, accepted, next, floor)
    BY <2>1, <2>8, AcquireSound
  <2>9. LET d1 == d \o Inputs(queue.entries)
        IN  /\ d1 \in Seq(Nat)
            /\ Sound(<<>>, FALSE, <<>>, IF TRUE THEN c - Len(queue.entries) ELSE c,
                     IF TRUE THEN b - Bytes(queue.entries) ELSE b, d1, accepted, next, floor)
    BY <2>1, <2>4, NoEntries, CommitSound
  <2>5. PICK e \in Seq(Nat) :
            e = d \o Inputs(queue.entries) /\ InOrder(<<>>, <<>>, e, next)
    BY <2>9 DEF Sound
  <2>6. \A i, j \in 1..Len(e) : i < j => e[i] < e[j]
    BY <2>5 DEF InOrder
  <2> QED
    BY <2>3, <2>5, <2>6 DEF InputsInOrder
<1> QED
  BY <1>1, PendingInvariance, PTL

\* An input that enqueueInput or enqueueNotice accepted is delivered, leased or
\* queued as long as its conversation lasts, unless it is an MCP snapshot that
\* a later accepted one replaced.
THEOREM PendingAcceptedIsKept == Spec => []AcceptedIsKept
<1>1. PendingInvariant => AcceptedIsKept
  BY DEF PendingInvariant, Sound, AllKept, AcceptedIsKept
<1> QED
  BY <1>1, PendingInvariance, PTL

\* clearPendingInputs: nothing offered before a reset is in the queue after it,
\* though the submission in flight may still fail and requeue its batch.
THEOREM PendingResetIsolates == Spec => []ResetIsolates
<1>1. ASSUME PendingInvariant PROVE ResetIsolates
  <2>1. /\ \A e \in accepted : e.input \in Nat /\ floor < e.input
        /\ \A i \in 1..Len(queue.entries) : queue.entries[i] \in accepted
        /\ floor \in Nat
    BY <1>1 DEF PendingInvariant, PendingTypeOK, Sound, OfConversation, Entry
  <2> QED
    BY <2>1 DEF ResetIsolates, Ids
<1> QED
  BY <1>1, PendingInvariance, PTL

\* enqueueNotice and requeue keep at most one MCP snapshot in the queue.
THEOREM PendingOneSnapshot == Spec => []OneSnapshot
<1>1. ASSUME PendingInvariant PROVE OneSnapshot
  <2>1. queue.entries \in Seq(Entry) /\ AtMostOne(queue.entries, "mcp")
    BY <1>1 DEF PendingInvariant, PendingTypeOK, QueueState, Sound
  <2> QED
    BY <2>1, AtMostOneCounted DEF OneSnapshot
<1> QED
  BY <1>1, PendingInvariance, PTL

=============================================================================
