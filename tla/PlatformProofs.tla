---------------------------- MODULE PlatformProofs ----------------------------
(***************************************************************************)
(* The C services under the program, proved for any number of threads,     *)
(* clients, updates, copies and requests: the network path monitor, the    *)
(* keychain, the clipboard tip, the audio devices, the WebRTC peer, and    *)
(* the media helper with the sequential service it implements.             *)
(***************************************************************************)
EXTENDS NetworkPathMonitor, McpKeychain, ClipboardTypes, MediaAudio, MediaPeer, MediaHelper,
        SetInduction, SequenceTheorems, TLAPS

-----------------------------------------------------------------------------
(* NetworkPathMonitor. *)

Busy == {"wait", "sync", "free"}

NetworkTypes ==
    /\ wrapper \in {"none", "live", "freed"} /\ callback \in {"live", "freed"}
    /\ blocks \in Seq({"up", "down", "cancel", "sync"})
    /\ running \in {"none", "up", "down", "cancel", "cancelled", "sync"}
    /\ updates \in Nat /\ cancelled \in BOOLEAN /\ signals \in Nat
    /\ closer \in [Closers -> {"idle", "closed"} \cup Busy]
    /\ active \in {"full", "taken", "empty"}

OnlyUpdates ==
    /\ running \in {"none", "up", "down"} /\ signals = 0
    /\ \A i \in 1 .. Len(blocks) : blocks[i] \in {"up", "down"}

QueueQuiet == running = "none" /\ blocks = <<>> /\ signals = 0

CancelQueued ==
    /\ signals = 0
    /\ \/ /\ Len(blocks) > 0 /\ blocks[Len(blocks)] = "cancel"
          /\ running \in {"none", "up", "down"}
          /\ \A i \in 1 .. Len(blocks) - 1 : blocks[i] \in {"up", "down"}
       \/ running = "cancel" /\ blocks = <<>>

Signalled == signals = 1 /\ running \in {"cancelled", "none"} /\ blocks = <<>>

SyncQueued ==
    /\ signals = 0
    /\ \/ blocks = <<>> /\ running \in {"none", "cancelled", "sync"}
       \/ blocks = <<"sync">> /\ running \in {"none", "cancelled"}

OneCloser ==
    /\ active = "taken" =>
        /\ wrapper = "live" /\ cancelled
        /\ \E c \in Closers : closer[c] \in Busy
    /\ \A c, d \in Closers : closer[c] \in Busy /\ closer[d] \in Busy => c = d
    /\ \A c \in Closers : closer[c] \in Busy => active = "taken"
    /\ \A c \in Closers :
        /\ closer[c] = "wait" => CancelQueued \/ Signalled
        /\ closer[c] = "sync" => SyncQueued
        /\ closer[c] = "free" => QueueQuiet

LifeCycle ==
    /\ wrapper = "live" => callback = "live"
    /\ wrapper # "live" => QueueQuiet /\ active = "empty"
    /\ wrapper = "live" => active # "empty"
    /\ wrapper = "none" => ~cancelled
    /\ active = "full" => wrapper = "live" /\ ~cancelled /\ OnlyUpdates

NetworkInvariant == NetworkTypes /\ OneCloser /\ LifeCycle

\* Every step of the queue, of the system and of a closer keeps the invariant.
LEMMA NetworkStep == NetworkInvariant /\ [NetworkNext]_networkVars => NetworkInvariant'
<1> SUFFICES ASSUME NetworkInvariant, [NetworkNext]_networkVars PROVE NetworkInvariant'
    OBVIOUS
<1> USE DEF NetworkInvariant, NetworkTypes, LifeCycle, Busy
<1>1. CASE MonitorCreate
    <2> USE <1>1 DEF MonitorCreate
    <2>1. QueueQuiet /\ QueueQuiet' /\ OnlyUpdates' /\ \A c \in Closers : closer[c] \notin Busy
        BY DEF OneCloser, QueueQuiet, OnlyUpdates
    <2> QED
        BY <2>1 DEF OneCloser
<1>2. ASSUME NEW s \in {"up", "down"}, PathUpdate(s) PROVE NetworkInvariant'
    <2>1. active = "full" /\ OnlyUpdates /\ \A c \in Closers : closer[c] \notin Busy
        BY <1>2 DEF PathUpdate, OneCloser
    <2>2. NetworkTypes'
        BY <1>2 DEF PathUpdate
    <2>3. OnlyUpdates'
        BY <1>2, <2>1 DEF PathUpdate, OnlyUpdates
    <2> QED
        BY <1>2, <2>1, <2>2, <2>3 DEF PathUpdate, OneCloser
<1>3. CASE StartBlock
    <2> USE <1>3 DEF StartBlock, monitorVars
    <2>1. wrapper = "live" /\ blocks # <<>> /\ blocks[1] \in {"up", "down", "cancel", "sync"}
        BY DEF QueueQuiet
    <2>2. NetworkTypes'
        BY <2>1
    <2>3. OnlyUpdates => OnlyUpdates'
        BY <2>1 DEF OnlyUpdates
    <2>4. CancelQueued => CancelQueued'
        BY <2>1 DEF CancelQueued
    <2>5. ~Signalled /\ ~QueueQuiet
        BY DEF Signalled, QueueQuiet
    <2>6. SyncQueued => SyncQueued'
        BY <2>1 DEF SyncQueued
    <2>7. OneCloser'
        BY <2>4, <2>5, <2>6 DEF OneCloser
    <2> QED
        BY <2>1, <2>2, <2>3, <2>7
<1>4. CASE UpdateHandler
    <2> USE <1>4 DEF UpdateHandler
    <2>1. wrapper = "live"
        BY DEF QueueQuiet
    <2>2. (OnlyUpdates => OnlyUpdates') /\ (CancelQueued => CancelQueued')
        BY DEF OnlyUpdates, CancelQueued
    <2>3. ~Signalled /\ ~QueueQuiet /\ ~SyncQueued
        BY DEF Signalled, QueueQuiet, SyncQueued
    <2> QED
        BY <2>1, <2>2, <2>3 DEF OneCloser
<1>5. CASE CancelHandler
    <2> USE <1>5 DEF CancelHandler, monitorVars
    <2>1. wrapper = "live" /\ active # "full"
        BY DEF QueueQuiet, OnlyUpdates
    <2>2. CancelQueued => Signalled'
        BY DEF Signalled, CancelQueued
    <2>3. ~Signalled /\ ~QueueQuiet /\ ~SyncQueued
        BY DEF Signalled, QueueQuiet, SyncQueued
    <2> QED
        BY <2>1, <2>2, <2>3 DEF OneCloser
<1>6. CASE EndBlock
    <2> USE <1>6 DEF EndBlock, monitorVars
    <2>1. wrapper = "live" /\ active # "full"
        BY DEF QueueQuiet, OnlyUpdates
    <2>2. ~CancelQueued /\ (Signalled => Signalled') /\ ~QueueQuiet /\ (SyncQueued => SyncQueued')
        BY DEF Signalled, CancelQueued, QueueQuiet, SyncQueued
    <2> QED
        BY <2>1, <2>2 DEF OneCloser
<1>7. ASSUME NEW c \in Closers, MonitorClose(c) PROVE NetworkInvariant'
    <2> USE <1>7 DEF MonitorClose, Closing
    <2>1. /\ wrapper = "live" /\ OnlyUpdates
          /\ \A d \in Closers : closer[d] \notin Busy
        BY DEF OneCloser
    <2>2. NetworkTypes'
        OBVIOUS
    <2>3. CancelQueued'
        BY <2>1 DEF OnlyUpdates, CancelQueued
    <2>4. /\ closer'[c] = "wait" /\ c \in Closers
          /\ \A d \in Closers : closer'[d] \in Busy => d = c
        BY <2>1
    <2>5. OneCloser'
        BY <2>1, <2>3, <2>4 DEF OneCloser
    <2> QED
        BY <2>1, <2>2, <2>5
<1>8. ASSUME NEW c \in Closers, MonitorClosed(c) PROVE NetworkInvariant'
    <2> USE <1>8 DEF MonitorClosed, Closing, monitorVars
    <2>1. \A d \in Closers : closer'[d] \notin Busy
        BY DEF OneCloser
    <2> QED
        BY <2>1 DEF OneCloser, QueueQuiet
<1>9. ASSUME NEW c \in Closers, SemaphoreWait(c) PROVE NetworkInvariant'
    <2> USE <1>9 DEF SemaphoreWait, Closing, monitorVars
    <2>1. Signalled /\ active = "taken" /\ wrapper = "live" /\ cancelled
        BY DEF OneCloser, CancelQueued
    <2>2. SyncQueued' /\ NetworkTypes'
        BY <2>1 DEF Signalled, SyncQueued
    <2>3. closer'[c] = "sync" /\ \A d \in Closers : closer'[d] \in Busy => d = c
        BY DEF OneCloser
    <2>4. OneCloser'
        BY <2>1, <2>2, <2>3 DEF OneCloser
    <2> QED
        BY <2>1, <2>2, <2>4
<1>10. ASSUME NEW c \in Closers, SyncReturns(c) PROVE NetworkInvariant'
    <2> USE <1>10 DEF SyncReturns, Closing, monitorVars
    <2>1. SyncQueued /\ active = "taken" /\ wrapper = "live" /\ cancelled
        BY DEF OneCloser
    <2>2. QueueQuiet'
        BY <2>1 DEF QueueQuiet, SyncQueued
    <2>3. closer'[c] = "free" /\ \A d \in Closers : closer'[d] \in Busy => d = c
        BY DEF OneCloser
    <2>4. OneCloser'
        BY <2>1, <2>2, <2>3 DEF OneCloser
    <2> QED
        BY <2>1, <2>2, <2>4
<1>11. ASSUME NEW c \in Closers, MonitorFree(c) PROVE NetworkInvariant'
    <2> USE <1>11 DEF MonitorFree, Closing
    <2>1. QueueQuiet /\ \A d \in Closers : closer'[d] \notin Busy
        BY DEF OneCloser
    <2>2. QueueQuiet'
        BY <2>1 DEF QueueQuiet
    <2> QED
        BY <2>1, <2>2 DEF OneCloser
<1>12. CASE UNCHANGED networkVars
    BY <1>12 DEF networkVars, OneCloser, OnlyUpdates, QueueQuiet, CancelQueued, Signalled,
                 SyncQueued
<1> QED
    BY <1>1, <1>2, <1>3, <1>4, <1>5, <1>6, <1>7, <1>8, <1>9, <1>10, <1>11, <1>12
    DEF NetworkNext, QueueStep, CloserStep

\* The blocks of the serial queue run with the wrapper and the callback alive,
\* for any number of threads that close the monitor.
THEOREM NetworkBlocksSafe == NetworkSpec => []BlocksFindTheirContext
<1>1. NetworkInit => NetworkInvariant
    <2> SUFFICES ASSUME NetworkInit PROVE NetworkInvariant
        OBVIOUS
    <2>1. /\ closer \in [Closers -> {"idle", "closed"} \cup Busy]
          /\ \A c \in Closers : closer[c] = "idle"
        BY DEF NetworkInit
    <2>2. NetworkTypes
        <3>1. cancelled \in BOOLEAN
            BY DEF NetworkInit
        <3>2. blocks \in Seq({"up", "down", "cancel", "sync"})
            BY DEF NetworkInit
        <3> QED
            BY <2>1, <3>1, <3>2 DEF NetworkInit, NetworkTypes
    <2>3. OneCloser /\ LifeCycle
        BY <2>1 DEF NetworkInit, OneCloser, LifeCycle, QueueQuiet, Busy
    <2> QED
        BY <2>2, <2>3 DEF NetworkInvariant
<1>2. NetworkInvariant => BlocksFindTheirContext
    BY DEF NetworkInvariant, LifeCycle, QueueQuiet, BlocksFindTheirContext
<1> QED
    BY <1>1, <1>2, NetworkStep, PTL DEF NetworkSpec

-----------------------------------------------------------------------------
(* McpKeychain. *)

KeychainTypes ==
    /\ item \in Credentials \cup {NoCredential}
    /\ keychainCall \in [KeychainClients -> {"none", "update", "add", "updateAgain"}]
    /\ writing \in [KeychainClients -> Credentials \cup {NoCredential}]
    /\ copy \in [KeychainClients -> Credentials \cup {NoCredential}]
    /\ keychainStatus \in [KeychainClients -> {"none", "success", "notFound", "failure"}]
    /\ disturbed \in [KeychainClients -> BOOLEAN]

\* The call a client makes next tells what it writes, and a client that is about
\* to update what another one added finds an item unless somebody disturbed it.
WriterFindsItem ==
    \A c \in KeychainClients :
        /\ keychainCall[c] # "none" => writing[c] \in Credentials
        /\ keychainCall[c] = "updateAgain" /\ ~disturbed[c] => item # NoCredential

KeychainInvariant == KeychainTypes /\ WriterFindsItem /\ RacingWritersSucceed

\* Every call of the keychain keeps the invariant.
LEMMA KeychainStep == KeychainInvariant /\ [KeychainNext]_keychainVars => KeychainInvariant'
<1> SUFFICES ASSUME KeychainInvariant, [KeychainNext]_keychainVars PROVE KeychainInvariant'
    OBVIOUS
<1> USE CredentialsAssumption
        DEF KeychainInvariant, KeychainTypes, WriterFindsItem, RacingWritersSucceed
<1>1. ASSUME NEW c \in KeychainClients, KeychainRead(c) PROVE KeychainInvariant'
    BY <1>1 DEF KeychainRead, Status
<1>2. ASSUME NEW c \in KeychainClients, KeychainRelease(c) PROVE KeychainInvariant'
    BY <1>2 DEF KeychainRelease
<1>3. ASSUME NEW c \in KeychainClients, KeychainDelete(c) PROVE KeychainInvariant'
    <2>1. KeychainTypes'
        BY <1>3 DEF KeychainDelete, Status, Disturb
    <2>2. CASE item' = NoCredential /\ Disturb(KeychainClients \ {c})
        <3>1. \A d \in KeychainClients \ {c} : disturbed'[d]
            BY <2>2 DEF Disturb
        <3> QED
            BY <1>3, <2>1, <3>1 DEF KeychainDelete, Status
    <2>3. CASE UNCHANGED <<item, disturbed>>
        BY <1>3, <2>1, <2>3 DEF KeychainDelete, Status
    <2> QED
        BY <1>3, <2>2, <2>3 DEF KeychainDelete
<1>4. ASSUME NEW c \in KeychainClients, NEW v \in Credentials, KeychainWrite(c, v)
      PROVE KeychainInvariant'
    BY <1>4 DEF KeychainWrite, Goto, Status
<1>5. ASSUME NEW c \in KeychainClients, SecItemUpdate(c) PROVE KeychainInvariant'
    <2>1. CASE item # NoCredential
        BY <1>5, <2>1 DEF SecItemUpdate, Stores, Returns, Goto, Status
    <2>2. CASE item = NoCredential /\ keychainCall[c] = "update"
        BY <1>5, <2>2 DEF SecItemUpdate, Goto
    <2>3. CASE item = NoCredential /\ keychainCall[c] = "updateAgain"
        BY <1>5, <2>3 DEF SecItemUpdate, Returns, Goto, Status
    <2> QED
        BY <1>5, <2>1, <2>2, <2>3 DEF SecItemUpdate
<1>6. ASSUME NEW c \in KeychainClients, SecItemAdd(c) PROVE KeychainInvariant'
    BY <1>6 DEF SecItemAdd, Stores, Returns, Goto, Status
<1>7. ASSUME NEW c \in KeychainClients, PlatformFails(c) PROVE KeychainInvariant'
    <2>1. disturbed'[c] /\ \A d \in KeychainClients : disturbed[d] => disturbed'[d]
        BY <1>7 DEF PlatformFails, Disturb
    <2>2. KeychainTypes'
        BY <1>7 DEF PlatformFails, Disturb, Returns, Goto, Status
    <2> QED
        BY <1>7, <2>1, <2>2 DEF PlatformFails, Returns, Goto, Status
<1>8. CASE UNCHANGED keychainVars
    BY <1>8 DEF keychainVars
<1> QED
    BY <1>1, <1>2, <1>3, <1>4, <1>5, <1>6, <1>7, <1>8 DEF KeychainNext

\* No set of writers of one account defeats one of its members: a write that
\* nobody deleted under and the platform did not refuse does not fail.
THEOREM KeychainWritersSucceed == KeychainSpec => []RacingWritersSucceed
<1>1. KeychainInit => KeychainInvariant
    BY DEF KeychainInit, KeychainInvariant, KeychainTypes, WriterFindsItem, RacingWritersSucceed
<1>2. KeychainInvariant => RacingWritersSucceed
    BY DEF KeychainInvariant
<1> QED
    BY <1>1, <1>2, KeychainStep, PTL DEF KeychainSpec

-----------------------------------------------------------------------------
(* ClipboardTypes. *)

ClipboardTypeOK ==
    /\ board \in [version : Nat \ {0}, items : Contents]
    /\ synced \in Nat /\ generation \in Nat /\ lastSeen \in Nat /\ lastFired \in Nat
    /\ count \in Nat /\ fired \in Nat /\ failed \in Nat

\* The numbers the poll remembers are generations it was given, the versions it
\* remembers were on the clipboard.
CountsAreOld ==
    /\ lastSeen <= generation /\ lastFired <= generation /\ count <= generation
    /\ synced <= board.version /\ fired <= synced
    /\ generation = 0 <=> synced = 0

\* A generation stands for the version of the last synchronize.
GenerationIsVersion ==
    /\ generation > 0 /\ lastFired = generation => fired = synced
    /\ generation > 0 /\ lastSeen = generation /\ synced = board.version
            /\ Classify(board.items)
        => fired = synced \/ failed = synced
    /\ fired = board.version => MayContainImages(board.items)

ClipboardInvariant == ClipboardTypeOK /\ CountsAreOld /\ GenerationIsVersion

\* What clipboard_snapshot_classify calls an image, the filter lets through.
LEMMA ImagesPassTheFilter == \A items : Classify(items) => MayContainImages(items)
BY DEF Classify, MayContainImages, FlavorIsRaster, FlavorMayContainImages

\* clipboard_snapshot_sync_generation hands out a new number exactly when the
\* clipboard changed since the last one.
LEMMA SyncKeepsInvariant ==
    ASSUME ClipboardInvariant, SyncGeneration,
           UNCHANGED <<board, lastSeen, lastFired, fired, failed>>,
           count' = count \/ count' = generation'
    PROVE  ClipboardInvariant'
<1> USE DEF ClipboardInvariant, ClipboardTypeOK, CountsAreOld, SyncGeneration
<1>1. CASE synced = board.version
    BY <1>1 DEF GenerationIsVersion
<1>2. CASE synced # board.version
    <2>1. generation' = generation + 1
        BY <1>2
    <2> QED
        BY <1>2, <2>1 DEF GenerationIsVersion
<1> QED
    BY <1>1, <1>2

\* Every step of the poll and of other programs keeps the invariant.
LEMMA ClipboardStep ==
    ClipboardInvariant /\ [ClipboardNext]_clipboardVars => ClipboardInvariant'
<1> SUFFICES ASSUME ClipboardInvariant, [ClipboardNext]_clipboardVars
             PROVE  ClipboardInvariant'
    OBVIOUS
<1> USE DEF ClipboardInvariant, ClipboardTypeOK, CountsAreOld, GenerationIsVersion
<1>1. ASSUME NEW items \in Contents, Copy(items) PROVE ClipboardInvariant'
    BY <1>1 DEF Copy
<1>2. CASE ChangeCount
    BY <1>2, SyncKeepsInvariant DEF ChangeCount
<1>3. CASE SnapshotSync
    BY <1>3, SyncKeepsInvariant DEF SnapshotSync
<1>4. CASE SnapshotClassify
    <2>1. CASE synced = board.version /\ Classify(board.items)
        BY <1>4, <2>1, ImagesPassTheFilter DEF SnapshotClassify
    <2>2. CASE ~(synced = board.version /\ Classify(board.items))
        BY <1>4, <2>2 DEF SnapshotClassify
    <2> QED
        BY <2>1, <2>2
<1>5. CASE CooldownEnds
    BY <1>5 DEF CooldownEnds
<1>6. CASE UNCHANGED clipboardVars
    BY <1>6 DEF clipboardVars
<1> QED
    BY <1>1, <1>2, <1>3, <1>4, <1>5, <1>6 DEF ClipboardNext

\* The gate of change counts hides no image, however the copies of other
\* programs and the two synchronizes of a poll interleave.
THEOREM ClipboardImageIsAnnounced == ClipboardSpec => []ImageIsAnnounced
<1>1. ClipboardInit => ClipboardInvariant
    BY DEF ClipboardInit, ClipboardInvariant, ClipboardTypeOK, CountsAreOld, GenerationIsVersion
<1>2. ClipboardInvariant => ImageIsAnnounced
    BY DEF ClipboardInvariant, GenerationIsVersion, ImageIsAnnounced
<1> QED
    BY <1>1, <1>2, ClipboardStep, PTL DEF ClipboardSpec

-----------------------------------------------------------------------------
(* MediaAudio. *)

Buffer == [n : Nat, size : Nat]

\* f[i] is the size of the first i buffers of queue, up to m of them.
TotalsTo(f, queue, m) ==
    /\ f \in [0..m -> Nat]
    /\ f[0] = 0
    /\ \A i \in 1..m : f[i] = f[i - 1] + queue[i].size

\* Running totals exist,
LEMMA TotalsExist ==
    ASSUME NEW queue \in Seq(Buffer)
    PROVE  \E f : TotalsTo(f, queue, Len(queue))
<1> DEFINE Good == {m \in Nat : m <= Len(queue) => \E f : TotalsTo(f, queue, m)}
<1>1. 0 \in Good
  <2>1. TotalsTo([i \in 0..0 |-> 0], queue, 0)
    BY DEF TotalsTo
  <2> QED
    BY <2>1
<1>2. ASSUME NEW m \in Nat, m \in Good PROVE m + 1 \in Good
  <2>1. ASSUME m + 1 <= Len(queue) PROVE \E f : TotalsTo(f, queue, m + 1)
    <3>1. PICK f : TotalsTo(f, queue, m)
      BY <1>2, <2>1
    <3> DEFINE g == [i \in 0..(m + 1) |-> IF i = m + 1 THEN f[m] + queue[m + 1].size ELSE f[i]]
    <3>2. queue[m + 1] \in Buffer
      BY <2>1
    <3>3. queue[m + 1].size \in Nat
      BY <3>2 DEF Buffer
    <3>4. g \in [0..(m + 1) -> Nat] /\ g[0] = 0
      BY <3>1, <3>3 DEF TotalsTo
    <3>5. \A i \in 1..(m + 1) : g[i] = g[i - 1] + queue[i].size
      BY <3>1 DEF TotalsTo
    <3>6. TotalsTo(g, queue, m + 1)
      BY <3>4, <3>5 DEF TotalsTo
    <3> QED
      BY <3>6
  <2> QED
    BY <2>1
<1> HIDE DEF Good
<1>3. Len(queue) \in Good
  BY <1>1, <1>2, NatInductionOnSets
<1> QED
  BY <1>3 DEF Good

\* and the last of them is the size of the queue.
LEMMA LastTotal ==
    ASSUME NEW queue \in Seq(Buffer), NEW f, TotalsTo(f, queue, Len(queue))
    PROVE  QueuedBytes(queue) = f[Len(queue)]
<1> DEFINE sum == CHOOSE h : h = [i \in 0..Len(queue) |->
                                    IF i = 0 THEN 0 ELSE h[i - 1] + queue[i].size]
<1>1. f = [i \in 0..Len(queue) |-> IF i = 0 THEN 0 ELSE f[i - 1] + queue[i].size]
  BY DEF TotalsTo
<1>2. sum = [i \in 0..Len(queue) |-> IF i = 0 THEN 0 ELSE sum[i - 1] + queue[i].size]
  BY <1>1
<1>3. QueuedBytes(queue) = sum[Len(queue)]
  BY DEF QueuedBytes
<1> HIDE DEF sum
<1> DEFINE Good == {m \in Nat : m <= Len(queue) => f[m] = sum[m]}
<1>4. 0 \in Good
  BY <1>2 DEF TotalsTo
<1>5. ASSUME NEW m \in Nat, m \in Good PROVE m + 1 \in Good
  BY <1>2, <1>5 DEF TotalsTo
<1> HIDE DEF Good
<1>6. Len(queue) \in Good
  BY <1>4, <1>5, NatInductionOnSets
<1> QED
  BY <1>3, <1>6 DEF Good

\* An empty queue holds nothing.
LEMMA EmptyQueueSize == QueuedBytes(<<>>) = 0
<1>1. <<>> \in Seq(Buffer) /\ Len(<<>>) = 0
  OBVIOUS
<1>2. PICK f : TotalsTo(f, <<>>, Len(<<>>))
  BY <1>1, TotalsExist
<1>3. f[0] = 0
  BY <1>2 DEF TotalsTo
<1> QED
  BY <1>1, <1>2, <1>3, LastTotal

\* A buffer at the end adds its size,
LEMMA AppendedSize ==
    ASSUME NEW queue \in Seq(Buffer), NEW b \in Buffer
    PROVE  QueuedBytes(Append(queue, b)) = QueuedBytes(queue) + b.size
<1>1. PICK k \in Nat : k = Len(queue)
  BY LenProperties
<1>2. PICK f : TotalsTo(f, queue, k)
  BY <1>1, TotalsExist
<1>3. PICK q : q = Append(queue, b)
  OBVIOUS
<1>4. /\ q \in Seq(Buffer) /\ Len(q) = k + 1 /\ q[k + 1] = b
      /\ \A i \in 1..k : q[i] = queue[i]
  BY <1>1, <1>3, AppendProperties
<1>5. b.size \in Nat
  BY DEF Buffer
<1> DEFINE g == [i \in 0..(k + 1) |-> IF i = k + 1 THEN f[k] + b.size ELSE f[i]]
<1>6. g \in [0..(k + 1) -> Nat] /\ g[0] = 0
  BY <1>2, <1>5 DEF TotalsTo
<1>7. ASSUME NEW i \in 1..(k + 1) PROVE g[i] = g[i - 1] + q[i].size
  <2>1. CASE i = k + 1
    BY <1>4, <2>1
  <2>2. CASE i \in 1..k
    <3>1. f[i] = f[i - 1] + queue[i].size /\ q[i] = queue[i]
      BY <1>2, <1>4, <2>2 DEF TotalsTo
    <3> QED
      BY <2>2, <3>1
  <2> QED
    BY <2>1, <2>2
<1>8. g[k + 1] = f[k] + b.size
  OBVIOUS
<1> HIDE DEF g
<1>9. TotalsTo(g, q, k + 1)
  BY <1>6, <1>7 DEF TotalsTo
<1>10. QueuedBytes(q) = g[k + 1]
  BY <1>4, <1>9, LastTotal
<1>11. QueuedBytes(queue) = f[k]
  BY <1>1, <1>2, LastTotal
<1> QED
  BY <1>3, <1>8, <1>10, <1>11

\* and one taken from the front takes its size away.
LEMMA PoppedSize ==
    ASSUME NEW queue \in Seq(Buffer), queue # <<>>
    PROVE  /\ QueuedBytes(Tail(queue)) = QueuedBytes(queue) - Head(queue).size
           /\ QueuedBytes(Tail(queue)) \in Nat
<1>1. PICK k \in Nat : k = Len(queue)
  BY LenProperties
<1>2. k > 0
  BY <1>1, EmptySeq
<1>3. PICK f : TotalsTo(f, queue, k)
  BY <1>1, TotalsExist
<1>4. PICK q : q = Tail(queue)
  OBVIOUS
<1>5. /\ q \in Seq(Buffer) /\ Len(q) = k - 1
      /\ \A i \in 1..(k - 1) : q[i] = queue[i + 1]
  BY <1>1, <1>2, <1>4, HeadTailProperties
<1>6. PICK z : z = queue[1].size
  OBVIOUS
<1>7. z \in Nat /\ z = Head(queue).size
  <2>1. Head(queue) = queue[1] /\ queue[1] \in Buffer
    BY <1>1, <1>2, HeadTailProperties, ElementOfSeq
  <2> QED
    BY <1>6, <2>1 DEF Buffer
<1>8. PICK g : TotalsTo(g, q, k - 1)
  BY <1>5, TotalsExist
<1> DEFINE Good == {m \in Nat : m <= k - 1 => f[m + 1] = g[m] + z}
<1>9. 0 \in Good
  <2>1. f[1] = f[0] + queue[1].size /\ f[0] = 0 /\ g[0] = 0
    BY <1>2, <1>3, <1>8 DEF TotalsTo
  <2> QED
    BY <1>6, <1>7, <2>1
<1>10. ASSUME NEW m \in Nat, m \in Good PROVE m + 1 \in Good
  <2> SUFFICES ASSUME m + 1 <= k - 1 PROVE f[m + 2] = g[m + 1] + z
    BY <1>10
  <2>1. PICK x : x = queue[m + 2].size
    OBVIOUS
  <2>2. x \in Nat /\ x = q[m + 1].size
    <3>1. m + 2 \in 1..k /\ m + 1 \in 1..(k - 1) /\ m + 2 = (m + 1) + 1
      OBVIOUS
    <3>2. queue[m + 2] \in Buffer
      BY <1>1, <3>1, ElementOfSeq
    <3>3. q[m + 1] = queue[(m + 1) + 1]
      BY <1>5, <3>1
    <3> QED
      BY <2>1, <3>1, <3>2, <3>3 DEF Buffer
  <2>3. f[m + 2] = f[m + 1] + x
    <3>1. m + 2 \in 1..k /\ (m + 2) - 1 = m + 1
      OBVIOUS
    <3> QED
      BY <1>3, <2>1, <3>1 DEF TotalsTo
  <2>4. g[m + 1] = g[m] + x /\ g[m] \in Nat
    <3>1. m + 1 \in 1..(k - 1) /\ (m + 1) - 1 = m /\ m \in 0..(k - 1)
      OBVIOUS
    <3> QED
      BY <1>8, <2>2, <3>1 DEF TotalsTo
  <2>5. f[m + 1] = g[m] + z
    BY <1>10
  <2>6. PICK u \in Nat : u = g[m]
    BY <2>4
  <2>7. (u + z) + x = (u + x) + z
    BY <1>7, <2>2
  <2>8. f[m + 2] = (u + z) + x /\ g[m + 1] = u + x
    BY <2>3, <2>4, <2>5, <2>6
  <2> QED
    BY <2>7, <2>8
<1> HIDE DEF Good
<1>11. k - 1 \in Good
  BY <1>2, <1>9, <1>10, NatInductionOnSets
<1>12. f[k] = g[k - 1] + z /\ g[k - 1] \in Nat
  BY <1>2, <1>8, <1>11 DEF Good, TotalsTo
<1>13. QueuedBytes(queue) = f[k] /\ QueuedBytes(q) = g[k - 1]
  BY <1>1, <1>3, <1>5, <1>8, LastTotal
<1> QED
  BY <1>4, <1>7, <1>12, <1>13

AudioTypes ==
    /\ device \in {"capture", "playback", "freed"} /\ streaming \in BOOLEAN
    /\ inCallback \in Buffer /\ produced \in Nat
    /\ captured \in Seq(Buffer) /\ capturedBytes \in Nat /\ heard \in Seq(Nat)

\* The buffers that were read, that are queued and that the streaming thread holds
\* have consecutive numbers, and none is missing while the stream goes on.
Consecutive ==
    /\ \A i \in 1..Len(heard) : heard[i] \in {i, Lost}
    /\ \A i \in 1..Len(captured) : captured[i].n = Len(heard) + i
    /\ inCallback # NoBuffer =>
         inCallback.n = produced /\ Len(heard) + Len(captured) + 1 = produced
    /\ inCallback = NoBuffer /\ streaming => Len(heard) + Len(captured) = produced

\* A device that was freed has no streaming thread.
FreedIsQuiet == device = "freed" => ~streaming /\ inCallback = NoBuffer

AudioInvariant ==
    AudioTypes /\ Consecutive /\ FreedIsQuiet /\ capturedBytes = QueuedBytes(captured)

\* Every step of the streaming thread, of the caller and of the device keeps them.
LEMMA AudioStep == AudioInvariant /\ [AudioNext]_audioVars => AudioInvariant'
<1> SUFFICES ASSUME AudioInvariant, [AudioNext]_audioVars PROVE AudioInvariant'
  OBVIOUS
<1>0. /\ AudioTypes /\ Consecutive /\ FreedIsQuiet /\ capturedBytes = QueuedBytes(captured)
      /\ NoBuffer \in Buffer
  BY DEF AudioInvariant, NoBuffer, Buffer
<1>a. PICK h \in Nat : h = Len(heard)
  BY <1>0, LenProperties DEF AudioTypes
<1>b. PICK c \in Nat : c = Len(captured)
  BY <1>0, LenProperties DEF AudioTypes
<1>c. /\ \A i \in 1..h : heard[i] \in {i, Lost}
      /\ \A i \in 1..c : captured[i].n = h + i
      /\ inCallback # NoBuffer => inCallback.n = produced /\ h + c + 1 = produced
      /\ inCallback = NoBuffer /\ streaming => h + c = produced
  BY <1>0, <1>a, <1>b DEF Consecutive
<1>1. ASSUME UNCHANGED <<device, streaming, inCallback, produced, captured, capturedBytes, heard>>
      PROVE  AudioInvariant'
  BY <1>0, <1>1 DEF AudioInvariant, AudioTypes, Consecutive, FreedIsQuiet
<1>2. ASSUME NEW size \in AudioSizes, CaptureEnter(size)
      PROVE  AudioInvariant'
  <2>1. /\ device # "playback" /\ streaming /\ inCallback = NoBuffer /\ produced' = produced + 1
        /\ inCallback' = [n |-> produced + 1, size |-> size]
        /\ UNCHANGED <<device, streaming, captured, capturedBytes, heard>>
    BY <1>2 DEF CaptureEnter
  <2>2. inCallback' \in Buffer /\ inCallback'.n = produced' /\ produced' \in Nat
    BY <1>0, <2>1, AudioAssumption DEF AudioTypes, Buffer
  <2>3. h + c + 1 = produced'
    BY <1>a, <1>b, <1>c, <2>1
  <2>4. AudioTypes'
    BY <1>0, <2>1, <2>2 DEF AudioTypes
  <2>5. inCallback' # NoBuffer
    BY <1>0, <2>1, <2>2 DEF NoBuffer, AudioTypes
  <2>6. Consecutive'
    BY <1>0, <1>a, <1>b, <2>1, <2>2, <2>3, <2>5 DEF Consecutive
  <2>7. FreedIsQuiet'
    BY <1>0, <2>1 DEF FreedIsQuiet
  <2> QED
    BY <1>0, <2>1, <2>4, <2>6, <2>7 DEF AudioInvariant
<1>3. CASE CaptureSample
  <2>1. /\ inCallback # NoBuffer /\ inCallback' = NoBuffer
        /\ UNCHANGED <<device, produced, heard>>
        /\ streaming' = (streaming /\ ~audioFailed')
    BY <1>3 DEF CaptureSample
  <2>2. device # "freed" /\ inCallback.n = produced /\ h + c + 1 = produced
    BY <1>0, <1>c, <2>1 DEF FreedIsQuiet
  <2>3. streaming' \in BOOLEAN
    BY <2>1
  <2>4. FreedIsQuiet'
    BY <2>1, <2>2 DEF FreedIsQuiet
  <2>5. CASE Fits(inCallback.size)
    <3>1. captured' = Append(captured, inCallback) /\ capturedBytes' = capturedBytes + inCallback.size
      BY <1>3, <2>5 DEF CaptureSample
    <3>2. PICK q : q = Append(captured, inCallback)
      OBVIOUS
    <3>3. /\ q \in Seq(Buffer) /\ Len(q) = c + 1 /\ q[c + 1] = inCallback
          /\ \A i \in 1..c : q[i] = captured[i]
      BY <1>0, <1>b, <3>2, AppendProperties DEF AudioTypes
    <3>4. inCallback.size \in Nat
      BY <1>0 DEF AudioTypes, Buffer
    <3>5. AudioTypes'
      BY <1>0, <2>1, <2>3, <3>1, <3>2, <3>3, <3>4 DEF AudioTypes
    <3>6. capturedBytes' = QueuedBytes(captured')
      BY <1>0, <3>1, AppendedSize DEF AudioTypes
    <3>7. ASSUME NEW i \in 1..(c + 1) PROVE q[i].n = h + i
      <4>1. CASE i = c + 1
        BY <1>a, <1>b, <2>2, <3>3, <4>1
      <4>2. CASE i \in 1..c
        BY <1>c, <3>3, <4>2
      <4> QED
        BY <4>1, <4>2
    <3>8. h + (c + 1) = produced
      BY <1>a, <1>b, <2>2
    <3>9. Consecutive'
      BY <1>a, <1>c, <2>1, <3>1, <3>2, <3>3, <3>7, <3>8 DEF Consecutive
    <3> QED
      BY <2>4, <3>5, <3>6, <3>9 DEF AudioInvariant
  <2>6. CASE ~Fits(inCallback.size)
    <3>1. audioFailed' = TRUE /\ UNCHANGED <<captured, capturedBytes>>
      BY <1>3, <2>6 DEF CaptureSample
    <3>2. streaming' = FALSE
      BY <2>1, <3>1
    <3>3. AudioTypes'
      BY <1>0, <2>1, <2>3, <3>1 DEF AudioTypes
    <3>4. Consecutive'
      BY <1>0, <2>1, <3>1, <3>2 DEF Consecutive
    <3> QED
      BY <1>0, <2>4, <3>1, <3>3, <3>4 DEF AudioInvariant
  <2> QED
    BY <2>5, <2>6
<1>4. CASE BusError
  <2>1. streaming' = FALSE /\ UNCHANGED <<device, inCallback, produced, captured, capturedBytes, heard>>
    BY <1>4 DEF BusError
  <2>2. AudioTypes' /\ Consecutive' /\ FreedIsQuiet'
    BY <1>0, <2>1 DEF AudioTypes, Consecutive, FreedIsQuiet
  <2> QED
    BY <1>0, <2>1, <2>2 DEF AudioInvariant
<1>5. CASE AudioReadPop
  <2>1. CASE captured = <<>>
    BY <1>1, <1>5, <2>1 DEF AudioReadPop
  <2>2. CASE captured # <<>>
    <3>1. /\ captured' = Tail(captured)
          /\ capturedBytes' = capturedBytes - Head(captured).size
          /\ UNCHANGED <<device, streaming, inCallback, produced>>
      BY <1>5, <2>2 DEF AudioReadPop
    <3>a. PICK result \in {Head(captured).n, Lost} : heard' = Append(heard, result)
      BY <1>5, <2>2 DEF AudioReadPop
    <3>2. c > 0
      BY <1>0, <1>b, <2>2, EmptySeq DEF AudioTypes
    <3>3. PICK q : q = Tail(captured)
      OBVIOUS
    <3>4. /\ q \in Seq(Buffer) /\ Len(q) = c - 1 /\ Head(captured) = captured[1]
          /\ \A i \in 1..(c - 1) : q[i] = captured[i + 1]
      BY <1>0, <1>b, <2>2, <3>3, HeadTailProperties DEF AudioTypes
    <3>5. Head(captured).n = h + 1
      BY <1>c, <3>2, <3>4
    <3>b. result \in Nat /\ result \in {h + 1, Lost}
      BY <1>a, <3>a, <3>5 DEF Lost
    <3>6. PICK r : r = Append(heard, result)
      OBVIOUS
    <3>7. /\ r \in Seq(Nat) /\ Len(r) = h + 1 /\ r[h + 1] = result
          /\ \A i \in 1..h : r[i] = heard[i]
      BY <1>0, <1>a, <3>b, <3>6, AppendProperties DEF AudioTypes
    <3>8. heard' = r /\ captured' = q
      BY <3>1, <3>3, <3>a, <3>6
    <3>9. capturedBytes' = QueuedBytes(captured') /\ capturedBytes' \in Nat
      BY <1>0, <2>2, <3>1, PoppedSize DEF AudioTypes
    <3>10. AudioTypes'
      BY <1>0, <3>1, <3>4, <3>7, <3>8, <3>9 DEF AudioTypes
    <3>11. ASSUME NEW i \in 1..(c - 1) PROVE q[i].n = (h + 1) + i
      <4>1. i + 1 \in 1..c /\ h + (i + 1) = (h + 1) + i
        BY <1>a, <1>b
      <4>2. q[i] = captured[i + 1] /\ captured[i + 1].n = h + (i + 1)
        BY <1>c, <3>4, <4>1
      <4> QED
        BY <4>1, <4>2
    <3>12. ASSUME NEW i \in 1..(h + 1) PROVE r[i] \in {i, Lost}
      <4>1. CASE i = h + 1
        BY <3>b, <3>7, <4>1
      <4>2. CASE i \in 1..h
        BY <1>c, <3>7, <4>2
      <4> QED
        BY <4>1, <4>2
    <3>13. (h + 1) + (c - 1) = h + c
      BY <1>a, <1>b
    <3>14. Consecutive'
      BY <1>c, <3>1, <3>4, <3>7, <3>8, <3>11, <3>12, <3>13 DEF Consecutive
    <3>15. FreedIsQuiet'
      BY <1>0, <3>1 DEF FreedIsQuiet
    <3> QED
      BY <3>9, <3>10, <3>14, <3>15 DEF AudioInvariant
  <2> QED
    BY <2>1, <2>2
<1>6. CASE AudioFree
  <2>1. /\ device' = "freed" /\ streaming' = FALSE /\ captured' = <<>> /\ capturedBytes' = 0
        /\ inCallback = NoBuffer /\ UNCHANGED <<inCallback, produced, heard>>
    BY <1>6 DEF AudioFree
  <2>2. <<>> \in Seq(Buffer) /\ Len(<<>>) = 0
    OBVIOUS
  <2>3. AudioTypes' /\ FreedIsQuiet'
    BY <1>0, <2>1, <2>2 DEF AudioTypes, FreedIsQuiet
  <2>4. Consecutive'
    BY <1>0, <2>1, <2>2 DEF Consecutive
  <2> QED
    BY <2>1, <2>3, <2>4, EmptyQueueSize DEF AudioInvariant
<1>7. ASSUME NEW size \in AudioSizes, AudioWrite(size)
      PROVE  AudioInvariant'
  BY <1>1, <1>7 DEF AudioWrite
<1>8. CASE AudioState \/ AudioReadCheck \/ DeviceConsumes
  BY <1>1, <1>8 DEF AudioState, AudioReadCheck, DeviceConsumes
<1>9. CASE UNCHANGED audioVars
  BY <1>1, <1>9 DEF audioVars
<1> QED
  BY <1>2, <1>3, <1>4, <1>5, <1>6, <1>7, <1>8, <1>9 DEF AudioNext

\* Captured audio has no silent hole, for buffers of any sizes and any limits: what
\* was read is what the device produced, from the first buffer on, except for the
\* buffers for which the reader got an error; the queued bytes are counted
\* exactly, and a freed device has no thread in its callback.
THEOREM AudioCaptureIsWhole == AudioSpec => []CaptureIsWhole
<1>1. AudioInit => AudioInvariant
  <2>1. <<>> \in Seq(Buffer) /\ <<>> \in Seq(Nat) /\ Len(<<>>) = 0
    OBVIOUS
  <2> QED
    BY <2>1, EmptyQueueSize
       DEF AudioInit, AudioInvariant, AudioTypes, Consecutive, FreedIsQuiet, NoBuffer, Buffer
<1>2. AudioInvariant => CaptureIsWhole
  <2> SUFFICES ASSUME AudioInvariant PROVE CaptureIsWhole
    OBVIOUS
  <2>1. DOMAIN heard = 1..Len(heard)
    BY LenProperties DEF AudioInvariant, AudioTypes
  <2> QED
    BY <2>1 DEF AudioInvariant, Consecutive, FreedIsQuiet, CaptureIsWhole
<1> QED
  BY <1>1, <1>2, AudioStep, PTL DEF AudioSpec

-----------------------------------------------------------------------------
(* MediaPeer. *)

\* Promises are numbered like the requests they were made for.
PeerTypes ==
    /\ promises \in Seq([reply : Nat, done : BOOLEAN]) /\ Len(promises) = requests
    /\ requests \in Nat /\ operation \in 0 .. requests /\ caller \in 0 .. requests
    /\ asked \subseteq [request : 1 .. requests, promise : 1 .. requests]

\* A promise is replied to by its own request and by no other.
PromiseOfRequest ==
    /\ \A p \in 1 .. requests :
        /\ promises[p].reply \in {0, p}
        /\ promises[p].done => promises[p].reply = p
    /\ \A a \in asked : a.request = a.promise /\ promises[a.promise].reply = 0

\* The operation of the peer is the latest request, and so is the caller's.
CallerOwnsOperation ==
    /\ operation # 0 => operation = requests
    /\ caller # 0 => caller = operation
    /\ answer.to = answer.of

PeerInvariant == PeerTypes /\ PromiseOfRequest /\ CallerOwnsOperation

\* A promise that is replied to, or done, stays a promise among as many.
LEMMA PromiseChanges ==
    ASSUME PeerTypes, NEW p \in 1 .. requests, NEW n \in Nat,
           \/ promises' = [promises EXCEPT ![p].reply = n]
           \/ promises' = [promises EXCEPT ![p].done = TRUE]
    PROVE  promises' \in Seq([reply : Nat, done : BOOLEAN]) /\ Len(promises') = Len(promises)
<1> DEFINE Promise == [reply : Nat, done : BOOLEAN]
<1>1. ASSUME NEW q \in Promise
      PROVE  /\ [promises EXCEPT ![p] = q] \in Seq(Promise)
             /\ Len([promises EXCEPT ![p] = q]) = Len(promises)
    BY ExceptSeq DEF PeerTypes
<1>2. promises[p] \in Promise
    BY ElementOfSeq DEF PeerTypes
<1>3. /\ [promises[p] EXCEPT !.reply = n] \in Promise
      /\ [promises[p] EXCEPT !.done = TRUE] \in Promise
    BY <1>2
<1>4. CASE promises' = [promises EXCEPT ![p].reply = n]
    <2>1. promises' = [promises EXCEPT ![p] = [promises[p] EXCEPT !.reply = n]]
        BY <1>4
    <2> QED
        BY <1>1, <1>3, <2>1
<1>5. CASE promises' = [promises EXCEPT ![p].done = TRUE]
    <2>1. promises' = [promises EXCEPT ![p] = [promises[p] EXCEPT !.done = TRUE]]
        BY <1>5
    <2> QED
        BY <1>1, <1>3, <2>1
<1> QED
    BY <1>4, <1>5

\* A new request has a promise of its own and leaves the others alone.
LEMMA RequestKeepsInvariant ==
    ASSUME PeerInvariant, operation = 0, Begin, Ask(operation'), UNCHANGED answer
    PROVE  PeerInvariant'
<1> USE DEF PeerInvariant, PeerTypes, PromiseOfRequest, CallerOwnsOperation, Begin, Ask, Pending
<1>1. /\ promises' \in Seq([reply : Nat, done : BOOLEAN]) /\ Len(promises') = requests'
      /\ requests' = requests + 1 /\ requests' \in Nat
      /\ operation' = requests' /\ caller' = requests'
    OBVIOUS
<1>2. /\ \A p \in 1 .. requests : promises'[p] = promises[p]
      /\ promises'[requests'].reply = 0 /\ ~promises'[requests'].done
    BY <1>1
<1>3. asked' = asked \cup {[request |-> requests', promise |-> requests']}
    BY <1>1
<1>4. PeerTypes'
    BY <1>1, <1>3
<1>5. PromiseOfRequest'
    BY <1>1, <1>2, <1>3
<1> QED
    BY <1>1, <1>4, <1>5

\* Every step of the caller, of webrtcbin and of its callbacks keeps the invariant.
LEMMA PeerStep == PeerInvariant /\ [PeerNext]_peerVars => PeerInvariant'
<1> SUFFICES ASSUME PeerInvariant, [PeerNext]_peerVars PROVE PeerInvariant'
    OBVIOUS
<1> USE DEF PeerInvariant, PeerTypes, PromiseOfRequest, CallerOwnsOperation
<1>1. CASE PeerCreateDescription \/ PeerSetDescription
    BY <1>1, RequestKeepsInvariant DEF PeerCreateDescription, PeerSetDescription
<1>2. CASE PeerOperation
    BY <1>2 DEF PeerOperation
<1>3. CASE PollAbandoned
    BY <1>3 DEF PollAbandoned
<1>4. ASSUME NEW a \in asked, PromiseReplied(a) PROVE PeerInvariant'
    <2> USE <1>4 DEF PromiseReplied
    <2>1. /\ a.promise \in 1 .. requests /\ a.request = a.promise
          /\ promises' = [promises EXCEPT ![a.promise].reply = a.promise]
        OBVIOUS
    <2>2. PeerTypes'
        <3>1. a.promise \in Nat
            BY <2>1
        <3>2. promises' \in Seq([reply : Nat, done : BOOLEAN]) /\ Len(promises') = Len(promises)
            BY <2>1, <3>1, PromiseChanges
        <3> QED
            BY <3>2
    <2>3. \A b \in asked' : b.promise # a.promise
        BY <2>1
    <2>4. PromiseOfRequest'
        BY <2>1, <2>3
    <2> QED
        BY <2>2, <2>4
<1>5. ASSUME NEW p \in DOMAIN promises, OperationDone(p) PROVE PeerInvariant'
    <2>1. p \in 1 .. requests
        OBVIOUS
    <2>2. promises' \in Seq([reply : Nat, done : BOOLEAN]) /\ Len(promises') = Len(promises)
        BY <1>5, <2>1, PromiseChanges, 0 \in Nat DEF OperationDone
    <2> QED
        BY <1>5, <2>1, <2>2 DEF OperationDone
<1>6. CASE UNCHANGED signalingVars
    BY <1>6 DEF signalingVars
<1>7. CASE PeerFree
    BY <1>7 DEF PeerFree, CanCall
<1>8. CASE UNCHANGED peerVars
    BY <1>8 DEF peerVars
<1> QED
    BY <1>1, <1>2, <1>3, <1>4, <1>5, <1>6, <1>7, <1>8
    DEF PeerNext, Incoming, PeerBusError, PeerState, PeerPush, Encode, Receive, PeerPull

\* A late reply to an abandoned request is never taken for the answer to the
\* next one, for any number of requests.
THEOREM PeerAnswersOwnRequest == PeerSpec => []AnswerToOwnRequest
<1>1. PeerInit => PeerInvariant
    BY DEF PeerInit, PeerInvariant, PeerTypes, PromiseOfRequest, CallerOwnsOperation
<1>2. PeerInvariant => AnswerToOwnRequest
    BY DEF PeerInvariant, PeerTypes, PromiseOfRequest, CallerOwnsOperation, AnswerToOwnRequest
<1> QED
    BY <1>1, <1>2, PeerStep, PTL DEF PeerSpec

-----------------------------------------------------------------------------
(* MediaHelper. *)

MediaTypes ==
    /\ client \in {"new", "idle", "freed", "dead"} \cup InRequest \cup InClose
    /\ held \in {"none", "peer", "audio"}
    /\ fd \in {"none", "open", "closed"} /\ closes \in Nat
    /\ req \in [of : Nat, op : Ops, len : {0, 1}]
    /\ job \in [of : Nat, op : Ops, result : Int, len : {0, 1}]
    /\ helper \in {"none", "boot", "readHead", "readBody", "perform", "replyHead",
                   "replyBody", "release", "exited", "reaped"}
    /\ ran \in Nat

\* The child is not in a request, or will never be again.
Resting == {"readHead", "release", "exited", "reaped"}

\* Nothing that belongs to a request is under way.
Quiet == toHelper = <<>> /\ toClient = <<>>

\* The request on its way to the child: it has not been performed.
RequestOnWire ==
    \/ toHelper = <<>>
    \/ /\ toHelper = <<req>> \/ (req.len > 0 /\ toHelper = <<req, BodyOf(req)>>)
       /\ helper \in Resting \cup {"boot"} /\ ran + 1 = req.of /\ toClient = <<>>
    \/ /\ toHelper = <<BodyOf(req)>> /\ req.len > 0
       /\ helper \in {"readBody", "exited", "reaped"} /\ ran + 1 = req.of /\ toClient = <<>>

\* The child handles the request of its client, and only once.
ChildOnRequest ==
    /\ helper \in {"readBody", "perform", "replyHead", "replyBody"} =>
        job.of = req.of /\ job.op = req.op
    /\ helper \in {"readBody", "perform"} => ran + 1 = req.of /\ toClient = <<>>
    /\ helper = "readBody" => req.len > 0
    /\ helper \in {"perform", "replyHead", "replyBody"} => toHelper = <<>>
    /\ helper \in {"replyHead", "replyBody"} => ran = req.of
    /\ helper = "replyHead" => toClient = <<>>
    /\ helper = "replyBody" => toClient \in {<<>>, <<job>>} /\ job.len > 0

\* The answer on its way to the client is the one to its latest request.
AnswerOnWire ==
    toClient # <<>> =>
        /\ job.of = req.of /\ job.op = req.op /\ ran = req.of /\ toHelper = <<>>
        /\ \/ toClient = <<job>> /\ helper \in Resting \cup {"replyBody"}
           \/ toClient = <<job, BodyOf(job)>> /\ helper \in Resting /\ job.len > 0
           \/ toClient = <<BodyOf(job)>> /\ helper \in Resting

\* Where the client is, and what it may find there.
ClientInRequest ==
    /\ client = "new" =>
        /\ fd = "none" /\ helper = "none" /\ req.of = 0 /\ ran = 0 /\ Quiet
    /\ client \in InRequest => fd = "open" /\ (req.op \in OpenOps => req.of = 1)
    /\ client = "sendHead" =>
        Quiet /\ ran + 1 = req.of /\ helper \in Resting \cup {"boot"}
    /\ client = "sendBody" =>
        /\ req.len > 0 /\ toClient = <<>> /\ ran + 1 = req.of
        /\ toHelper = <<req>> \/ (toHelper = <<>> /\ helper \in {"readBody", "exited"})
    /\ client = "recvBody" =>
        /\ ran = req.of /\ toHelper = <<>> /\ helper \in Resting \cup {"replyBody"}
        /\ toClient \in {<<>>, <<BodyOf(job)>>}
    /\ client = "idle" /\ fd = "open" => Quiet /\ ran = req.of /\ helper \in Resting

\* Who closed the descriptor, and who still has the child and its resource.
Ownership ==
    /\ closes \in {0, 1} /\ (fd # "closed" => closes = 0)
    /\ client \in InClose => fd = "closed"
    /\ client = "freed" => helper \in {"none", "reaped"} /\ fd # "open"
    /\ helper = "reaped" => client \in {"freed", "dead"}
    /\ helper \in {"none", "boot", "exited", "reaped"} => resource = "none"

MediaInvariant ==
    /\ MediaTypes /\ RequestOnWire /\ ChildOnRequest /\ AnswerOnWire /\ ClientInRequest
    /\ Ownership

\* What the queues of at most two messages look like.
LEMMA ShortQueues ==
    ASSUME NEW a, NEW b
    PROVE  /\ Append(<<>>, a) = <<a>> /\ Append(<<a>>, b) = <<a, b>>
           /\ Head(<<a>>) = a /\ Tail(<<a>>) = <<>> /\ <<a>> # <<>>
           /\ Head(<<a, b>>) = a /\ Tail(<<a, b>>) = <<b>> /\ <<a, b>> # <<>>
<1> DEFINE S == {a, b}
<1>1. <<>> \in Seq(S) /\ <<a>> \in Seq(S) /\ <<b>> \in Seq(S) /\ <<a, b>> \in Seq(S)
    OBVIOUS
<1>2. Append(<<>>, a) = <<a>>
    BY <1>1
<1>3. Append(<<a>>, b) = <<a, b>>
    <2>1. Append(<<a>>, b) \in Seq(S) /\ Len(Append(<<a>>, b)) = 2
        BY <1>1
    <2>2. Append(<<a>>, b)[1] = a /\ Append(<<a>>, b)[2] = b
        BY <1>1
    <2>3. Len(<<a, b>>) = 2 /\ <<a, b>>[1] = a /\ <<a, b>>[2] = b
        OBVIOUS
    <2>4. \A i \in 1 .. 2 : i = 1 \/ i = 2
        OBVIOUS
    <2>5. \A i \in 1 .. Len(Append(<<a>>, b)) : Append(<<a>>, b)[i] = <<a, b>>[i]
        BY <2>1, <2>2, <2>3, <2>4
    <2> QED
        BY <1>1, <2>1, <2>3, <2>5, SeqEqual
<1>4. Tail(<<a>>) = <<>>
    BY <1>1
<1>5. Tail(<<a, b>>) = <<b>>
    BY <1>1
<1> QED
    BY <1>1, <1>2, <1>3, <1>4, <1>5

\* A header is told from a body.
LEMMA HeadersAndBodies ==
    ASSUME MediaTypes
    PROVE  /\ IsHeader(req) /\ ~IsHeader(BodyOf(req)) /\ <<BodyOf(req)>> # <<req>>
           /\ IsHeader(job) /\ ~IsHeader(BodyOf(job)) /\ <<BodyOf(job)>> # <<job>>
           /\ BodyOf(job).of = job.of
<1>1. /\ IsHeader(req) /\ ~IsHeader(BodyOf(req))
      /\ IsHeader(job) /\ ~IsHeader(BodyOf(job))
    BY DEF MediaTypes, IsHeader, BodyOf
<1>2. BodyOf(req) # req /\ BodyOf(job) # job
    BY <1>1
<1> QED
    BY <1>1, <1>2, ShortQueues DEF BodyOf

\* The request and the answer of the child are messages.
LEMMA RequestFields ==
    ASSUME NEW n \in Nat, NEW op \in Ops
    PROVE  /\ Request(n, op) \in [of : Nat, op : Ops, len : {0, 1}]
           /\ Request(n, op).of = n /\ Request(n, op).op = op
BY DEF Request, Length
LEMMA ReplyFields ==
    ASSUME NEW j, j.of \in Nat, j.op \in Ops, NEW n \in Int
    PROVE  /\ Reply(j, n) \in [of : Nat, op : Ops, result : Int, len : {0, 1}]
           /\ Reply(j, n).of = j.of /\ Reply(j, n).op = j.op
BY DEF Reply, Length

\* The operations of a resource open nothing.
LEMMA OperationsOpenNothing ==
    /\ OpenOps \subseteq Ops /\ PeerOps \cup AudioOps \subseteq Ops
    /\ \A op \in PeerOps \cup AudioOps : op \notin OpenOps
BY DEF Ops, OpenOps, PeerOps, AudioOps

\* The failure path of media_request: the descriptor was open and is closed now.
LEMMA GiveUpKeepsInvariant ==
    ASSUME MediaInvariant, client \in InRequest, GiveUp
    PROVE  MediaInvariant'
BY DEF MediaInvariant, MediaTypes, RequestOnWire, ChildOnRequest, AnswerOnWire,
       ClientInRequest, Ownership, GiveUp, helperVars, InRequest, InClose, Quiet

\* The client's side of a request keeps the invariant.
LEMMA ClientStepKeepsInvariant ==
    ASSUME MediaInvariant,
           \/ MediaOpenFails
           \/ (\E op \in OpenOps : MediaOpen(op))
           \/ (\E op \in PeerOps \cup AudioOps : MediaRequest(op))
           \/ MediaClose \/ ClientStep \/ ClientDies
    PROVE  MediaInvariant'
<1> USE DEF MediaInvariant, MediaTypes, InRequest, InClose, helperVars
<1>1. CASE MediaOpenFails
    BY <1>1 DEF MediaOpenFails, RequestOnWire, ChildOnRequest, AnswerOnWire, ClientInRequest,
                Ownership, Quiet
<1>2. ASSUME NEW op \in OpenOps, MediaOpen(op) PROVE MediaInvariant'
    <2>1. Request(1, op) \in [of : Nat, op : Ops, len : {0, 1}] /\ Request(1, op).of = 1
        BY RequestFields, OperationsOpenNothing
    <2> HIDE DEF Request
    <2> QED
        BY <1>2, <2>1 DEF MediaOpen, Kind, RequestOnWire, ChildOnRequest, AnswerOnWire,
                          ClientInRequest, Ownership, Quiet, Resting
<1>3. ASSUME NEW op \in PeerOps \cup AudioOps, MediaRequest(op) PROVE MediaInvariant'
    <2>1. /\ Request(req.of + 1, op) \in [of : Nat, op : Ops, len : {0, 1}]
          /\ Request(req.of + 1, op).of = req.of + 1
          /\ Request(req.of + 1, op).op \notin OpenOps
        <3>1. req.of + 1 \in Nat /\ op \in Ops /\ op \notin OpenOps
            BY OperationsOpenNothing
        <3> QED
            BY <3>1, RequestFields
    <2> QED
        BY <1>3, <2>1 DEF MediaRequest, RequestOnWire, ChildOnRequest, AnswerOnWire,
                          ClientInRequest, Ownership, Quiet, Resting
<1>4. CASE MediaClose
    BY <1>4 DEF MediaClose, RequestOnWire, ChildOnRequest, AnswerOnWire, ClientInRequest,
                Ownership, Quiet, Resting
<1>5. CASE SendHead
    <2>1. CASE GiveUp
        BY <1>5, <2>1, GiveUpKeepsInvariant DEF SendHead
    <2>2. CASE ~GiveUp
        <3>1. /\ toHelper' = <<req>> /\ ~HelperGone
              /\ client' = IF req.len > 0 THEN "sendBody" ELSE "recvHead"
              /\ UNCHANGED <<held, fd, closes, polls, req, answered, toClient, helperVars>>
            BY <1>5, <2>2, ShortQueues DEF SendHead, ClientInRequest, Quiet
        <3> QED
            BY <1>5, <3>1 DEF SendHead, HelperGone, RequestOnWire, ChildOnRequest, AnswerOnWire,
                              ClientInRequest, Ownership, Quiet, Resting
    <2> QED
        BY <2>1, <2>2
<1>6. CASE SendBody
    <2>1. CASE GiveUp
        BY <1>6, <2>1, GiveUpKeepsInvariant DEF SendBody
    <2>2. CASE ~GiveUp
        <3>1. /\ toHelper = <<req>> \/ (toHelper = <<>> /\ helper = "readBody")
              /\ toHelper = <<req>> => toHelper' = <<req, BodyOf(req)>>
              /\ toHelper = <<>> => toHelper' = <<BodyOf(req)>>
              /\ client' = "recvHead" /\ ~HelperGone
              /\ UNCHANGED <<held, fd, closes, polls, req, answered, toClient, helperVars>>
            BY <1>6, <2>2, ShortQueues DEF SendBody, ClientInRequest, HelperGone
        <3> QED
            BY <1>6, <3>1, HeadersAndBodies, ShortQueues
            DEF SendBody, HelperGone, RequestOnWire, ChildOnRequest, AnswerOnWire,
                              ClientInRequest, Ownership, Quiet, Resting
    <2> QED
        BY <2>1, <2>2
<1>7. CASE RecvFails
    BY <1>7, GiveUpKeepsInvariant DEF RecvFails
<1>8. CASE RecvHead
    <2>1. CASE GiveUp
        BY <1>8, <2>1, GiveUpKeepsInvariant DEF RecvHead
    <2>2. CASE ~GiveUp
        <3>1. /\ client = "recvHead" /\ toClient # <<>> /\ Plausible(Head(toClient))
              /\ toClient' = Tail(toClient)
              /\ IF Head(toClient).len > 0
                 THEN client' = "recvBody" /\ UNCHANGED <<fd, closes, answered>>
                 ELSE Answered(Head(toClient))
              /\ UNCHANGED <<held, polls, req, toHelper, helperVars>>
            BY <1>8, <2>2 DEF RecvHead
        <3>2. \/ toClient = <<job>> /\ toClient' = <<>>
              \/ toClient = <<job, BodyOf(job)>> /\ toClient' = <<BodyOf(job)>>
            <4>1. IsHeader(Head(toClient)) /\ ~IsHeader(BodyOf(job))
                BY <3>1, HeadersAndBodies DEF Plausible
            <4>2. toClient # <<BodyOf(job)>>
                BY <4>1, ShortQueues
            <4> QED
                BY <3>1, <4>2, ShortQueues, ZenonT(40) DEF AnswerOnWire
        <3>3. Head(toClient) = job
            BY <3>2, ShortQueues
        <3> QED
            BY <3>1, <3>2, <3>3, ShortQueues
            DEF Answered, RequestOnWire, ChildOnRequest, AnswerOnWire, ClientInRequest, Ownership,
                Quiet, Resting
    <2> QED
        BY <2>1, <2>2
<1>9. CASE RecvBody
    <2>1. toClient = <<BodyOf(job)>> /\ toClient' = <<>>
        BY <1>9, ShortQueues DEF RecvBody, ClientInRequest
    <2> QED
        BY <1>9, <2>1, ShortQueues, HeadersAndBodies
        DEF RecvBody, RequestOnWire, ChildOnRequest, AnswerOnWire, ClientInRequest, Ownership,
            Quiet, Resting
<1>10. CASE ReapPoll \/ SignalKill \/ WaitChild
    BY <1>10 DEF ReapPoll, SignalKill, WaitChild, Reaped, RequestOnWire, ChildOnRequest,
                 AnswerOnWire, ClientInRequest, Ownership, Quiet, Resting
<1>11. CASE ClientDies
    BY <1>11 DEF ClientDies, RequestOnWire, ChildOnRequest, AnswerOnWire, ClientInRequest,
                 Ownership, Quiet, Resting
<1> QED
    BY <1>1, <1>2, <1>3, <1>4, <1>5, <1>6, <1>7, <1>8, <1>9, <1>10, <1>11 DEF ClientStep

\* The child's side keeps the invariant.
LEMMA ChildStepKeepsInvariant ==
    ASSUME MediaInvariant, HelperStep \/ Wedge \/ Crash
    PROVE  MediaInvariant'
<1> USE DEF MediaInvariant, MediaTypes, InRequest, InClose, clientVars
<1>1. CASE Boot
    BY <1>1 DEF Boot, RequestOnWire, ChildOnRequest, AnswerOnWire, ClientInRequest, Ownership,
                Quiet, Resting
<1>2. CASE ReadHead
    <2>1. CASE toHelper = <<>> \/ ~IsHeader(Head(toHelper))
        BY <1>2, <2>1, HeadersAndBodies, ShortQueues
        DEF ReadHead, RequestOnWire, ChildOnRequest, AnswerOnWire, ClientInRequest, Ownership,
            Quiet, Resting
    <2>2. CASE toHelper # <<>> /\ IsHeader(Head(toHelper))
        <3>1. /\ Head(toHelper) = req /\ ran + 1 = req.of /\ toClient = <<>>
              /\ \/ toHelper = <<req>> /\ toHelper' = <<>>
                 \/ /\ toHelper = <<req, BodyOf(req)>> /\ toHelper' = <<BodyOf(req)>>
                    /\ req.len > 0
            <4>1. helper = "readHead" /\ toHelper' = Tail(toHelper)
                BY <1>2, <2>2 DEF ReadHead
            <4>2. /\ ran + 1 = req.of /\ toClient = <<>>
                  /\ \/ toHelper = <<req>>
                     \/ req.len > 0 /\ toHelper = <<req, BodyOf(req)>>
                BY <2>2, <4>1 DEF RequestOnWire
            <4>3. CASE toHelper = <<req>>
                BY <4>1, <4>2, <4>3, ShortQueues
            <4>4. CASE req.len > 0 /\ toHelper = <<req, BodyOf(req)>>
                <5>1. Head(toHelper) = req /\ Tail(toHelper) = <<BodyOf(req)>>
                    BY <4>4, ShortQueues
                <5> QED
                    BY <4>1, <4>2, <4>4, <5>1
            <4> QED
                BY <4>2, <4>3, <4>4
        <3>2. /\ job' \in [of : Nat, op : Ops, result : Int, len : {0, 1}]
              /\ job'.of = req.of /\ job'.op = req.op
              /\ helper' = IF req.len > 0 THEN "readBody" ELSE "perform"
            <4>1. req.of \in Nat /\ req.op \in Ops /\ 0 \in Int
                OBVIOUS
            <4>2. job' = Reply(req, 0) /\ helper' = IF req.len > 0 THEN "readBody" ELSE "perform"
                BY <1>2, <2>2, <3>1 DEF ReadHead
            <4> QED
                BY <4>1, <4>2, ReplyFields
        <3> QED
            BY <1>2, <2>2, <3>1, <3>2, ShortQueues
            DEF ReadHead, RequestOnWire, ChildOnRequest, AnswerOnWire, ClientInRequest,
                Ownership, Quiet, Resting
    <2> QED
        BY <2>1, <2>2
<1>3. CASE ReadBody
    <2>1. CASE toHelper = <<>>
        BY <1>3, <2>1 DEF ReadBody, RequestOnWire, ChildOnRequest, AnswerOnWire, ClientInRequest,
                          Ownership, Quiet, Resting
    <2>2. CASE toHelper # <<>>
        <3>1. toHelper = <<BodyOf(req)>> /\ toHelper' = <<>> /\ helper' = "perform"
            BY <1>3, <2>2, ShortQueues DEF ReadBody, RequestOnWire, Resting
        <3> QED
            BY <1>3, <3>1, HeadersAndBodies
            DEF ReadBody, RequestOnWire, ChildOnRequest, AnswerOnWire, ClientInRequest, Ownership,
                Quiet, Resting
    <2> QED
        BY <2>1, <2>2
<1>4. ASSUME NEW n \in -1 .. 1, Perform(n) PROVE MediaInvariant'
    <2>1. CASE UNCHANGED <<job, opened, resource, ran>> /\ helper' = "release"
        BY <1>4, <2>1 DEF Perform, RequestOnWire, ChildOnRequest, AnswerOnWire, ClientInRequest,
                          Ownership, Quiet, Resting
    <2>2. CASE job' = Reply(job, n) /\ ran' = ran + 1 /\ helper' = "replyHead"
        <3>1. /\ job' \in [of : Nat, op : Ops, result : Int, len : {0, 1}]
              /\ job'.of = job.of /\ job'.op = job.op
            BY <2>2, ReplyFields
        <3> QED
            BY <1>4, <2>2, <3>1
            DEF Perform, RequestOnWire, ChildOnRequest, AnswerOnWire, ClientInRequest, Ownership,
                Quiet, Resting
    <2> QED
        BY <1>4, <2>1, <2>2 DEF Perform
<1>5. CASE ReplyHead
    <2>1. CASE fd = "closed"
        BY <1>5, <2>1 DEF ReplyHead, RequestOnWire, ChildOnRequest, AnswerOnWire,
                          ClientInRequest, Ownership, Quiet, Resting
    <2>2. CASE fd # "closed"
        <3>1. toClient' = <<job>> /\ helper' \in {"replyBody", "release", "readHead"}
              /\ (helper' = "replyBody" => job.len > 0)
            BY <1>5, <2>2, ShortQueues DEF ReplyHead, ChildOnRequest, Continue
        <3> QED
            BY <1>5, <2>2, <3>1, ShortQueues
            DEF ReplyHead, RequestOnWire, ChildOnRequest, AnswerOnWire, ClientInRequest,
                Ownership, Quiet, Resting
    <2> QED
        BY <2>1, <2>2
<1>6. CASE ReplyBody
    <2>1. CASE fd = "closed"
        BY <1>6, <2>1 DEF ReplyBody, RequestOnWire, ChildOnRequest, AnswerOnWire,
                          ClientInRequest, Ownership, Quiet, Resting
    <2>2. CASE fd # "closed"
        <3>1. /\ \/ toClient = <<>> /\ toClient' = <<BodyOf(job)>>
                 \/ toClient = <<job>> /\ toClient' = <<job, BodyOf(job)>>
              /\ helper' \in {"release", "readHead"}
            BY <1>6, <2>2, ShortQueues DEF ReplyBody, ChildOnRequest, Continue
        <3> QED
            BY <1>6, <2>2, <3>1, ShortQueues, HeadersAndBodies
            DEF ReplyBody, RequestOnWire, ChildOnRequest, AnswerOnWire, ClientInRequest,
                Ownership, Quiet, Resting
    <2> QED
        BY <2>1, <2>2
<1>7. CASE Release \/ Crash
    BY <1>7 DEF Release, Crash, HelperGone, RequestOnWire, ChildOnRequest, AnswerOnWire,
                ClientInRequest, Ownership, Quiet, Resting
<1>8. CASE Wedge
    BY <1>8 DEF Wedge, RequestOnWire, ChildOnRequest, AnswerOnWire, ClientInRequest, Ownership,
                Quiet, Resting
<1> QED
    BY <1>1, <1>2, <1>3, <1>4, <1>5, <1>6, <1>7, <1>8 DEF HelperStep

\* The invariant holds initially and every step of either process keeps it.
LEMMA MediaInvariantHolds == MediaSpec => []MediaInvariant
<1>1. MediaInit => MediaInvariant
    <2> SUFFICES ASSUME MediaInit PROVE MediaInvariant
        OBVIOUS
    <2>1. NoRequest \in [of : Nat, op : Ops, len : {0, 1}] /\ NoRequest.of = 0
        BY DEF NoRequest, Ops, PeerOps
    <2>2. job \in [of : Nat, op : Ops, result : Int, len : {0, 1}]
        BY <2>1, ReplyFields, 0 \in Int DEF MediaInit
    <2> QED
        BY <2>1, <2>2 DEF MediaInit, MediaInvariant, MediaTypes, RequestOnWire, ChildOnRequest,
                          AnswerOnWire, ClientInRequest, Ownership, InRequest, InClose, Quiet
<1>2. MediaInvariant /\ [MediaNext]_helperProcessVars => MediaInvariant'
    <2> SUFFICES ASSUME MediaInvariant, [MediaNext]_helperProcessVars PROVE MediaInvariant'
        OBVIOUS
    <2>1. CASE UNCHANGED helperProcessVars
        BY <2>1 DEF helperProcessVars, clientVars, helperVars, MediaInvariant, MediaTypes,
                    RequestOnWire, ChildOnRequest, AnswerOnWire, ClientInRequest, Ownership, Quiet
    <2> QED
        BY <2>1, ClientStepKeepsInvariant, ChildStepKeepsInvariant DEF MediaNext
<1> QED
    BY <1>1, <1>2, PTL DEF MediaSpec

\* A freed resource leaves no process, no open descriptor and no device behind,
\* and its descriptor was closed at most once.
THEOREM MediaFreeLeavesNothing == MediaSpec => []FreeLeavesNothing
<1>1. MediaInvariant => FreeLeavesNothing
    BY DEF MediaInvariant, Ownership, FreeLeavesNothing
<1> QED
    BY <1>1, MediaInvariantHolds, PTL

\* Client and child together implement the sequential service: a request is
\* performed at most once and in order, and an answer is taken for the request
\* in progress, whatever times out, crashes or hangs.
THEOREM MediaImplementsService == MediaSpec => ServiceImplemented
<1>1. MediaInit => Service!Init
    BY DEF MediaInit, Service!Init, NoRequest, InRequest
<1>2. MediaInvariant /\ [MediaNext]_helperProcessVars => [Service!Next]_(Service!vars)
    <2> SUFFICES ASSUME MediaInvariant, [MediaNext]_helperProcessVars
                 PROVE  Service!Next \/ UNCHANGED Service!vars
        OBVIOUS
    <2> USE DEF Service!Next, Service!vars, InRequest, helperVars, clientVars
    <2>1. ASSUME client \in InRequest, GiveUp PROVE Service!End
        BY <2>1 DEF GiveUp, Service!End, MediaInvariant, ClientInRequest
    <2>2. CASE MediaOpenFails \/ ReapPoll \/ SignalKill \/ WaitChild \/ Wedge \/ Crash
        BY <2>2 DEF MediaOpenFails, ReapPoll, SignalKill, WaitChild, Reaped, Wedge, Crash
    <2>3. ASSUME NEW op \in OpenOps, MediaOpen(op) PROVE Service!Open
        BY <2>3 DEF MediaOpen, Request, Service!Open, MediaInvariant, ClientInRequest
    <2>4. ASSUME NEW op \in PeerOps \cup AudioOps, MediaRequest(op) PROVE Service!Invoke
        BY <2>4 DEF MediaRequest, Request, Service!Invoke
    <2>5. CASE MediaClose \/ ClientDies
        BY <2>5 DEF MediaClose, ClientDies, Service!End, MediaInvariant, ClientInRequest
    <2>6. CASE SendHead \/ SendBody
        BY <2>1, <2>6 DEF SendHead, SendBody
    <2>7. CASE RecvFails
        BY <2>1, <2>7 DEF RecvFails
    <2>8. CASE RecvHead
        <3>1. CASE GiveUp
            BY <2>1, <2>8, <3>1 DEF RecvHead
        <3>2. CASE ~GiveUp
            <4>1. /\ client = "recvHead" /\ fd = "open" /\ Plausible(Head(toClient))
                  /\ IF Head(toClient).len > 0
                     THEN client' = "recvBody" /\ UNCHANGED <<fd, closes, answered>>
                     ELSE Answered(Head(toClient))
                  /\ UNCHANGED <<req, helperVars>> /\ toClient # <<>>
                BY <2>8, <3>2 DEF RecvHead, MediaInvariant, ClientInRequest
            <4>2. Head(toClient).of = req.of /\ ran = req.of
                BY <4>1, ShortQueues, HeadersAndBodies DEF MediaInvariant, AnswerOnWire
            <4>3. CASE Head(toClient).len > 0
                BY <4>1, <4>3
            <4>4. CASE ~(Head(toClient).len > 0)
                <5>1. /\ client' \notin InRequest /\ answered' = req.of
                      /\ req.of # 1 => fd' = fd
                    BY <4>1, <4>2, <4>4 DEF Answered, MediaInvariant, ClientInRequest
                <5>2. (fd' = "open") \in IF req.of = 1 THEN BOOLEAN ELSE {fd = "open"}
                    BY <5>1
                <5>3. Service!Answer
                    BY <4>1, <4>2, <5>1, <5>2 DEF Service!Answer
                <5> QED
                    BY <5>3
            <4> QED
                BY <4>3, <4>4
        <3> QED
            BY <3>1, <3>2
    <2>9. CASE RecvBody
        <3>1. Head(toClient).of = req.of /\ ran = req.of /\ fd = "open"
            BY <2>9, ShortQueues, HeadersAndBodies
            DEF RecvBody, MediaInvariant, AnswerOnWire, ClientInRequest
        <3>2. (fd' = "open") \in IF req.of = 1 THEN BOOLEAN ELSE {fd = "open"}
            BY <2>9 DEF RecvBody
        <3> QED
            BY <2>9, <3>1, <3>2 DEF RecvBody, Service!Answer
    <2>10. CASE Boot \/ ReadHead \/ ReadBody \/ ReplyHead \/ ReplyBody \/ Release
        BY <2>10 DEF Boot, ReadHead, ReadBody, ReplyHead, ReplyBody, Release
    <2>11. ASSUME NEW n \in -1 .. 1, Perform(n) PROVE Service!Run \/ UNCHANGED Service!vars
        BY <2>11 DEF Perform, Service!Run, MediaInvariant, MediaTypes, ChildOnRequest
    <2>12. CASE UNCHANGED helperProcessVars
        BY <2>12 DEF helperProcessVars
    <2> QED
        BY <2>2, <2>3, <2>4, <2>5, <2>6, <2>7, <2>8, <2>9, <2>10, <2>11, <2>12
        DEF MediaNext, ClientStep, HelperStep
<1> QED
    BY <1>1, <1>2, MediaInvariantHolds, PTL DEF MediaSpec, ServiceImplemented, Service!Spec

=============================================================================
