---------------------------- MODULE ClipboardTypes ----------------------------
(***************************************************************************)
(* ClipboardTypes.c and the image tip of the terminal UI that polls it     *)
(* (ClipboardTip.hs). The tip compares a generation number, which the C    *)
(* code derives from PasteboardSynchronize on a retained reference, and    *)
(* classifies the clipboard only when the number is new. Other programs    *)
(* copy at any time, also between two calls of one poll; flavors read      *)
(* after that are refused by the system until the next synchronize.        *)
(***************************************************************************)
EXTENDS Integers, Sequences

CONSTANTS
    Contents,      \* clipboard contents: sequences of items, each a set of flavors
    MaxCopies      \* bound: how often the clipboard changes

VARIABLES
    board,         \* the clipboard: its version and its items
    synced,        \* version at the last synchronize of the reference, 0 for none
    generation,    \* clipboard_snapshot_generation, 0 while uninitialized
    lastSeen, lastFired, cooldown,   \* ClipboardFocusTipState
    poll,          \* where a poll is
    count,         \* the change count it read
    fired, failed  \* version of the last tip, version whose inspection failed

clipboardVars == <<board, synced, generation, lastSeen, lastFired, cooldown, poll, count,
                   fired, failed>>

\* The flavors by what the predicates of the C file tell apart: "png" stands for
\* public.png, tiff and jpeg, "image" for any other public.image, "file" for
\* file URLs, Finder nodes and promised files.
FlavorIsFileUrl(f) == f = "file"
FlavorIsRaster(f) == f = "png"
FlavorMayContainImages(f) == f \in {"png", "image", "file"}

\* clipboard_snapshot_classify: a Finder copy advertises the icon of a file.
Classify(items) ==
    /\ \E i \in DOMAIN items : \E f \in items[i] : FlavorIsRaster(f)
    /\ ~\E i \in DOMAIN items : \E f \in items[i] : FlavorIsFileUrl(f)

\* agent_cli_clipboard_may_contain_images, the filter in front of Ctrl+V. Each
\* call synchronizes a reference of its own.
MayContainImages(items) ==
    \E i \in DOMAIN items : \E f \in items[i] : FlavorMayContainImages(f)

ClipboardInit ==
    /\ board \in [version : {1}, items : Contents]
    /\ synced = 0 /\ generation = 0 /\ lastSeen = 0 /\ lastFired = 0 /\ cooldown = FALSE
    /\ poll = "idle" /\ count = 0 /\ fired = 0 /\ failed = 0

Copy(items) ==
    /\ board.version < MaxCopies
    /\ board' = [version |-> board.version + 1, items |-> items]
    /\ UNCHANGED <<synced, generation, lastSeen, lastFired, cooldown, poll, count, fired, failed>>

\* Mutant of SyncGeneration: the number counts calls of the poll, not changes.
SyncGenerationOnce ==
    /\ synced' = board.version
    /\ generation' = IF generation = 0 THEN 1 ELSE generation

\* clipboard_snapshot_sync_generation.
SyncGeneration ==
    /\ synced' = board.version
    /\ generation' = IF generation = 0 THEN 1
                     ELSE IF synced # board.version THEN generation + 1 ELSE generation

\* agent_cli_clipboard_change_count at the head of pollClipboardFocusTip, which
\* runs outside the cooldown; no reference to the clipboard means no change.
ChangeCount ==
    /\ poll = "idle" /\ ~cooldown
    /\ \/ /\ SyncGeneration /\ count' = generation'
          /\ poll' = IF count' = lastSeen THEN "idle" ELSE "changed"
       \/ synced = 0 /\ UNCHANGED <<synced, generation, count, poll>>
    /\ UNCHANGED <<board, lastSeen, lastFired, cooldown, fired, failed>>

\* agent_cli_clipboard_image_snapshot, up to the classification.
SnapshotSync ==
    /\ poll = "changed" /\ SyncGeneration /\ poll' = "synced"
    /\ UNCHANGED <<board, lastSeen, lastFired, cooldown, count, fired, failed>>

\* Its end, and what the poll makes of it: an image fires the tip, a failed
\* inspection and anything else advance the change count that the poll read.
SnapshotClassify ==
    /\ poll = "synced" /\ poll' = "idle"
    /\ \/ /\ synced = board.version /\ Classify(board.items)
          /\ IF generation # lastFired
             THEN /\ lastFired' = generation /\ lastSeen' = generation
                  /\ fired' = synced /\ cooldown' = TRUE
             ELSE UNCHANGED <<lastFired, lastSeen, fired, cooldown>>
          /\ UNCHANGED failed
       \/ /\ synced = board.version /\ ~Classify(board.items)
          /\ lastSeen' = count /\ UNCHANGED <<lastFired, fired, cooldown, failed>>
       \/ /\ lastSeen' = count /\ failed' = synced
          /\ UNCHANGED <<lastFired, fired, cooldown>>
    /\ UNCHANGED <<board, synced, generation, count>>

CooldownEnds ==
    /\ cooldown /\ cooldown' = FALSE
    /\ UNCHANGED <<board, synced, generation, lastSeen, lastFired, poll, count, fired, failed>>

ClipboardNext ==
    \/ (\E items \in Contents : Copy(items))
    \/ ChangeCount \/ SnapshotSync \/ SnapshotClassify \/ CooldownEnds

ClipboardSpec == ClipboardInit /\ [][ClipboardNext]_clipboardVars

\* The gate of change counts hides no image: one that is on the clipboard and
\* counts as seen was announced, unless the system refused its inspection. And
\* what was announced passes the filter in front of Ctrl+V.
ImageIsAnnounced ==
    /\ poll = "idle" /\ lastSeen = generation /\ synced = board.version
            /\ generation > 0 /\ Classify(board.items)
        => fired = synced \/ failed = synced
    /\ fired = board.version => MayContainImages(board.items)

=============================================================================
