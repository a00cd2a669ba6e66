------------------------------ MODULE MediaAudio ------------------------------
(***************************************************************************)
(* audio.c: a capture or a playback device. The streaming thread of        *)
(* GStreamer queues captured buffers under the mutex; the caller, one at a *)
(* time, reads or writes. A buffer that does not fit stops the stream for  *)
(* good: callers get an error rather than audio with a hole in it.         *)
(* Sizes count halves of the smallest buffer; odd sizes are malformed.     *)
(***************************************************************************)
EXTENDS Integers, Sequences

CONSTANTS
    AudioSizes,     \* sizes of buffers
    AudioLimit,     \* 24000 bytes, the most that is queued
    AudioBuffers,   \* 100, the most buffers that are queued
    MaxSamples      \* bound: buffers the device produces

ASSUME AudioAssumption ==
    AudioSizes \subseteq Nat /\ AudioLimit \in Nat /\ AudioBuffers \in Nat /\ MaxSamples \in Nat

VARIABLES
    device,         \* "capture" or "playback"; "freed" in the end
    streaming,      \* the pipeline still runs its streaming thread
    inCallback,     \* the buffer that capture_sample handles: its number and size
    produced,       \* number of buffers captured so far
    captured, capturedBytes, audioFailed,
    busError,       \* an ERROR or EOS message waits on the bus
    reading,        \* agent_audio_read has checked the state
    heard,          \* what became of each buffer taken: its number, or Lost
    level           \* bytes queued for playback

audioVars == <<device, streaming, inCallback, produced, captured, capturedBytes, audioFailed,
               busError, reading, heard, level>>

NoBuffer == [n |-> 0, size |-> 0]
Lost == 0   \* the buffer is gone and the reader got the error -1
WellFormed(size) == size > 0 /\ size % 2 = 0 /\ size <= AudioLimit

\* audio_new with a device the platform has; without one there is nothing.
AudioInit ==
    /\ device \in {"capture", "playback"} /\ streaming = TRUE /\ inCallback = NoBuffer
    /\ produced = 0 /\ captured = <<>> /\ capturedBytes = 0 /\ audioFailed = FALSE
    /\ busError = FALSE /\ reading = FALSE /\ heard = <<>> /\ level = 0

\* The streaming thread pulls the next buffer.
CaptureEnter(size) ==
    /\ device # "playback" /\ streaming /\ inCallback = NoBuffer /\ produced < MaxSamples
    /\ produced' = produced + 1 /\ inCallback' = [n |-> produced + 1, size |-> size]
    /\ UNCHANGED <<device, streaming, captured, capturedBytes, audioFailed, busError, reading,
                   heard, level>>

Fits(size) ==
    /\ WellFormed(size) /\ capturedBytes + size <= AudioLimit
    /\ Len(captured) < AudioBuffers

\* Mutant of CaptureSample: an overrun is noted but the stream goes on.
CaptureSampleGoesOn ==
    /\ inCallback # NoBuffer /\ inCallback' = NoBuffer
    /\ IF Fits(inCallback.size)
       THEN /\ captured' = Append(captured, inCallback)
            /\ capturedBytes' = capturedBytes + inCallback.size /\ UNCHANGED audioFailed
       ELSE audioFailed' = TRUE /\ UNCHANGED <<captured, capturedBytes>>
    /\ UNCHANGED <<device, streaming, produced, busError, reading, heard, level>>

\* capture_sample from the mutex on. GST_FLOW_ERROR ends the stream.
CaptureSample ==
    /\ inCallback # NoBuffer /\ inCallback' = NoBuffer
    /\ IF Fits(inCallback.size)
       THEN /\ captured' = Append(captured, inCallback)
            /\ capturedBytes' = capturedBytes + inCallback.size /\ UNCHANGED audioFailed
       ELSE audioFailed' = TRUE /\ UNCHANGED <<captured, capturedBytes>>
    /\ streaming' = (streaming /\ ~audioFailed')
    /\ UNCHANGED <<device, produced, busError, reading, heard, level>>

\* The device is unplugged or the stream ends.
BusError ==
    /\ streaming /\ streaming' = FALSE /\ busError' = TRUE
    /\ UNCHANGED <<device, inCallback, produced, captured, capturedBytes, audioFailed, reading,
                   heard, level>>

\* agent_audio_state takes all messages off the bus.
TakeMessages == audioFailed' = (audioFailed \/ busError) /\ busError' = FALSE
AudioState ==
    /\ device # "freed" /\ ~reading /\ TakeMessages
    /\ UNCHANGED <<device, streaming, inCallback, produced, captured, capturedBytes, reading,
                   heard, level>>

\* agent_audio_read: the state is checked before the mutex is taken. The
\* caller's buffer holds AudioLimit bytes. The buffer has left the queue when
\* gst_buffer_extract copies it; if it copies too little the answer is -1, and
\* the device is not marked as failed.
AudioReadCheck ==
    /\ device = "capture" /\ ~reading /\ TakeMessages /\ reading' = ~audioFailed'
    /\ UNCHANGED <<device, streaming, inCallback, produced, captured, capturedBytes, heard, level>>
AudioReadPop ==
    /\ reading /\ reading' = FALSE
    /\ IF captured = <<>> THEN UNCHANGED <<captured, capturedBytes, heard>>
       ELSE /\ captured' = Tail(captured)
            /\ capturedBytes' = capturedBytes - Head(captured).size
            /\ \E result \in {Head(captured).n, Lost} : heard' = Append(heard, result)
    /\ UNCHANGED <<device, streaming, inCallback, produced, audioFailed, busError, level>>

\* agent_audio_write: refused unless the whole buffer fits.
AudioWrite(size) ==
    /\ device = "playback" /\ WellFormed(size) /\ TakeMessages
    /\ level' = IF ~audioFailed' /\ level + size <= AudioLimit THEN level + size ELSE level
    /\ UNCHANGED <<device, streaming, inCallback, produced, captured, capturedBytes, reading, heard>>
DeviceConsumes ==
    /\ streaming /\ level > 0 /\ level' = level - 1
    /\ UNCHANGED <<device, streaming, inCallback, produced, captured, capturedBytes, audioFailed,
                   busError, reading, heard>>

\* agent_audio_free: GST_STATE_NULL joins the streaming thread, then the queue
\* and the struct go.
AudioFree ==
    /\ device # "freed" /\ ~reading /\ inCallback = NoBuffer
    /\ device' = "freed" /\ streaming' = FALSE /\ captured' = <<>> /\ capturedBytes' = 0
    /\ UNCHANGED <<inCallback, produced, audioFailed, busError, reading, heard, level>>

AudioNext ==
    \/ (\E size \in AudioSizes : CaptureEnter(size) \/ AudioWrite(size))
    \/ CaptureSample \/ BusError \/ AudioState \/ AudioReadCheck \/ AudioReadPop
    \/ DeviceConsumes \/ AudioFree

AudioSpec == AudioInit /\ [][AudioNext]_audioVars

\* The sizes of all buffers of a queue together.
QueuedBytes(queue) ==
    LET sum[i \in 0..Len(queue)] == IF i = 0 THEN 0 ELSE sum[i - 1] + queue[i].size
    IN  sum[Len(queue)]

\* Captured audio has no silent hole: what was read is what the device produced,
\* from the first buffer on and in order, except where the reader got an error for
\* the very buffer, although the state is checked outside the mutex; the bytes in
\* the queue, which the limit is about, are counted exactly; and the streaming
\* thread never runs with the device freed.
CaptureIsWhole ==
    /\ \A i \in DOMAIN heard : heard[i] \in {i, Lost}
    /\ capturedBytes = QueuedBytes(captured)
    /\ inCallback # NoBuffer => device # "freed"

=============================================================================
