----------------------------- MODULE MediaHelper -----------------------------
(***************************************************************************)
(* The media helper: helper-client.c runs one child process per peer or    *)
(* audio device (helper.c) and calls it over a socket pair, one request    *)
(* at a time. A request that fails or times out closes the descriptor for  *)
(* good; media_close joins the child and kills one that hangs. The child   *)
(* frees its resource when its end of the socket reads EOF, so also when   *)
(* the client process dies.                                                *)
(* A message travels as a header and, if it has bytes, a body. Lengths are *)
(* 0 or 1, the results of an operation -1, 0 or 1 (a positive count).      *)
(***************************************************************************)
EXTENDS Integers, Sequences

CONSTANTS
    MaxCalls,    \* bound: requests a client makes, the opening one included
    Attempts     \* polls of media_close before it kills, 100 in the code

ASSUME BoundsAssumption == MaxCalls \in Nat \ {0} /\ Attempts \in Nat \ {0}

VARIABLES
    client,      \* where the thread that holds the resource is
    held,        \* what it opened
    fd,          \* child->fd: "none" before media_open, "open", "closed" for -1
    closes,      \* how often the client closed that descriptor
    polls,       \* the attempts of media_close so far
    req,         \* the request in progress: its number, operation and length
    answered,    \* the number of the request whose answer was taken last
    toHelper, toClient,   \* bytes in flight
    helper,      \* where the child's main is
    job,         \* the request the child handles, with its result
    opened,      \* main's "initialized"
    resource,    \* the peer or the device, "none" if there is none
    ran,         \* how many requests the child has performed
    wedged       \* the driver hangs in the call the child makes

clientVars == <<client, held, fd, closes, polls, req, answered>>
helperVars == <<helper, job, opened, resource, ran, wedged>>
helperProcessVars == <<clientVars, toHelper, toClient, helperVars>>

\* enum AgentMediaOperation.
OpenOps == {"open_peer", "open_capture", "open_playback"}
PeerOps == {"create", "set", "operation", "local", "state", "push", "pull"}
AudioOps == {"audio_read", "audio_write", "audio_state"}
Ops == OpenOps \cup PeerOps \cup AudioOps
ReturnsBytes == {"operation", "local", "pull", "audio_read"}
Carries == {"set", "push", "audio_write"}
Kind(op) == IF op = "open_peer" THEN "peer" ELSE "audio"
OpsOf(r) == CASE r = "peer" -> PeerOps [] r = "audio" -> AudioOps [] OTHER -> {}
Length(b) == IF b THEN 1 ELSE 0

\* AgentMediaMessage: "of", the number of the request, is not in the bytes; the
\* magic number is what tells a header ("op") from a body.
Request(n, op) == [of |-> n, op |-> op, len |-> Length(op \in Carries)]
Reply(j, n) ==
    [of |-> j.of, op |-> j.op, result |-> n, len |-> Length(j.op \in ReturnsBytes /\ n > 0)]
BodyOf(m) == [of |-> m.of]
IsHeader(m) == "op" \in DOMAIN m
NoRequest == [of |-> 0, op |-> "state", len |-> 0]

HelperGone == helper \in {"none", "exited", "reaped"}
InRequest == {"sendHead", "sendBody", "recvHead", "recvBody"}
InClose == {"reap", "kill", "wait"}

MediaInit ==
    /\ client = "new" /\ held = "none" /\ fd = "none" /\ closes = 0 /\ polls = 0
    /\ req = NoRequest /\ answered = 0 /\ toHelper = <<>> /\ toClient = <<>>
    /\ helper = "none" /\ job = Reply(NoRequest, 0) /\ opened = FALSE
    /\ resource = "none" /\ ran = 0 /\ wedged = FALSE

-----------------------------------------------------------------------------
(* The client: one thread at a time, Haskell holds an MVar around a call. *)

\* media_open without a helper program, a socket pair or a process: everything
\* created so far is closed and the caller gets NULL.
MediaOpenFails ==
    /\ client = "new" /\ client' = "freed"
    /\ UNCHANGED <<held, fd, closes, polls, req, answered, toHelper, toClient, helperVars>>

\* media_open: the child is spawned and asked to open its resource.
MediaOpen(op) ==
    /\ client = "new" /\ client' = "sendHead" /\ held' = Kind(op)
    /\ fd' = "open" /\ helper' = "boot" /\ req' = Request(1, op)
    /\ UNCHANGED <<closes, polls, answered, toHelper, toClient, job, opened, resource,
                   ran, wedged>>

\* media_request on an open descriptor. The caller's length is within bounds:
\* a push or a write of a bad length, and a request above the limit, return
\* without touching the child.
MediaRequest(op) ==
    /\ client = "idle" /\ fd = "open" /\ req.of < MaxCalls /\ op \in OpsOf(held)
    /\ client' = "sendHead" /\ req' = Request(req.of + 1, op)
    /\ UNCHANGED <<held, fd, closes, polls, answered, toHelper, toClient, helperVars>>

\* Mutant of GiveUp: media_request closes the descriptor and keeps its number.
GiveUpKeepsDescriptor ==
    /\ closes' = closes + 1
    /\ client' = IF req.op \in OpenOps THEN "reap" ELSE "idle"
    /\ UNCHANGED <<held, fd, polls, req, answered, toHelper, toClient, helperVars>>

\* The failure path of media_request: close, -1, and media_close if the request
\* was the opening one.
GiveUp ==
    /\ fd' = "closed" /\ closes' = closes + 1
    /\ client' = IF req.op \in OpenOps THEN "reap" ELSE "idle"
    /\ UNCHANGED <<held, polls, req, answered, toHelper, toClient, helperVars>>

\* Each transfer ends early on an error, EOF or its timeout.
SendHead ==
    /\ client = "sendHead"
    /\ \/ /\ ~HelperGone
          /\ toHelper' = Append(toHelper, req)
          /\ client' = IF req.len > 0 THEN "sendBody" ELSE "recvHead"
          /\ UNCHANGED <<held, fd, closes, polls, req, answered, toClient, helperVars>>
       \/ GiveUp

SendBody ==
    /\ client = "sendBody"
    /\ \/ /\ ~HelperGone
          /\ toHelper' = Append(toHelper, BodyOf(req)) /\ client' = "recvHead"
          /\ UNCHANGED <<held, fd, closes, polls, req, answered, toClient, helperVars>>
       \/ GiveUp

\* Mutant of RecvFails: a timeout returns -1 and leaves the descriptor open for
\* the next request.
RecvFailsStaysOpen ==
    /\ client \in {"recvHead", "recvBody"} /\ toClient = <<>>
    /\ client' = IF req.op \in OpenOps THEN "reap" ELSE "idle"
    /\ UNCHANGED <<held, fd, closes, polls, req, answered, toHelper, toClient, helperVars>>

RecvFails == client \in {"recvHead", "recvBody"} /\ toClient = <<>> /\ GiveUp

\* The answer is taken: media_open goes on only if the resource was opened.
Answered(r) ==
    /\ answered' = r.of
    /\ IF req.op \in OpenOps /\ r.result # 0
       THEN client' = "reap" /\ fd' = "closed" /\ closes' = closes + 1
       ELSE client' = "idle" /\ UNCHANGED <<fd, closes>>

\* The checks on the header of the answer.
Plausible(r) ==
    /\ IsHeader(r) /\ r.op = req.op
    /\ r.len <= Length(req.op \in ReturnsBytes)
    /\ req.op \in ReturnsBytes => r.len = Length(r.result > 0)

RecvHead ==
    /\ client = "recvHead" /\ toClient # <<>>
    /\ LET r == Head(toClient) IN
       IF ~Plausible(r) THEN GiveUp
       ELSE /\ toClient' = Tail(toClient)
            /\ IF r.len > 0
               THEN client' = "recvBody" /\ UNCHANGED <<fd, closes, answered>>
               ELSE Answered(r)
            /\ UNCHANGED <<held, polls, req, toHelper, helperVars>>

RecvBody ==
    /\ client = "recvBody" /\ toClient # <<>>
    /\ client' = "idle" /\ answered' = Head(toClient).of /\ toClient' = Tail(toClient)
    /\ UNCHANGED <<held, fd, closes, polls, req, toHelper, helperVars>>

\* agent_peer_free and agent_audio_free: media_close closes the descriptor if
\* it is open and polls for the child's end.
MediaClose ==
    /\ client = "idle" /\ client' = "reap"
    /\ fd' = "closed" /\ closes' = IF fd = "open" THEN closes + 1 ELSE closes
    /\ UNCHANGED <<held, polls, req, answered, toHelper, toClient, helperVars>>

Reaped ==
    /\ helper' = "reaped" /\ client' = "freed"
    /\ UNCHANGED <<held, fd, closes, polls, req, answered, toHelper, toClient, job, opened,
                   resource, ran, wedged>>

\* A child that another waiter has collected (ECHILD) is gone just as well: for
\* the loop it is an "exited" one.
ReapPoll ==
    /\ client = "reap"
    /\ IF helper = "exited" THEN Reaped
       ELSE /\ polls' = polls + 1
            /\ client' = IF polls' = Attempts THEN "kill" ELSE "reap"
            /\ UNCHANGED <<held, fd, closes, req, answered, toHelper, toClient, helperVars>>

\* Mutant of SignalKill: media_close waits without the signal.
NoSignal ==
    /\ client = "kill" /\ client' = "wait"
    /\ UNCHANGED <<held, fd, closes, polls, req, answered, toHelper, toClient, helperVars>>

SignalKill ==
    /\ client = "kill" /\ client' = "wait" /\ helper' = "exited" /\ resource' = "none"
    /\ UNCHANGED <<held, fd, closes, polls, req, answered, toHelper, toClient, job, opened,
                   ran, wedged>>

WaitChild == client = "wait" /\ helper = "exited" /\ Reaped

\* The client process dies; the kernel closes its end of the socket pair.
ClientDies ==
    /\ client \notin {"new", "freed", "dead"} /\ client' = "dead" /\ fd' = "closed"
    /\ UNCHANGED <<held, closes, polls, req, answered, toHelper, toClient, helperVars>>

-----------------------------------------------------------------------------
(* The child: main of helper.c. *)

\* Everything before the loop; it may fail.
Boot ==
    /\ helper = "boot" /\ helper' \in {"readHead", "exited"}
    /\ UNCHANGED <<clientVars, toHelper, toClient, job, opened, resource, ran, wedged>>

\* Mutant of ReadHead: the end of the stream is retried like EINTR.
ReadHeadIgnoresEnd ==
    /\ helper = "readHead" /\ toHelper # <<>>
    /\ toHelper' = Tail(toHelper) /\ job' = Reply(Head(toHelper), 0)
    /\ helper' = IF Head(toHelper).len > 0 THEN "readBody" ELSE "perform"
    /\ UNCHANGED <<clientVars, toClient, opened, resource, ran, wedged>>

\* media_transfer reads what is there, then EOF once the client has closed.
ReadHead ==
    /\ helper = "readHead" /\ (toHelper # <<>> \/ fd = "closed")
    /\ IF toHelper = <<>> \/ ~IsHeader(Head(toHelper))
       THEN helper' = "release" /\ UNCHANGED <<job, toHelper>>
       ELSE /\ toHelper' = Tail(toHelper) /\ job' = Reply(Head(toHelper), 0)
            /\ helper' = IF Head(toHelper).len > 0 THEN "readBody" ELSE "perform"
    /\ UNCHANGED <<clientVars, toClient, opened, resource, ran, wedged>>

ReadBody ==
    /\ helper = "readBody" /\ (toHelper # <<>> \/ fd = "closed")
    /\ helper' = IF toHelper = <<>> THEN "release" ELSE "perform"
    /\ toHelper' = IF toHelper = <<>> THEN <<>> ELSE Tail(toHelper)
    /\ UNCHANGED <<clientVars, toClient, job, opened, resource, ran, wedged>>

\* The first request opens the resource, later ones are operations of it; any
\* other operation ends the loop.
Perform(n) ==
    /\ helper = "perform" /\ ~wedged
    /\ IF job.op \notin IF opened THEN OpsOf(resource) ELSE OpenOps
       THEN helper' = "release" /\ UNCHANGED <<job, opened, resource, ran>>
       ELSE /\ opened \/ n \in {-1, 0}
            /\ opened' = TRUE /\ job' = Reply(job, n) /\ ran' = ran + 1
            /\ resource' = IF opened THEN resource ELSE IF n = 0 THEN Kind(job.op) ELSE "none"
            /\ helper' = "replyHead"
    /\ UNCHANGED <<clientVars, toHelper, toClient, wedged>>

\* The answer; a failed opening ends the loop after it.
Continue == helper' = IF resource = "none" THEN "release" ELSE "readHead"

ReplyHead ==
    /\ helper = "replyHead"
    /\ IF fd = "closed" THEN helper' = "release" /\ UNCHANGED toClient
       ELSE /\ toClient' = Append(toClient, job)
            /\ IF job.len > 0 THEN helper' = "replyBody" ELSE Continue
    /\ UNCHANGED <<clientVars, toHelper, job, opened, resource, ran, wedged>>

ReplyBody ==
    /\ helper = "replyBody"
    /\ IF fd = "closed" THEN helper' = "release" /\ UNCHANGED toClient
       ELSE toClient' = Append(toClient, BodyOf(job)) /\ Continue
    /\ UNCHANGED <<clientVars, toHelper, job, opened, resource, ran, wedged>>

Release ==
    /\ helper = "release" /\ ~wedged /\ helper' = "exited" /\ resource' = "none"
    /\ UNCHANGED <<clientVars, toHelper, toClient, job, opened, ran, wedged>>

\* A driver that hangs, in an operation or in its clean-up.
Wedge ==
    /\ helper \in {"perform", "release"} /\ ~wedged /\ wedged' = TRUE
    /\ UNCHANGED <<clientVars, toHelper, toClient, helper, job, opened, resource, ran>>

Crash ==
    /\ ~HelperGone /\ helper' = "exited" /\ resource' = "none"
    /\ UNCHANGED <<clientVars, toHelper, toClient, job, opened, ran, wedged>>

-----------------------------------------------------------------------------
ClientStep ==
    \/ SendHead \/ SendBody \/ RecvFails \/ RecvHead \/ RecvBody
    \/ ReapPoll \/ SignalKill \/ WaitChild
HelperStep ==
    \/ Boot \/ ReadHead \/ ReadBody \/ (\E n \in -1..1 : Perform(n))
    \/ ReplyHead \/ ReplyBody \/ Release

MediaNext ==
    \/ MediaOpenFails \/ (\E op \in OpenOps : MediaOpen(op))
    \/ (\E op \in PeerOps \cup AudioOps : MediaRequest(op)) \/ MediaClose
    \/ ClientStep \/ ClientDies \/ HelperStep \/ Wedge \/ Crash

\* The operating system runs both processes; a transfer that waits times out,
\* so the client never depends on the child.
MediaSpec ==
    /\ MediaInit /\ [][MediaNext]_helperProcessVars
    /\ WF_helperProcessVars(ClientStep) /\ WF_helperProcessVars(HelperStep)

-----------------------------------------------------------------------------
\* A resource that was freed left nothing behind: its child was waited for, its
\* descriptor closed once, however many requests failed before. A second close
\* would hit a descriptor that another thread has opened since.
FreeLeavesNothing ==
    /\ closes <= 1
    /\ client = "freed" => helper \in {"none", "reaped"} /\ fd # "open" /\ resource = "none"
    /\ helper = "reaped" => client \in {"freed", "dead"}

\* media_request and main together are the sequential service of MediaService:
\* no request is performed twice or out of order, and no caller takes the late
\* answer of a request that timed out before.
Service == INSTANCE MediaService WITH
    usable <- fd = "open", busy <- client \in InRequest, calls <- req.of
ServiceImplemented == Service!Spec

\* A call returns, and so does a hangup, even if the media driver hangs.
CallsReturn == client \in InRequest \cup InClose ~> client \in {"idle", "freed", "dead"}

\* A client that closed its end, or died, is not left with a device that keeps
\* recording: the child gives the resource back unless the driver hangs.
ResourceFollowsClient == fd = "closed" ~> (resource = "none" \/ wedged)

=============================================================================
