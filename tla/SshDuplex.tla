----------------------------- MODULE SshDuplex ------------------------------
(***************************************************************************)
(* Both directions of one SSH sync stream between two daemons.  The near   *)
(* daemon runs the session (internal/daemon/ssh_session.go): its main loop *)
(* sends states and takes acks, its reader (readPeerEvents) applies the    *)
(* peer's states and acks them.  The far host runs the gateway             *)
(* (internal/cli/ssh_gateway.go): its main loop applies the states to the  *)
(* far daemon, acks them, and on every tick publishes the far daemon's     *)
(* current clip.                                                           *)
(*                                                                         *)
(* Pipes are bounded, so writers wait for readers; the pipe to the far     *)
(* host includes the channel the gateway's reader fills, and an ack waits  *)
(* in the near reader for the main loop.  Frames of the near side are      *)
(* written under one mutex, and the reader applies a clip while it holds   *)
(* the session manager's lock.  Clips are numbered in the order of their   *)
(* timestamps, 0 is none.  SshSession has the outbound direction in more   *)
(* detail: the numbers of its frames, sessions that overlap and the races  *)
(* for the channel of queued states, whose operations are part of Copy and *)
(* Connect here.  A Refresh here cancels the session; the next stream is   *)
(* the one of its successor.  A write the gateway has given up goes on in  *)
(* its goroutine; writes to one file are serialised, so they arrive in the *)
(* order they were begun.                                                  *)
(***************************************************************************)
EXTENDS Naturals, Sequences

CONSTANTS MaxClip,   \* clips copied on either host
          MaxFault,  \* broken streams, failed requests, late timers, refreshes
          MaxPoll,   \* failing polls that end a gateway, 40 in the code
          Pipe       \* frames on their way in one direction

ASSUME SshDuplexAssumption ==
    /\ MaxClip \in Nat /\ MaxFault \in Nat
    /\ MaxPoll \in Nat \ {0} /\ Pipe \in Nat \ {0}

VARIABLES
    \* the daemons
    cur,        \* d.current of the near and the far one
    origin,     \* where each clip was copied
    \* the near session manager and its session
    mu,         \* owner of m.mu between steps: "free" or "reader"
    relay,      \* relay goroutines that have still to Publish
    pend,       \* m.pending[peer]
    queued,     \* session.send
    cancelled,  \* is the session's context cancelled?
    main, mclip, inflight, wmu,
    reader, rframe, next,
    \* the pipes, near to far and far to near
    up, down,
    \* the gateway
    gmain, gclip, gseq, sent, writes, polls,
    faults,
    \* history of the run
    refused     \* clips the gateway rejected because of a failed request

near    == <<mu, relay, pend, queued, cancelled, main, mclip, inflight, wmu>>
inbound == <<reader, rframe, next>>
gateway == <<gmain, gclip, gseq, sent, writes, polls>>
vars == <<cur, origin, near, inbound, up, down, gateway, faults, refused>>

Clip == 1 .. MaxClip
Host == {"near", "far"}

\* A frame is a state or an ack; acks of the near side go unnumbered.
Frame == [type : {"state", "ack"}, clip : Clip, seq : Nat]
State(c, n) == [type |-> "state", clip |-> c, seq |-> n]
Ack(c) == [type |-> "ack", clip |-> c, seq |-> 0]
NoFrame == [type |-> "none", clip |-> 0, seq |-> 0]

TypeOK ==
    /\ cur \in [Host -> 0 .. MaxClip] /\ origin \in Seq(Host)
    /\ mu \in {"free", "reader"} /\ wmu \in {"free", "main", "reader"}
    /\ relay \in 0 .. MaxClip
    /\ pend \in 0 .. MaxClip /\ queued \in 0 .. MaxClip /\ mclip \in 0 .. MaxClip
    /\ cancelled \in BOOLEAN
    /\ main \in {"connect", "mark", "lock", "write", "select", "failed"}
    /\ inflight \subseteq Clip
    /\ reader \in {"read", "lock", "apply", "mutex", "write", "push", "ended"}
    /\ rframe \in Frame \cup {NoFrame} /\ next \in Nat
    /\ up \in Seq(Frame) /\ Len(up) <= Pipe
    /\ down \in Seq(Frame) /\ Len(down) <= Pipe
    /\ gmain \in {"select", "apply", "ack", "publish", "stalled", "exited"}
    /\ gclip \in 0 .. MaxClip /\ gseq \in Nat /\ sent \subseteq Clip
    /\ writes \in Seq(Frame) /\ polls \in 0 .. MaxPoll
    /\ faults \in 0 .. MaxFault /\ refused \subseteq Clip

-----------------------------------------------------------------------------

Fault == faults < MaxFault /\ faults' = faults + 1

\* Daemon.onReceive: a clip that is not newer is ignored.
Received(h, c) == [cur EXCEPT ![h] = IF c > @ THEN c ELSE @]

\* A clip is copied on a host.  The near daemon publishes it: it becomes the
\* pending state and the queued one.
Copy(h) ==
    /\ Len(origin) < MaxClip
    /\ origin' = Append(origin, h)
    /\ cur' = [cur EXCEPT ![h] = Len(origin')]
    /\ IF h = "near"
       THEN mu = "free" /\ pend' = Len(origin') /\ queued' = Len(origin')
       ELSE UNCHANGED <<pend, queued>>
    /\ UNCHANGED <<mu, relay, cancelled, main, mclip, inflight, wmu,
                   inbound, up, down, gateway, faults, refused>>

\* Publish of a received clip, in a goroutine: no peer but its origin is there.
Relay ==
    /\ relay > 0 /\ mu = "free"
    /\ relay' = relay - 1
    /\ UNCHANGED <<cur, origin, mu, pend, queued, cancelled, main, mclip, inflight, wmu,
                   inbound, up, down, gateway, faults, refused>>

\* Refresh replaces the session.
Refresh ==
    /\ Fault /\ mu = "free" /\ ~cancelled /\ main # "connect"
    /\ cancelled' = TRUE
    /\ UNCHANGED <<cur, origin, mu, relay, pend, queued, main, mclip, inflight, wmu,
                   inbound, up, down, gateway, refused>>

-----------------------------------------------------------------------------
(* runPeerOnce *)

\* A new ssh process, a new gateway and new streams; the pending state first.
Connect ==
    /\ main = "connect" /\ mu = "free"
    /\ main' = IF pend = 0 THEN "select" ELSE "mark"
    /\ mclip' = pend
    /\ queued' = IF queued = pend THEN 0 ELSE queued
    /\ cancelled' = FALSE
    /\ reader' = "read" /\ next' = 1
    /\ gmain' = "select"
    /\ UNCHANGED <<cur, origin, mu, relay, pend, inflight, wmu, rframe, up, down,
                   gclip, gseq, sent, writes, polls, faults, refused>>

\* sendState: markPeerPendingIfSessionCurrent, ...
Mark ==
    /\ main = "mark" /\ mu = "free"
    /\ main' = IF cancelled THEN "failed" ELSE "lock"
    /\ UNCHANGED <<cur, origin, mu, relay, pend, queued, cancelled, mclip, inflight, wmu,
                   inbound, up, down, gateway, faults, refused>>

\* ... the mutex of writes, ...
LockWrite ==
    /\ main = "lock" /\ wmu = "free"
    /\ wmu' = "main" /\ main' = "write"
    /\ UNCHANGED <<cur, origin, mu, relay, pend, queued, cancelled, mclip, inflight,
                   inbound, up, down, gateway, faults, refused>>

\* ... and the frame.
WriteState ==
    /\ main = "write" /\ Len(up) < Pipe /\ gmain # "exited"
    /\ up' = Append(up, State(mclip, 0))
    /\ inflight' = inflight \cup {mclip}
    /\ wmu' = "free" /\ main' = "select"
    /\ UNCHANGED <<cur, origin, mu, relay, pend, queued, cancelled, mclip,
                   inbound, down, gateway, faults, refused>>

\* Each side waits for the other one to read.
Jammed ==
    /\ Len(up) = Pipe /\ Len(down) = Pipe /\ gmain \in {"ack", "publish"}
    /\ \/ reader = "write"
       \/ main = "write" /\ reader \in {"mutex", "push"}

\* Variant: a write waits for as long as it takes.
NoDeadline == FALSE /\ UNCHANGED faults

\* A write that waits gives up: the wait has no end, or is a long one.
Deadline ==
    \/ (Jammed \/ gmain = "stalled") /\ UNCHANGED faults
    \/ ~Jammed /\ gmain # "stalled" /\ Fault

\* writeSSHFrame: the pipe is full, nobody is at its other end, or the attempt
\* was cancelled.
WriteGivesUp ==
    \/ Len(up) = Pipe /\ Deadline
    \/ (gmain = "exited" \/ cancelled \/ reader = "ended") /\ UNCHANGED faults

WriteFails ==
    /\ main = "write" /\ WriteGivesUp
    /\ wmu' = "free" /\ main' = "failed"
    /\ UNCHANGED <<cur, origin, mu, relay, pend, queued, cancelled, mclip, inflight,
                   inbound, up, down, gateway, refused>>

TakeQueued ==
    /\ main = "select" /\ queued # 0
    /\ mclip' = queued /\ queued' = 0 /\ main' = "mark"
    /\ UNCHANGED <<cur, origin, mu, relay, pend, cancelled, inflight, wmu,
                   inbound, up, down, gateway, faults, refused>>

\* handleSSHStreamAck: applied or rejected, the clip is no longer pending.
HandleAck ==
    /\ main = "select" /\ reader = "push" /\ mu = "free"
    /\ inflight' = inflight \ {rframe.clip}
    /\ pend' = IF pend = rframe.clip /\ ~cancelled THEN 0 ELSE pend
    /\ reader' = "read" /\ rframe' = NoFrame
    /\ UNCHANGED <<cur, origin, mu, relay, queued, cancelled, main, mclip, wmu,
                   next, up, down, gateway, faults, refused>>

\* The ack timer fires ...
AckTimeout ==
    /\ main = "select" /\ inflight # {}
    /\ main' = "failed"
    /\ UNCHANGED <<cur, origin, mu, relay, pend, queued, cancelled, mclip, inflight, wmu,
                   inbound, up, down, gateway, refused>>

\* ... because no ack can come, or although one is on its way.
AckOverdue == AckTimeout /\ gmain = "stalled" /\ UNCHANGED faults
AckLate == AckTimeout /\ gmain # "stalled" /\ Fault

\* The context is cancelled, or the reader's error is next in the channel.
Leave ==
    /\ main = "select" /\ (cancelled \/ reader = "ended")
    /\ main' = "failed"
    /\ UNCHANGED <<cur, origin, mu, relay, pend, queued, cancelled, mclip, inflight, wmu,
                   inbound, up, down, gateway, faults, refused>>

\* The attempt is cancelled and its pipes closed; the reader, which still
\* applies a clip it has read, and the gateway come to an end.
EndAttempt ==
    /\ main = "failed" /\ reader \notin {"lock", "apply"}
    /\ main' = "connect" /\ mclip' = 0 /\ inflight' = {} /\ wmu' = "free"
    /\ reader' = "ended" /\ rframe' = NoFrame /\ next' = 1
    /\ up' = <<>> /\ down' = <<>>
    /\ gmain' = "exited" /\ gclip' = 0 /\ gseq' = 0 /\ sent' = {} /\ writes' = <<>> /\ polls' = 0
    /\ UNCHANGED <<cur, origin, mu, relay, pend, queued, cancelled, faults, refused>>

-----------------------------------------------------------------------------
(* readPeerEvents *)

\* ReadNextNow: stateResultFromFrame refuses any gap in the numbers.
ReadFrame ==
    /\ reader = "read" /\ down # <<>>
    /\ LET f == Head(down)
       IN  /\ rframe' = f
           /\ reader' = IF f.type = "ack" THEN "push"
                        ELSE IF f.seq = next THEN "lock" ELSE "ended"
           /\ next' = IF f.type = "state" /\ f.seq = next THEN next + 1 ELSE next
    /\ down' = Tail(down)
    /\ UNCHANGED <<cur, origin, near, up, gateway, faults, refused>>

ReadEOF ==
    /\ reader = "read" /\ down = <<>> /\ gmain = "exited" /\ main # "connect"
    /\ reader' = "ended"
    /\ UNCHANGED <<cur, origin, near, rframe, next, up, down, gateway, faults, refused>>

\* receiveContentIfSessionCurrent: m.mu is held while the daemon applies.
LockManager ==
    /\ reader = "lock" /\ mu = "free"
    /\ IF cancelled THEN reader' = "ended" /\ UNCHANGED mu
                    ELSE reader' = "apply" /\ mu' = "reader"
    /\ UNCHANGED <<cur, origin, relay, pend, queued, cancelled, main, mclip, inflight, wmu,
                   rframe, next, up, down, gateway, faults, refused>>

\* onReceive hands the relay to a goroutine: Publish needs m.mu.
ApplyNear ==
    /\ reader = "apply"
    /\ IF rframe.clip > cur["near"] THEN relay' = relay + 1 ELSE UNCHANGED relay
    /\ cur' = Received("near", rframe.clip)
    /\ mu' = "free" /\ reader' = "mutex"
    /\ UNCHANGED <<origin, pend, queued, cancelled, main, mclip, inflight, wmu,
                   rframe, next, up, down, gateway, faults, refused>>

LockAck ==
    /\ reader = "mutex" /\ wmu = "free"
    /\ wmu' = "reader" /\ reader' = "write"
    /\ UNCHANGED <<cur, origin, mu, relay, pend, queued, cancelled, main, mclip, inflight,
                   rframe, next, up, down, gateway, faults, refused>>

WriteAck ==
    /\ reader = "write" /\ Len(up) < Pipe /\ gmain # "exited"
    /\ up' = Append(up, Ack(rframe.clip))
    /\ wmu' = "free" /\ reader' = "read" /\ rframe' = NoFrame
    /\ UNCHANGED <<cur, origin, mu, relay, pend, queued, cancelled, main, mclip, inflight,
                   next, down, gateway, faults, refused>>

AckWriteFails ==
    /\ reader = "write" /\ WriteGivesUp
    /\ wmu' = "free" /\ reader' = "ended"
    /\ UNCHANGED <<cur, origin, mu, relay, pend, queued, cancelled, main, mclip, inflight,
                   rframe, next, up, down, gateway, refused>>

-----------------------------------------------------------------------------
(* The gateway *)

\* readSSHGatewayStreamEvents and the main loop take a frame; acks are ignored.
GatewayTakes ==
    /\ gmain = "select" /\ up # <<>>
    /\ up' = Tail(up)
    /\ IF Head(up).type = "state"
       THEN gmain' = "apply" /\ gclip' = Head(up).clip
       ELSE UNCHANGED <<gmain, gclip>>
    /\ UNCHANGED <<cur, origin, near, inbound, down, gseq, sent, writes,
                   polls, faults, refused>>

\* handleSSHGatewayState: the far daemon applies it, or the request fails.
GatewayApplies ==
    /\ gmain = "apply"
    /\ \/ cur' = Received("far", gclip) /\ UNCHANGED <<faults, refused>>
       \/ Fault /\ refused' = refused \cup {gclip} /\ UNCHANGED cur
    /\ writes' = Append(writes, Ack(gclip)) /\ gmain' = "ack"
    /\ UNCHANGED <<origin, near, inbound, up, down, gclip, gseq, sent,
                   polls>>

\* Variant: the number is taken once the write has succeeded.
LastNumber(c) == gseq + 1 - (IF \E i \in 1 .. Len(writes) : writes[i].type = "state" THEN 1 ELSE 0)

\* publishSSHGatewayCurrent: every frame takes the next number.
NextNumber(c) == gseq + 1

\* The clip did not come from the near host and was not sent on this stream.
Unsent(c) == c \notin sent \cup {0} /\ origin[c] # "near"

\* A tick.
Publish ==
    /\ gmain = "select" /\ Unsent(cur["far"])
    /\ gclip' = cur["far"]
    /\ gseq' = NextNumber(gclip')
    /\ writes' = Append(writes, State(gclip', gseq'))
    /\ gmain' = "publish"
    /\ UNCHANGED <<cur, origin, near, inbound, up, down, sent,
                   polls, faults, refused>>

\* Variant: one failing poll too many.
PollFailedOnce ==
    /\ polls' = polls + 1
    /\ gmain' = IF polls = MaxPoll THEN "exited" ELSE "select"

\* A tick whose request or write failed; too many in a row end the gateway.
PollFailed ==
    /\ polls' = polls + 1
    /\ gmain' = IF polls + 1 = MaxPoll THEN "exited" ELSE "select"

\* A tick with nothing to send.
IdleTick ==
    /\ gmain = "select" /\ polls > 0
    /\ ~Unsent(cur["far"])
    /\ polls' = 0
    /\ UNCHANGED <<cur, origin, near, inbound, up, down, gmain, gclip, gseq,
                   sent, writes, faults, refused>>

PollFails ==
    /\ gmain = "select" /\ Fault
    /\ PollFailed
    /\ UNCHANGED <<cur, origin, near, inbound, up, down, gclip, gseq,
                   sent, writes, refused>>

\* The oldest write reaches the pipe; the main loop waits for the newest one.
GatewayWrites ==
    /\ gmain \notin {"stalled", "exited"} /\ writes # <<>> /\ Len(down) < Pipe
    /\ down' = Append(down, Head(writes)) /\ writes' = Tail(writes)
    /\ IF writes' = <<>> /\ gmain \in {"ack", "publish"}
       THEN /\ gmain' = "select" /\ gclip' = 0
            /\ sent' = IF gmain = "publish" THEN sent \cup {gclip} ELSE sent
            /\ polls' = IF gmain = "publish" THEN 0 ELSE polls
       ELSE UNCHANGED <<gmain, gclip, sent, polls>>
    /\ UNCHANGED <<cur, origin, near, inbound, up, gseq, faults, refused>>

\* writeSSHGatewayFrame gives up; the goroutine that writes stays behind.
GatewayWriteTimesOut ==
    /\ gmain \in {"ack", "publish"} /\ Len(down) = Pipe /\ Deadline
    /\ IF gmain = "ack" THEN gmain' = "exited" /\ UNCHANGED polls ELSE PollFailed
    /\ gclip' = 0
    /\ UNCHANGED <<cur, origin, near, inbound, up, down, gseq, sent,
                   writes, refused>>

\* The connection breaks, or stalls without a sign: ssh runs without
\* keepalives.  What is on its way is lost.
StreamBreaks ==
    /\ main # "connect" /\ gmain \notin {"stalled", "exited"} /\ Fault
    /\ gmain' \in {"stalled", "exited"} /\ down' = <<>>
    /\ UNCHANGED <<cur, origin, near, inbound, up, gclip, gseq, sent,
                   writes, polls, refused>>

-----------------------------------------------------------------------------

Init ==
    /\ cur = [h \in Host |-> 0] /\ origin = <<>>
    /\ mu = "free" /\ relay = 0 /\ pend = 0 /\ queued = 0 /\ cancelled = FALSE
    /\ main = "connect" /\ mclip = 0 /\ inflight = {} /\ wmu = "free"
    /\ reader = "ended" /\ rframe = NoFrame /\ next = 1
    /\ up = <<>> /\ down = <<>>
    /\ gmain = "exited" /\ gclip = 0 /\ gseq = 0 /\ sent = {} /\ writes = <<>> /\ polls = 0
    /\ faults = 0 /\ refused = {}

MainStep ==
    \/ Connect \/ Mark \/ LockWrite \/ WriteState \/ WriteFails
    \/ TakeQueued \/ HandleAck \/ AckOverdue \/ Leave \/ EndAttempt
ReaderStep ==
    \/ ReadFrame \/ ReadEOF \/ LockManager \/ ApplyNear
    \/ LockAck \/ WriteAck \/ AckWriteFails
GatewayStep == GatewayTakes \/ GatewayApplies \/ Publish \/ IdleTick \/ GatewayWrites

Next ==
    \/ \E h \in Host : Copy(h)
    \/ Relay \/ Refresh
    \/ MainStep \/ AckLate
    \/ ReaderStep
    \/ GatewayStep \/ PollFails \/ GatewayWriteTimesOut
    \/ StreamBreaks

\* Goroutines that can run do run, and timers fire that nothing else can stop.
\* Late timers are faults.  Nobody has to copy anything, and nothing has to fail.
Fairness ==
    /\ WF_vars(Relay) /\ WF_vars(MainStep) /\ WF_vars(ReaderStep)
    /\ WF_vars(GatewayStep)

Spec == Init /\ [][Next]_vars /\ Fairness

-----------------------------------------------------------------------------

\* The state frames of q carry the numbers lo .. hi, each of them once and in order.
Numbered(q, lo, hi) ==
    LET states == {i \in 1 .. Len(q) : q[i].type = "state"}
    IN  /\ {q[i].seq : i \in states} = lo .. hi
        /\ \A i, j \in states : i < j => q[i].seq < q[j].seq

\* What has still to come on the stream: a gateway that is gone writes no more.
Coming == IF gmain \in {"stalled", "exited"} THEN down ELSE down \o writes

\* The near side never meets a state frame out of number, which would end the
\* stream: not after writes the gateway gave up and left behind either.
FramesInOrder == \E last \in 0 .. gseq : Numbered(Coming, next, last)

\* Once nobody copies any more, both daemons have the newest clip for good,
\* whatever broke, timed out or was full, and although each side may wait for
\* the other to read.  Not so a clip the gateway rejected, and a clip of the far
\* host on a stalled stream, which an idle session does not notice.
DaemonsAgree ==
    <>[](\/ cur["near"] = cur["far"]
         \/ Len(origin) \in refused
         \/ gmain = "stalled" /\ origin[Len(origin)] = "far")
==============================================================================
