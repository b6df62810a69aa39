----------------------------- MODULE SshSession -----------------------------
(***************************************************************************)
(* The outbound SSH session manager of one clipfan daemon                  *)
(* (internal/daemon/ssh_session.go) towards ONE configured peer, with the  *)
(* gateway process the peer runs at the other end of the ssh stream        *)
(* (internal/cli/ssh_gateway.go) and the sequence rule of the stream       *)
(* (internal/transport/ssh_stream.go).                                     *)
(*                                                                         *)
(* The manager treats its peers alike and they share only m.mu, so one     *)
(* peer is enough here.  A clip is the number of its Publish call: a later *)
(* clip is a newer one and 0 is no clip.  Publish calls that do not        *)
(* address this peer (the peer is the clip's origin, or the clip exceeds   *)
(* the payload limit) return without touching its state.                   *)
(*                                                                         *)
(* Every Refresh that replaces the peer's record starts a NEW session,     *)
(* while the goroutine of the old one is still running: sessions are       *)
(* numbered in the order they are started, and cur is the one m.sessions   *)
(* holds.  Every step that takes m.mu is one action; the operations on the *)
(* one-place channel session.send are actions of their own, because the    *)
(* session goroutine uses the channel without m.mu.                        *)
(***************************************************************************)
EXTENDS Naturals, Sequences, FiniteSets

CONSTANTS MaxClip,     \* number of Publish calls
          MaxSession,  \* number of sessions the manager may start
          MaxFault,    \* failures: broken streams, timeouts, remote outages
          Poison,      \* clips the remote daemon refuses whenever asked
          DrainRaces   \* may Publish run between the two channel operations
                       \* of drainQueuedDuplicateSSHState?

ASSUME BoundsAssumption ==
    /\ MaxClip \in Nat /\ MaxSession \in Nat /\ MaxFault \in Nat
    /\ Poison \subseteq 1 .. MaxClip
    /\ DrainRaces \in BOOLEAN

Clip    == 1 .. MaxClip
Session == 1 .. MaxSession
NoClip  == 0
NoSession == 0

VARIABLES
    \* the manager, protected by m.mu
    started,     \* m.started
    configured,  \* is the peer in m.peers?
    cur,         \* m.sessions[peer], or NoSession
    pending,     \* m.pending[peer], or NoClip
    rt,          \* m.peerRuntime[peer]
    mu,          \* "free", or the channel operation the Publish in progress does next
    \* the session goroutines
    spawned,     \* sessions started so far
    cancelled,   \* sessions whose context was cancelled
    pc,          \* where runPeer / runPeerOnce of a session stands
    send,        \* the channel session.send: a clip or NoClip
    state,       \* the clip sendState works on
    held,        \* the clip drainQueuedDuplicateSSHState took from send
    replay,      \* is sendState sending the pending state of a fresh stream?
    seq,         \* last outbound sequence number of the attempt
    inflight,    \* states written and not acked: a set of [seq, clip]
    \* the stream of a session's current attempt
    wire,        \* state frames on their way to the gateway
    acks,        \* ack frames on their way back
    gwNext,      \* sequence number the gateway accepts next
    remoteUp,    \* does the remote daemon answer its gateway?
    \* history of the run
    published,   \* Publish calls so far
    latest,      \* the newest clip this manager owes the peer
    handed,      \* clips handed to the remote daemon
    acked,       \* clips a qualifying ack was processed for
    rejected,    \* clips a rejection was processed for
    faults       \* failures so far

manager == <<started, configured, cur, pending, rt, mu>>
sender  == <<spawned, cancelled, pc, send, state, held, replay, seq, inflight>>
stream  == <<wire, acks, gwNext, remoteUp>>
history == <<published, latest, handed, acked, rejected, faults>>
vars    == <<manager, sender, stream, history>>

\* The places of a session goroutine. "none" is not started yet.
PC == {"none", "connect", "dial", "hello", "load", "mark", "write", "remember",
       "drain", "putback", "select", "failed", "wait", "done"}

Runtime == [active : BOOLEAN, pend : BOOLEAN, err : BOOLEAN,
            status : {"none", "waiting", "connecting", "attention", "syncing", "live"}]
NoRuntime == [active |-> FALSE, pend |-> FALSE, err |-> FALSE, status |-> "none"]

Frame    == [seq : Nat, clip : Clip]
AckFrame == [seq : Nat, clip : Clip, status : {"applied", "rejected"}]

ManagerTypeOK ==
    /\ started \in BOOLEAN /\ configured \in BOOLEAN
    /\ cur \in Session \cup {NoSession}
    /\ pending \in Clip \cup {NoClip}
    /\ rt \in Runtime
    /\ mu \in {"free", "send", "evict", "retry"}

SenderTypeOK ==
    /\ spawned \in 0 .. MaxSession
    /\ cancelled \in [Session -> BOOLEAN]
    /\ pc \in [Session -> PC]
    /\ send \in [Session -> Clip \cup {NoClip}]
    /\ state \in [Session -> Clip \cup {NoClip}]
    /\ held \in [Session -> Clip \cup {NoClip}]
    /\ replay \in [Session -> BOOLEAN]
    /\ seq \in [Session -> Nat]
    /\ inflight \in [Session -> SUBSET Frame]

StreamTypeOK ==
    /\ wire \in [Session -> Seq(Frame)]
    /\ acks \in [Session -> Seq(AckFrame)]
    /\ gwNext \in [Session -> Nat]
    /\ remoteUp \in BOOLEAN

HistoryTypeOK ==
    /\ published \in 0 .. MaxClip
    /\ latest \in Clip \cup {NoClip}
    /\ handed \subseteq Clip
    /\ acked \subseteq Clip /\ rejected \subseteq Clip
    /\ faults \in 0 .. MaxFault

TypeOK == ManagerTypeOK /\ SenderTypeOK /\ StreamTypeOK /\ HistoryTypeOK

Init ==
    /\ started = FALSE
    /\ configured \in BOOLEAN
    /\ cur = NoSession /\ pending = NoClip /\ rt = NoRuntime /\ mu = "free"
    /\ spawned = 0
    /\ cancelled = [s \in Session |-> FALSE]
    /\ pc = [s \in Session |-> "none"]
    /\ send = [s \in Session |-> NoClip]
    /\ state = [s \in Session |-> NoClip]
    /\ held = [s \in Session |-> NoClip]
    /\ replay = [s \in Session |-> FALSE]
    /\ seq = [s \in Session |-> 0]
    /\ inflight = [s \in Session |-> {}]
    /\ wire = [s \in Session |-> <<>>]
    /\ acks = [s \in Session |-> <<>>]
    /\ gwNext = [s \in Session |-> 1]
    /\ remoteUp = TRUE
    /\ published = 0 /\ latest = NoClip
    /\ handed = {} /\ acked = {} /\ rejected = {}
    /\ faults = 0
-----------------------------------------------------------------------------
(* m.peerRuntime[peer] *)

\* sshPeerRuntimeStatus
RuntimeStatus(r) ==
    CASE r.active /\ r.pend              -> "syncing"
      [] r.active /\ ~r.pend             -> "live"
      [] ~r.active /\ r.status = "connecting" -> "connecting"
      [] ~r.active /\ r.status # "connecting" /\ r.err -> "attention"
      [] OTHER                           -> "waiting"

WithStatus(r) == [r EXCEPT !.status = RuntimeStatus(r)]

\* markPeerConnectingLocked
MarkConnecting(r, p) == [r EXCEPT !.active = FALSE, !.pend = (p # NoClip), !.status = "connecting"]

\* markPeerConnectedLocked; markPeerAckedLocked writes the same fields
MarkActive(r, p) == WithStatus([r EXCEPT !.active = TRUE, !.pend = (p # NoClip), !.err = FALSE])

\* markPeerPendingLocked(peerID, flag)
MarkPending(r, p, flag) == WithStatus([r EXCEPT !.pend = (flag \/ p # NoClip)])

\* markPeerErrorLocked
MarkError(r, p) == [r EXCEPT !.active = FALSE, !.pend = (p # NoClip), !.err = TRUE, !.status = "attention"]

-----------------------------------------------------------------------------
(* Start, Refresh and Publish: the callers of the manager *)

\* startPeerLocked: a fresh session with an empty send channel becomes the
\* current one and its goroutine starts.
StartPeer(s, r) ==
    /\ s = spawned + 1
    /\ s \in Session
    /\ spawned' = s
    /\ cur' = s
    /\ rt' = MarkConnecting(r, pending)
    /\ UNCHANGED pending

Start ==
    /\ mu = "free" /\ ~started
    /\ started' = TRUE
    /\ IF configured
       THEN \E s \in Session : StartPeer(s, rt) /\ pc' = [pc EXCEPT ![s] = "connect"]
       ELSE UNCHANGED <<cur, spawned, rt, pending, pc>>
    /\ UNCHANGED <<configured, mu, cancelled, send, state, held, replay, seq, inflight,
                   stream, history>>

\* Refresh with a configuration that adds the peer.
RefreshAdd ==
    /\ mu = "free" /\ ~configured
    /\ configured' = TRUE
    /\ IF started
       THEN \E s \in Session : StartPeer(s, rt) /\ pc' = [pc EXCEPT ![s] = "connect"]
       ELSE UNCHANGED <<cur, spawned, rt, pending, pc>>
    /\ UNCHANGED <<started, mu, cancelled, send, state, held, replay, seq, inflight,
                   stream, history>>

\* Variant: the goroutine of a dropped session is not told.
CancelNothing == cancelled

\* session.cancel() of the session Refresh drops.
CancelCurrent == [cancelled EXCEPT ![cur] = TRUE]

\* Refresh with a configuration that changes the peer's record: the session is
\* cancelled and replaced, pending and peerRuntime stay.
RefreshReplace ==
    /\ mu = "free" /\ cur # NoSession
    /\ cancelled' = CancelCurrent
    /\ \E s \in Session : StartPeer(s, rt) /\ pc' = [pc EXCEPT ![s] = "connect"]
    /\ UNCHANGED <<started, configured, mu, send, state, held, replay, seq, inflight,
                   stream, history>>

\* Refresh with a configuration that no longer lists the peer. pending and
\* peerRuntime are dropped with the session; without a session they stay.
RefreshRemove ==
    /\ mu = "free" /\ configured
    /\ configured' = FALSE
    /\ cur' = NoSession
    /\ IF cur # NoSession
       THEN /\ cancelled' = CancelCurrent
            /\ pending' = NoClip /\ rt' = NoRuntime /\ latest' = NoClip
       ELSE UNCHANGED <<cancelled, pending, rt, latest>>
    /\ UNCHANGED <<started, mu, spawned, pc, send, state, held, replay, seq, inflight,
                   stream, published, handed, acked, rejected, faults>>

\* Publish up to its channel operations; m.mu stays taken during those.
Publish ==
    /\ mu = "free" /\ configured /\ published < MaxClip
    /\ DrainRaces \/ \A s \in Session : pc[s] # "putback"
    /\ published' = published + 1
    /\ latest' = published + 1
    /\ pending' = published + 1
    /\ rt' = MarkPending(rt, published + 1, TRUE)
    /\ mu' = IF cur # NoSession THEN "send" ELSE "free"
    /\ UNCHANGED <<started, configured, cur, sender, stream,
                   handed, acked, rejected, faults>>

\* enqueueLatestSSHState, first select: send, unless the channel is full.
EnqueueTry ==
    /\ mu = "send"
    /\ IF send[cur] = NoClip
       THEN send' = [send EXCEPT ![cur] = pending] /\ mu' = "free"
       ELSE mu' = "evict" /\ UNCHANGED send
    /\ UNCHANGED <<started, configured, cur, pending, rt, spawned, cancelled, pc, state, held,
                   replay, seq, inflight, stream, history>>

\* enqueueLatestSSHState, second select: take out what is queued, if anything.
EnqueueEvict ==
    /\ mu = "evict"
    /\ send' = [send EXCEPT ![cur] = NoClip]
    /\ mu' = "retry"
    /\ UNCHANGED <<started, configured, cur, pending, rt, spawned, cancelled, pc, state, held,
                   replay, seq, inflight, stream, history>>

\* enqueueLatestSSHState, third select: send, or give up when the channel is
\* full again.
EnqueueRetry ==
    /\ mu = "retry"
    /\ send' = IF send[cur] = NoClip THEN [send EXCEPT ![cur] = pending] ELSE send
    /\ mu' = "free"
    /\ UNCHANGED <<started, configured, cur, pending, rt, spawned, cancelled, pc, state, held,
                   replay, seq, inflight, stream, history>>
-----------------------------------------------------------------------------
(* runPeer and runPeerOnce: the goroutine of session s *)

Goto(s, place) == pc' = [pc EXCEPT ![s] = place]

\* One of the failures the environment may cause.
Fault == faults < MaxFault /\ faults' = faults + 1

\* Variant: the waits do not look at the context.
InterruptedByFault(s) == Fault

\* A wait of session s ends because its context was cancelled, or by a failure.
Interrupted(s) == \/ cancelled[s] /\ UNCHANGED faults
                  \/ Fault

Connecting(s) ==
    /\ pc[s] = "connect" /\ mu = "free"
    /\ IF cur = s
       THEN rt' = MarkConnecting(rt, pending) /\ Goto(s, "dial")
       ELSE Goto(s, "done") /\ UNCHANGED rt
    /\ UNCHANGED <<started, configured, cur, pending, mu, spawned, cancelled, send, state,
                   held, replay, seq, inflight, stream, history>>

\* ssh starts and both hellos are exchanged before the handshake deadline.
Dial(s) ==
    /\ pc[s] = "dial"
    /\ Goto(s, "hello")
    /\ UNCHANGED <<manager, spawned, cancelled, send, state, held, replay, seq, inflight,
                   stream, history>>

DialFails(s) ==
    /\ pc[s] = "dial"
    /\ Interrupted(s)
    /\ Goto(s, "failed")
    /\ UNCHANGED <<manager, spawned, cancelled, send, state, held, replay, seq, inflight,
                   stream, published, latest, handed, acked, rejected>>

Connected(s) ==
    /\ pc[s] = "hello" /\ mu = "free"
    /\ IF cur = s
       THEN rt' = MarkActive(rt, pending) /\ Goto(s, "load")
       ELSE Goto(s, "failed") /\ UNCHANGED rt
    /\ UNCHANGED <<started, configured, cur, pending, mu, spawned, cancelled, send, state,
                   held, replay, seq, inflight, stream, history>>

\* pendingState does not ask whether the session is still the current one.
LoadPending(s) ==
    /\ pc[s] = "load" /\ mu = "free"
    /\ IF pending # NoClip
       THEN /\ state' = [state EXCEPT ![s] = pending]
            /\ replay' = [replay EXCEPT ![s] = TRUE]
            /\ Goto(s, "mark")
       ELSE Goto(s, "select") /\ UNCHANGED <<state, replay>>
    /\ UNCHANGED <<manager, spawned, cancelled, send, held, seq, inflight, stream, history>>

\* sendState up to the write.
MarkSend(s) ==
    /\ pc[s] = "mark" /\ mu = "free"
    /\ seq' = [seq EXCEPT ![s] = @ + 1]
    /\ IF cur = s
       THEN rt' = MarkPending(rt, pending, TRUE) /\ Goto(s, "write")
       ELSE Goto(s, "failed") /\ UNCHANGED rt
    /\ UNCHANGED <<started, configured, cur, pending, mu, spawned, cancelled, send, state,
                   held, replay, inflight, stream, history>>

\* Variant: the last pending clip is sent, whatever it is now.
OutFramePending(s) == [seq |-> seq[s], clip |-> pending]

OutFrame(s) == [seq |-> seq[s], clip |-> state[s]]

Write(s) ==
    /\ pc[s] = "write"
    /\ wire' = [wire EXCEPT ![s] = Append(@, OutFrame(s))]
    /\ inflight' = [inflight EXCEPT ![s] = @ \cup {OutFrame(s)}]
    /\ state' = [state EXCEPT ![s] = IF replay[s] THEN @ ELSE NoClip]
    /\ Goto(s, IF replay[s] THEN "drain" ELSE "select")
    /\ UNCHANGED <<manager, spawned, cancelled, send, held, replay, seq,
                   acks, gwNext, remoteUp, history>>

\* The write fails or times out; the gateway may have got the frame all the same.
WriteFails(s) ==
    /\ pc[s] = "write"
    /\ Interrupted(s)
    /\ \E got \in BOOLEAN :
         wire' = IF got THEN [wire EXCEPT ![s] = Append(@, OutFrame(s))] ELSE wire
    /\ Goto(s, "remember")
    /\ UNCHANGED <<manager, spawned, cancelled, send, state, held, replay, seq, inflight,
                   acks, gwNext, remoteUp, published, latest, handed, acked, rejected>>

\* Variant: the state of a failed write always becomes the pending one.
RememberedAlways(s) == IF cur = s THEN state[s] ELSE pending

\* rememberPendingIfSessionCurrent: a newer pending state is not overwritten.
Remembered(s) == IF cur = s /\ pending \in {NoClip, state[s]} THEN state[s] ELSE pending

Remember(s) ==
    /\ pc[s] = "remember" /\ mu = "free"
    /\ pending' = Remembered(s)
    /\ Goto(s, "failed")
    /\ UNCHANGED <<started, configured, cur, rt, mu, spawned, cancelled, send, state, held,
                   replay, seq, inflight, stream, history>>

\* Variant: whatever is queued counts as the state just replayed.
AnythingReplayed(s) == TRUE

\* Nothing is queued, or the state just replayed.
NothingElseQueued(s) == send[s] \in {NoClip, state[s]}

\* drainQueuedDuplicateSSHState: take what is queued; the state just replayed
\* is dropped.
DrainTake(s) ==
    /\ pc[s] = "drain"
    /\ DrainRaces \/ mu = "free"
    /\ held' = [held EXCEPT ![s] = IF NothingElseQueued(s) THEN NoClip ELSE send[s]]
    /\ send' = [send EXCEPT ![s] = NoClip]
    /\ state' = [state EXCEPT ![s] = NoClip]
    /\ replay' = [replay EXCEPT ![s] = FALSE]
    /\ Goto(s, IF NothingElseQueued(s) THEN "select" ELSE "putback")
    /\ UNCHANGED <<manager, spawned, cancelled, seq, inflight, stream, history>>

\* Any other state goes back, unless the channel has been filled meanwhile.
DrainPut(s) ==
    /\ pc[s] = "putback"
    /\ send' = IF send[s] = NoClip THEN [send EXCEPT ![s] = held[s]] ELSE send
    /\ held' = [held EXCEPT ![s] = NoClip]
    /\ Goto(s, "select")
    /\ UNCHANGED <<manager, spawned, cancelled, state, replay, seq, inflight,
                   stream, history>>

TakeQueued(s) ==
    /\ pc[s] = "select" /\ send[s] # NoClip
    /\ state' = [state EXCEPT ![s] = send[s]]
    /\ send' = [send EXCEPT ![s] = NoClip]
    /\ Goto(s, "mark")
    /\ UNCHANGED <<manager, spawned, cancelled, held, replay, seq, inflight, stream, history>>

\* The in-flight states an ack is about: same sequence number and, as
\* qualifyingSSHStreamAck asks, same clip.
Answers(s, a) == {m \in inflight[s] : m.seq = a.seq /\ m.clip = a.clip}

\* Variant: the ack of a session that has been replaced counts too.
CountsFromAnySession(s, a) == Answers(s, a) # {}

\* Acks count for the current session only.
Counts(s, a) == cur = s /\ Answers(s, a) # {}

\* Variant: an ack clears whatever is pending.
ClearedUnread(s, a) == IF Counts(s, a) THEN NoClip ELSE pending

\* Variant: a rejected state stays pending.
ClearedIfApplied(s, a) ==
    IF Counts(s, a) /\ a.status = "applied" /\ pending = a.clip THEN NoClip ELSE pending

\* What is pending after an ack: clearPendingIfSessionCurrent and
\* clearPendingAndMarkAckedIfSessionCurrent keep a newer pending state.
Cleared(s, a) == IF Counts(s, a) /\ pending = a.clip THEN NoClip ELSE pending

\* handleSSHStreamAck. An ack that is for another clip than the one in flight
\* under its number only removes that number.
HandleAck(s) ==
    /\ pc[s] = "select" /\ mu = "free" /\ acks[s] # <<>>
    /\ LET a == Head(acks[s])
           counts == Counts(s, a)
           left == Cleared(s, a)
       IN /\ inflight' = [inflight EXCEPT ![s] = {m \in @ : m.seq # a.seq}]
          /\ pending' = left
          /\ rt' = CASE counts /\ a.status = "applied" -> MarkActive(rt, left)
                     [] counts /\ a.status = "rejected" /\ left # pending
                                                       -> MarkPending(rt, left, FALSE)
                     [] OTHER -> rt
          /\ acked' = IF counts /\ a.status = "applied" THEN acked \cup {a.clip} ELSE acked
          /\ rejected' = IF counts /\ a.status = "rejected" THEN rejected \cup {a.clip}
                                                            ELSE rejected
    /\ acks' = [acks EXCEPT ![s] = Tail(@)]
    /\ UNCHANGED <<started, configured, cur, mu, spawned, cancelled, pc, send, state, held,
                   replay, seq, wire, gwNext, remoteUp, published, latest, handed, faults>>

\* The select loop ends: context cancelled, or the reader reports an error.
StreamEnds(s) ==
    /\ pc[s] = "select"
    /\ Interrupted(s)
    /\ Goto(s, "failed")
    /\ UNCHANGED <<manager, spawned, cancelled, send, state, held, replay, seq, inflight,
                   stream, published, latest, handed, acked, rejected>>

\* The ack timer runs exactly while states are in flight.
AckTimeout(s) ==
    /\ pc[s] = "select" /\ inflight[s] # {}
    /\ Fault
    /\ Goto(s, "failed")
    /\ UNCHANGED <<manager, spawned, cancelled, send, state, held, replay, seq, inflight,
                   stream, published, latest, handed, acked, rejected>>

\* Variant: sequence numbers run on over the streams of a session.
SeqRunsOn(s) == seq

\* Every stream starts a new sequence.
SeqRestarts(s) == [seq EXCEPT ![s] = 0]

\* runPeerOnce has returned an error: its deferred calls end the ssh process,
\* and with it everything the stream carried.
AttemptFailed(s) ==
    /\ pc[s] = "failed" /\ mu = "free"
    /\ seq' = SeqRestarts(s)
    /\ state' = [state EXCEPT ![s] = NoClip]
    /\ replay' = [replay EXCEPT ![s] = FALSE]
    /\ inflight' = [inflight EXCEPT ![s] = {}]
    /\ wire' = [wire EXCEPT ![s] = <<>>]
    /\ acks' = [acks EXCEPT ![s] = <<>>]
    /\ gwNext' = [gwNext EXCEPT ![s] = 1]
    /\ rt' = IF ~cancelled[s] /\ cur = s THEN MarkError(rt, pending) ELSE rt
    /\ Goto(s, IF cancelled[s] THEN "done" ELSE "wait")
    /\ UNCHANGED <<started, configured, cur, pending, mu, spawned, cancelled, send,
                   held, remoteUp, history>>

\* The reconnect timer fires, or the context is cancelled first.
Reconnect(s) ==
    /\ pc[s] = "wait"
    /\ Goto(s, IF cancelled[s] THEN "done" ELSE "connect")
    /\ UNCHANGED <<manager, spawned, cancelled, send, state, held, replay, seq, inflight,
                   stream, history>>

-----------------------------------------------------------------------------
(* The gateway at the other end of the stream of session s, and its daemon *)

\* handleSSHGatewayState with the answer of the local daemon: the ack goes back
\* either way and the stream stays up.
GatewayAck(s, status) ==
    LET f == Head(wire[s])
    IN /\ f.seq = gwNext[s]
       /\ wire' = [wire EXCEPT ![s] = Tail(@)]
       /\ gwNext' = [gwNext EXCEPT ![s] = @ + 1]
       /\ acks' = [acks EXCEPT ![s] = Append(@, [seq |-> f.seq, clip |-> f.clip,
                                                 status |-> status])]

GatewayApplies(s) ==
    /\ wire[s] # <<>> /\ remoteUp /\ Head(wire[s]).clip \notin Poison
    /\ GatewayAck(s, "applied")
    /\ handed' = handed \cup {Head(wire[s]).clip}
    /\ UNCHANGED <<manager, sender, remoteUp, published, latest, acked, rejected, faults>>

GatewayRefused(s) ==
    /\ wire[s] # <<>> /\ remoteUp /\ Head(wire[s]).clip \in Poison
    /\ GatewayAck(s, "rejected")
    /\ UNCHANGED <<manager, sender, remoteUp, history>>

\* Variant: the ack does not wait for the local daemon's answer.
StatusBeforeApply == "applied"

\* The status the gateway reports when its daemon did not take the clip.
StatusOnFailure == "rejected"

\* The local daemon does not answer.
GatewayCannotApply(s) ==
    /\ wire[s] # <<>> /\ ~remoteUp
    /\ GatewayAck(s, StatusOnFailure)
    /\ UNCHANGED <<manager, sender, remoteUp, history>>

RemoteDown ==
    /\ remoteUp /\ Fault
    /\ remoteUp' = FALSE
    /\ UNCHANGED <<manager, sender, wire, acks, gwNext,
                   published, latest, handed, acked, rejected>>

RemoteUp ==
    /\ ~remoteUp
    /\ remoteUp' = TRUE
    /\ UNCHANGED <<manager, sender, wire, acks, gwNext, history>>

-----------------------------------------------------------------------------
Caller == Start \/ RefreshAdd \/ RefreshReplace \/ RefreshRemove \/ Publish

Enqueue == EnqueueTry \/ EnqueueEvict \/ EnqueueRetry

\* What session s does unless the environment interrupts it.
Progress(s) ==
    \/ Connecting(s) \/ Dial(s) \/ Connected(s) \/ LoadPending(s) \/ MarkSend(s)
    \/ Write(s) \/ Remember(s) \/ DrainTake(s) \/ DrainPut(s)
    \/ TakeQueued(s) \/ HandleAck(s) \/ AttemptFailed(s) \/ Reconnect(s)

Interrupt(s) == DialFails(s) \/ WriteFails(s) \/ StreamEnds(s) \/ AckTimeout(s)

Gateway(s) == GatewayApplies(s) \/ GatewayRefused(s) \/ GatewayCannotApply(s)

Next ==
    \/ Caller
    \/ Enqueue
    \/ \E s \in Session : Progress(s) \/ Interrupt(s) \/ Gateway(s)
    \/ RemoteDown
    \/ RemoteUp

Spec == Init /\ [][Next]_vars

\* Goroutines that can run do run, a cancelled context ends the wait it is
\* selected in, a remote daemon that went down comes back, and a daemon that
\* serves its socket reaches Start. Nothing is assumed of callers and failures.
Fairness ==
    /\ WF_vars(Start)
    /\ WF_vars(Enqueue)
    /\ WF_vars(RemoteUp)
    /\ \A s \in Session : /\ WF_vars(Progress(s))
                          /\ WF_vars(Gateway(s))
                          /\ WF_vars(Interrupt(s) /\ cancelled[s])

FairSpec == Spec /\ Fairness

-----------------------------------------------------------------------------
(* Safety *)

\* Refresh and the goroutines agree on who owns the peer: the session in
\* m.sessions runs for ever, every other session it ever held is cancelled, so
\* no peer is served by two sessions and none is left without one.
SessionOwnership ==
    /\ \A s \in Session : s <= spawned =>
          IF s = cur THEN ~cancelled[s] /\ pc[s] \notin {"none", "done"}
                     ELSE cancelled[s]
    /\ (started /\ configured) => cur # NoSession

\* The newest clip published for the peer stays in m.pending until an ack for
\* THIS clip is processed, over broken streams, failed writes, timeouts and
\* replaced sessions: it is never forgotten silently.
NeverLoseLatest ==
    latest \notin acked \cup rejected \cup {NoClip} => pending = latest

\* A clip counts as delivered only if the remote daemon was handed it: acks of
\* an earlier stream, with their own numbering, are never taken for newer ones.
AckedWasHanded == acked \subseteq handed

\* The gateway never meets a state frame out of sequence, which would end the
\* stream, whatever attempts came before.
NoSequenceGap ==
    \A s \in Session : \A i \in 1 .. Len(wire[s]) : wire[s][i].seq = gwNext[s] + i - 1

\* A failed write or a replay never puts an older clip in the place of the
\* newest one.
PendingIsNewest == pending \in {NoClip, latest}

\* A session that waits in its select loop with a clip pending has that clip
\* queued or in flight: otherwise only a broken stream would ever send it.
NewestOnItsWay ==
    (cur # NoSession /\ mu = "free" /\ pending # NoClip) =>
        (pc[cur] = "select" => \/ send[cur] = pending
                               \/ \E m \in inflight[cur] : m.clip = pending)

(* Action properties *)

\* A goroutine whose session Refresh has replaced or removed changes nothing
\* the manager keeps for the peer, wherever Refresh overtook it.
StaleSessionInert ==
    [][\A s \in Session : (cur # s /\ pc[s] # "none" /\ <<pc[s], acks[s]>>' # <<pc[s], acks[s]>>)
          => UNCHANGED <<pending, rt, acked, rejected>>]_vars

(* Liveness, under FairSpec *)

\* If no Publish runs in the window of a drain (DrainRaces is FALSE), no clip
\* stays pending for ever: it is applied, refused, superseded, or its peer is
\* removed. A clip the peer refuses does not come back on every stream. With a
\* Publish in that window the code does not give this: the run ssh_drain_race
\* reaches a session that waits with the newest clip pending and nothing to send.
PendingResolves ==
    ~DrainRaces =>
        \A c \in Clip : (configured /\ pending = c) ~> (pending # c \/ ~configured)

\* The goroutine of a cancelled session ends.
CancelledSessionsEnd == \A s \in Session : cancelled[s] ~> pc[s] = "done"

=============================================================================
