------------------------- MODULE SshSession_proofs -------------------------
(***************************************************************************)
(* Proofs about SshSession for every number of clips, sessions and         *)
(* failures. Publish is free to run inside the drain window or not, except *)
(* in the last part, whose two theorems hold only when it is kept out.     *)
(***************************************************************************)
EXTENDS SshSession, TLAPS

-----------------------------------------------------------------------------
(* Type correctness *)

\* sendState always has a clip to send.
StateLoaded == \A s \in Session : pc[s] \in {"mark", "write"} => state[s] # NoClip

TypeInv == TypeOK /\ StateLoaded

\* The operators that compute m.peerRuntime return runtimes.
LEMMA NoRuntimeType == NoRuntime \in Runtime
  BY DEF Runtime, NoRuntime

\* Each of the markPeer functions turns a runtime into a runtime.
LEMMA RuntimeTypes ==
  ASSUME NEW r \in Runtime, NEW p
  PROVE  /\ MarkConnecting(r, p) \in Runtime
         /\ MarkActive(r, p) \in Runtime
         /\ MarkError(r, p) \in Runtime
         /\ \A flag \in BOOLEAN : MarkPending(r, p, flag) \in Runtime
  BY DEF Runtime, MarkConnecting, MarkActive, MarkPending, MarkError, WithStatus, RuntimeStatus

\* Every place an action goes to is one.
LEMMA PlaceTypes ==
  /\ "connect" \in PC /\ "dial" \in PC /\ "hello" \in PC /\ "load" \in PC /\ "mark" \in PC
  /\ "write" \in PC /\ "remember" \in PC /\ "drain" \in PC /\ "putback" \in PC
  /\ "select" \in PC /\ "failed" \in PC /\ "wait" \in PC /\ "done" \in PC
  BY DEF PC

\* The number of a session fits the counter of started sessions.
LEMMA SessionRange == \A s \in Session : s \in 0 .. MaxSession
  BY BoundsAssumption DEF Session

\* A manager that has just been made has the types, and no session has begun to send.
LEMMA TypeInit == Init => TypeInv
  <1> SUFFICES ASSUME Init PROVE TypeInv
    OBVIOUS
  <1> USE BoundsAssumption
  <1>1. ManagerTypeOK
    BY NoRuntimeType DEF Init, ManagerTypeOK
  <1>2. SenderTypeOK
    BY DEF Init, SenderTypeOK, PC
  <1>3. StreamTypeOK
    BY DEF Init, StreamTypeOK
  <1>4. HistoryTypeOK
    BY DEF Init, HistoryTypeOK
  <1>5. StateLoaded
    BY DEF Init, StateLoaded
  <1> QED
    BY <1>1, <1>2, <1>3, <1>4, <1>5 DEF TypeInv, TypeOK

\* Start, Refresh and Publish, and the channel operations of Publish.
LEMMA TypeCaller == TypeInv /\ (Caller \/ Enqueue) => TypeInv'
  <1> SUFFICES ASSUME TypeInv, Caller \/ Enqueue PROVE TypeInv'
    OBVIOUS
  <1> USE BoundsAssumption, RuntimeTypes, NoRuntimeType, PlaceTypes, SessionRange
      DEF TypeInv, TypeOK, ManagerTypeOK, SenderTypeOK, StreamTypeOK, HistoryTypeOK, StateLoaded
  <1>1. CASE Start
    <2>1. CASE configured
      <3>1. PICK s \in Session : StartPeer(s, rt) /\ pc' = [pc EXCEPT ![s] = "connect"]
        BY <1>1, <2>1 DEF Start
      <3>2. ManagerTypeOK'
        BY <1>1, <3>1 DEF Start, StartPeer
      <3>3. SenderTypeOK' /\ StateLoaded'
        BY <1>1, <3>1 DEF Start, StartPeer
      <3> QED
        BY <1>1, <3>2, <3>3 DEF Start, stream, history
    <2>2. CASE ~configured
      BY <1>1, <2>2 DEF Start, stream, history
    <2> QED
      BY <2>1, <2>2
  <1>2. CASE RefreshAdd
    <2>1. CASE started
      <3>1. PICK s \in Session : StartPeer(s, rt) /\ pc' = [pc EXCEPT ![s] = "connect"]
        BY <1>2, <2>1 DEF RefreshAdd
      <3>2. ManagerTypeOK'
        BY <1>2, <3>1 DEF RefreshAdd, StartPeer
      <3>3. SenderTypeOK' /\ StateLoaded'
        BY <1>2, <3>1 DEF RefreshAdd, StartPeer
      <3> QED
        BY <1>2, <3>2, <3>3 DEF RefreshAdd, stream, history
    <2>2. CASE ~started
      BY <1>2, <2>2 DEF RefreshAdd, stream, history
    <2> QED
      BY <2>1, <2>2
  <1>3. CASE RefreshReplace
    <2>1. PICK s \in Session : StartPeer(s, rt) /\ pc' = [pc EXCEPT ![s] = "connect"]
      BY <1>3 DEF RefreshReplace
    <2>2. ManagerTypeOK'
      BY <1>3, <2>1 DEF RefreshReplace, StartPeer
    <2>3. SenderTypeOK' /\ StateLoaded'
      BY <1>3, <2>1 DEF RefreshReplace, StartPeer, CancelCurrent
    <2> QED
      BY <1>3, <2>2, <2>3 DEF RefreshReplace, stream, history
  <1>4. CASE RefreshRemove
    BY <1>4 DEF RefreshRemove, CancelCurrent, stream, history
  <1>5. CASE Publish
    <2>1. published + 1 \in Clip
      BY <1>5 DEF Publish, Clip
    <2>2. published + 1 \in 0 .. MaxClip
      BY <1>5 DEF Publish
    <2> QED
      BY <1>5, <2>1, <2>2 DEF Publish, sender, stream
  <1>6. CASE Enqueue
    BY <1>6 DEF Enqueue, EnqueueTry, EnqueueEvict, EnqueueRetry, stream, history
  <1> QED
    BY <1>1, <1>2, <1>3, <1>4, <1>5, <1>6 DEF Caller

\* The goroutine of a session.
LEMMA TypeProgress ==
  ASSUME TypeInv, NEW s \in Session, Progress(s)
  PROVE  TypeInv'
  <1> USE BoundsAssumption, RuntimeTypes, NoRuntimeType, PlaceTypes
      DEF TypeInv, TypeOK, ManagerTypeOK, SenderTypeOK, StreamTypeOK, HistoryTypeOK,
          StateLoaded,
          Goto
  <1>1. CASE Connecting(s)
    <2>1. ManagerTypeOK'
      BY <1>1 DEF Connecting
    <2>2. SenderTypeOK' /\ StateLoaded'
      BY <1>1 DEF Connecting
    <2> QED
      BY <1>1, <2>1, <2>2 DEF Connecting, stream, history
  <1>2. CASE Dial(s)
    <2>1. ManagerTypeOK' /\ StreamTypeOK' /\ HistoryTypeOK'
      BY <1>2 DEF Dial, manager, stream, history
    <2>2. SenderTypeOK'
      BY <1>2 DEF Dial
    <2>3. StateLoaded'
      BY <1>2 DEF Dial
    <2> QED
      BY <2>1, <2>2, <2>3
  <1>3. CASE Connected(s)
    <2>1. ManagerTypeOK'
      BY <1>3 DEF Connected
    <2>2. SenderTypeOK' /\ StateLoaded'
      BY <1>3 DEF Connected
    <2> QED
      BY <1>3, <2>1, <2>2 DEF Connected, stream, history
  <1>4. CASE LoadPending(s)
    <2>1. ManagerTypeOK' /\ StreamTypeOK' /\ HistoryTypeOK'
      BY <1>4 DEF LoadPending, manager, stream, history
    <2>2. SenderTypeOK'
      <3>1. CASE pending # NoClip
        <4>1. state' \in [Session -> Clip \cup {NoClip}] /\ replay' \in [Session -> BOOLEAN]
          BY <1>4, <3>1 DEF LoadPending
        <4>2. pc' \in [Session -> PC]
          BY <1>4, <3>1 DEF LoadPending
        <4> QED
          BY <1>4, <4>1, <4>2 DEF LoadPending
      <3>2. CASE pending = NoClip
        <4>1. pc' \in [Session -> PC]
          BY <1>4, <3>2 DEF LoadPending
        <4> QED
          BY <1>4, <3>2, <4>1 DEF LoadPending
      <3> QED
        BY <3>1, <3>2
    <2>3. StateLoaded'
      BY <1>4 DEF LoadPending
    <2> QED
      BY <2>1, <2>2, <2>3
  <1>5. CASE MarkSend(s)
    <2>1. MarkPending(rt, pending, TRUE) \in Runtime
      OBVIOUS
    <2>2. ManagerTypeOK'
      BY <1>5, <2>1 DEF MarkSend
    <2>3. seq' \in [Session -> Nat]
      <3>1. seq' = [seq EXCEPT ![s] = @ + 1]
        BY <1>5 DEF MarkSend
      <3> QED
        BY <3>1
    <2>4. SenderTypeOK'
      <3>1. pc' = [pc EXCEPT ![s] = "write"] \/ pc' = [pc EXCEPT ![s] = "failed"]
        BY <1>5 DEF MarkSend
      <3>2. pc' \in [Session -> PC]
        BY <3>1
      <3> QED
        BY <1>5, <2>3, <3>2 DEF MarkSend
    <2>5. StateLoaded'
      BY <1>5 DEF MarkSend
    <2> QED
      BY <1>5, <2>2, <2>4, <2>5 DEF MarkSend, stream, history
  <1>6. CASE Write(s)
    <2>1. OutFrame(s) \in Frame
      BY <1>6 DEF Write, OutFrame, Frame
    <2>2. ManagerTypeOK' /\ HistoryTypeOK'
      BY <1>6 DEF Write, manager, history
    <2>3. StreamTypeOK'
      BY <1>6, <2>1 DEF Write
    <2>4. SenderTypeOK'
      BY <1>6, <2>1 DEF Write
    <2>5. StateLoaded'
      BY <1>6 DEF Write
    <2> QED
      BY <2>2, <2>3, <2>4, <2>5
  <1>7. CASE Remember(s)
    <2>1. ManagerTypeOK' /\ StreamTypeOK' /\ HistoryTypeOK'
      BY <1>7 DEF Remember, Remembered, stream, history
    <2>2. SenderTypeOK'
      BY <1>7 DEF Remember
    <2>3. StateLoaded'
      BY <1>7 DEF Remember
    <2> QED
      BY <2>1, <2>2, <2>3
  <1>8. CASE DrainTake(s)
    <2>1. ManagerTypeOK' /\ StreamTypeOK' /\ HistoryTypeOK'
      BY <1>8 DEF DrainTake, manager, stream, history
    <2>2. SenderTypeOK'
      BY <1>8 DEF DrainTake
    <2>3. StateLoaded'
      BY <1>8 DEF DrainTake
    <2> QED
      BY <2>1, <2>2, <2>3
  <1>9. CASE DrainPut(s)
    <2>1. ManagerTypeOK' /\ StreamTypeOK' /\ HistoryTypeOK'
      BY <1>9 DEF DrainPut, manager, stream, history
    <2>2. SenderTypeOK'
      BY <1>9 DEF DrainPut
    <2>3. StateLoaded'
      BY <1>9 DEF DrainPut
    <2> QED
      BY <2>1, <2>2, <2>3
  <1>10. CASE TakeQueued(s)
    <2>1. ManagerTypeOK' /\ StreamTypeOK' /\ HistoryTypeOK'
      BY <1>10 DEF TakeQueued, manager, stream, history
    <2>2. SenderTypeOK'
      BY <1>10 DEF TakeQueued
    <2>3. StateLoaded'
      BY <1>10 DEF TakeQueued
    <2> QED
      BY <2>1, <2>2, <2>3
  <1>11. CASE HandleAck(s)
    <2> DEFINE a == Head(acks[s])
    <2>1. a \in AckFrame /\ Tail(acks[s]) \in Seq(AckFrame)
      BY <1>11 DEF HandleAck
    <2>2. a.clip \in Clip
      BY <2>1 DEF AckFrame
    <2>3. Cleared(s, a) \in Clip \cup {NoClip}
      BY DEF Cleared
    <2>4. ManagerTypeOK'
      BY <1>11, <2>3 DEF HandleAck
    <2>5. HistoryTypeOK'
      BY <1>11, <2>2 DEF HandleAck
    <2>6. SenderTypeOK' /\ StateLoaded'
      BY <1>11 DEF HandleAck
    <2>7. StreamTypeOK'
      BY <1>11, <2>1 DEF HandleAck
    <2> QED
      BY <2>4, <2>5, <2>6, <2>7
  <1>12. CASE AttemptFailed(s)
    <2>1. ManagerTypeOK' /\ HistoryTypeOK'
      BY <1>12 DEF AttemptFailed, history
    <2>2. StreamTypeOK'
      BY <1>12 DEF AttemptFailed
    <2>3. SenderTypeOK'
      BY <1>12 DEF AttemptFailed, SeqRestarts
    <2>4. StateLoaded'
      BY <1>12 DEF AttemptFailed
    <2> QED
      BY <2>1, <2>2, <2>3, <2>4
  <1>13. CASE Reconnect(s)
    <2>1. ManagerTypeOK' /\ StreamTypeOK' /\ HistoryTypeOK'
      BY <1>13 DEF Reconnect, manager, stream, history
    <2>2. SenderTypeOK'
      BY <1>13 DEF Reconnect
    <2>3. StateLoaded'
      BY <1>13 DEF Reconnect
    <2> QED
      BY <2>1, <2>2, <2>3
  <1> QED
    BY <1>1, <1>2, <1>3, <1>4, <1>5, <1>6, <1>7, <1>8, <1>9, <1>10, <1>11, <1>12, <1>13
    DEF Progress

\* The failures, and the gateway.
LEMMA TypeEnvironment ==
  ASSUME TypeInv, NEW s \in Session, Interrupt(s) \/ Gateway(s)
  PROVE  TypeInv'
  <1> USE BoundsAssumption, PlaceTypes
      DEF TypeInv, TypeOK, ManagerTypeOK, SenderTypeOK, StreamTypeOK, HistoryTypeOK,
          StateLoaded,
          Goto, Interrupted, Fault
  <1>1. CASE DialFails(s)
    <2>1. ManagerTypeOK' /\ StreamTypeOK' /\ HistoryTypeOK'
      BY <1>1 DEF DialFails, manager, stream
    <2>2. SenderTypeOK'
      BY <1>1 DEF DialFails
    <2>3. StateLoaded'
      BY <1>1 DEF DialFails
    <2> QED
      BY <2>1, <2>2, <2>3
  <1>2. CASE WriteFails(s)
    <2>1. OutFrame(s) \in Frame
      BY <1>2 DEF WriteFails, OutFrame, Frame
    <2>2. ManagerTypeOK' /\ HistoryTypeOK'
      BY <1>2 DEF WriteFails, manager
    <2>3. StreamTypeOK'
      BY <1>2, <2>1 DEF WriteFails
    <2>4. SenderTypeOK' /\ StateLoaded'
      BY <1>2 DEF WriteFails
    <2> QED
      BY <2>2, <2>3, <2>4
  <1>3. CASE StreamEnds(s)
    <2>1. ManagerTypeOK' /\ StreamTypeOK' /\ HistoryTypeOK'
      BY <1>3 DEF StreamEnds, manager, stream
    <2>2. SenderTypeOK'
      BY <1>3 DEF StreamEnds
    <2>3. StateLoaded'
      BY <1>3 DEF StreamEnds
    <2> QED
      BY <2>1, <2>2, <2>3
  <1>4. CASE AckTimeout(s)
    <2>1. ManagerTypeOK' /\ StreamTypeOK' /\ HistoryTypeOK'
      BY <1>4 DEF AckTimeout, manager, stream
    <2>2. SenderTypeOK'
      BY <1>4 DEF AckTimeout
    <2>3. StateLoaded'
      BY <1>4 DEF AckTimeout
    <2> QED
      BY <2>1, <2>2, <2>3
  <1>5. CASE Gateway(s)
    <2> DEFINE f == Head(wire[s])
    <2>1. wire[s] # <<>>
      BY <1>5 DEF Gateway, GatewayApplies, GatewayRefused, GatewayCannotApply
    <2>2. f \in Frame /\ Tail(wire[s]) \in Seq(Frame)
      BY <2>1
    <2>3. f.clip \in Clip /\ f.seq \in Nat
      BY <2>2 DEF Frame
    <2>4. \A st \in {"applied", "rejected"} :
             [seq |-> f.seq, clip |-> f.clip, status |-> st] \in AckFrame
      BY <2>3 DEF AckFrame
    <2>5. ASSUME NEW st \in {"applied", "rejected"}, GatewayAck(s, st), UNCHANGED remoteUp
          PROVE  StreamTypeOK'
      <3>1. wire' \in [Session -> Seq(Frame)]
        BY <2>2, <2>5 DEF GatewayAck
      <3>2. gwNext' \in [Session -> Nat]
        BY <2>5 DEF GatewayAck
      <3> DEFINE a == [seq |-> f.seq, clip |-> f.clip, status |-> st]
      <3>3. acks' = [acks EXCEPT ![s] = Append(@, a)]
        BY <2>5 DEF GatewayAck
      <3>4. a \in AckFrame
        BY <2>4
      <3> HIDE DEF a
      <3>5. acks' \in [Session -> Seq(AckFrame)]
        BY <3>3, <3>4
      <3> QED
        BY <2>5, <3>1, <3>2, <3>5
    <2>6. StreamTypeOK'
      BY <1>5, <2>5 DEF Gateway, GatewayApplies, GatewayRefused, GatewayCannotApply,
         StatusOnFailure
    <2> QED
      BY <1>5, <2>3, <2>6 DEF Gateway, GatewayApplies, GatewayRefused, GatewayCannotApply,
         manager, sender, history
  <1> QED
    BY <1>1, <1>2, <1>3, <1>4, <1>5 DEF Interrupt

\* No step of callers, sessions, gateways or the environment leaves the types.
LEMMA TypeStep == TypeInv /\ [Next]_vars => TypeInv'
  <1> SUFFICES ASSUME TypeInv, [Next]_vars PROVE TypeInv'
    OBVIOUS
  <1>1. CASE UNCHANGED vars
    BY <1>1 DEF vars, manager, sender, stream, history, TypeInv, TypeOK, ManagerTypeOK,
       SenderTypeOK, StreamTypeOK, HistoryTypeOK, StateLoaded
  <1>2. CASE RemoteDown \/ RemoteUp
    <2>1. ManagerTypeOK' /\ SenderTypeOK' /\ StateLoaded'
      BY <1>2 DEF RemoteDown, RemoteUp, manager, sender, TypeInv, TypeOK, ManagerTypeOK,
         SenderTypeOK, StateLoaded
    <2>2. StreamTypeOK'
      BY <1>2 DEF RemoteDown, RemoteUp, TypeInv, TypeOK, StreamTypeOK
    <2>3. HistoryTypeOK'
      BY <1>2, BoundsAssumption DEF RemoteDown, RemoteUp, Fault, history, TypeInv, TypeOK,
         HistoryTypeOK
    <2> QED
      BY <2>1, <2>2, <2>3 DEF TypeInv, TypeOK
  <1>3. CASE \E s \in Session : Progress(s) \/ Interrupt(s) \/ Gateway(s)
    BY <1>3, TypeProgress, TypeEnvironment
  <1> QED
    BY <1>1, <1>2, <1>3, TypeCaller DEF Next

\* Every state of the manager, its sessions and their streams is well typed; in
\* particular sendState never puts an empty clip on a stream.
THEOREM TypeCorrect == Spec => []TypeOK
  <1>1. TypeInv => TypeOK
    BY DEF TypeInv
  <1> QED
    BY <1>1, TypeInit, TypeStep, PTL DEF Spec

-----------------------------------------------------------------------------
(* Delivery *)

\* An ack that says "applied" is about a clip the remote daemon was handed.
AcksAreTrue ==
    \A s \in Session : \A i \in 1 .. Len(acks[s]) :
        acks[s][i].status = "applied" => acks[s][i].clip \in handed

DeliveryInv == NeverLoseLatest /\ AckedWasHanded /\ AcksAreTrue

delivery == <<pending, latest, acks, handed, acked, rejected>>

\* A new manager owes the peer nothing.
LEMMA DeliveryInit == Init => DeliveryInv
  BY DEF Init, DeliveryInv, NeverLoseLatest, AckedWasHanded, AcksAreTrue

\* Only these actions touch what the invariant is about.
LEMMA DeliveryFrame ==
  ASSUME Next, ~RefreshRemove, ~Publish,
         \A s \in Session : ~(Remember(s) \/ HandleAck(s) \/ AttemptFailed(s) \/ Gateway(s))
  PROVE  UNCHANGED delivery
  <1>1. CASE Caller \/ Enqueue
    BY <1>1 DEF Caller, Start, RefreshAdd, RefreshReplace, StartPeer, Enqueue, EnqueueTry,
       EnqueueEvict, EnqueueRetry, stream, history, delivery
  <1>2. CASE RemoteDown \/ RemoteUp
    BY <1>2 DEF RemoteDown, RemoteUp, manager, history, delivery
  <1>3. ASSUME NEW s \in Session, Progress(s) PROVE UNCHANGED delivery
    BY <1>3 DEF Progress, Connecting, Dial, Connected, LoadPending, MarkSend, Write, DrainTake,
       DrainPut, TakeQueued, Reconnect, manager, stream, history, delivery
  <1>4. ASSUME NEW s \in Session, Interrupt(s) PROVE UNCHANGED delivery
    BY <1>4 DEF Interrupt, DialFails, WriteFails, StreamEnds, AckTimeout, manager, stream,
       delivery
  <1> QED
    BY <1>1, <1>2, <1>3, <1>4 DEF Next

\* No step forgets the newest clip or counts an undelivered one as acked.
LEMMA DeliveryStep == TypeInv /\ DeliveryInv /\ [Next]_vars => DeliveryInv'
  <1> SUFFICES ASSUME TypeInv, DeliveryInv, [Next]_vars PROVE DeliveryInv'
    OBVIOUS
  <1> USE DEF DeliveryInv, NeverLoseLatest, AckedWasHanded, AcksAreTrue
  <1>1. CASE UNCHANGED delivery
    BY <1>1 DEF delivery
  <1>2. CASE RefreshRemove
    BY <1>2 DEF RefreshRemove, stream
  <1>3. CASE Publish
    BY <1>3 DEF Publish, stream
  <1>4. ASSUME NEW s \in Session, Remember(s) PROVE DeliveryInv'
    BY <1>4 DEF Remember, Remembered, stream, history
  <1>5. ASSUME NEW s \in Session, HandleAck(s) PROVE DeliveryInv'
    <2> DEFINE a == Head(acks[s])
    <2>1. acks[s] \in Seq(AckFrame) /\ acks[s] # <<>>
      BY <1>5 DEF HandleAck, TypeInv, TypeOK, StreamTypeOK
    <2>2. a = acks[s][1] /\ 1 \in 1 .. Len(acks[s]) /\ a \in AckFrame
      BY <2>1
    <2>3. a.status = "applied" => a.clip \in handed
      BY <2>2
    <2>4. a.status \in {"applied", "rejected"}
      BY <2>2 DEF AckFrame
    <2>5. AckedWasHanded'
      BY <1>5, <2>3 DEF HandleAck
    <2>6. NeverLoseLatest'
      BY <1>5, <2>4 DEF HandleAck, Cleared
    <2>7. AcksAreTrue'
      <3> SUFFICES ASSUME NEW t \in Session, NEW i \in 1 .. Len(acks'[t]),
                          acks'[t][i].status = "applied"
                   PROVE  acks'[t][i].clip \in handed
        BY <1>5 DEF HandleAck
      <3>1. CASE t = s
        <4>1. acks'[s] = Tail(acks[s])
          BY <1>5 DEF HandleAck, TypeInv, TypeOK, StreamTypeOK
        <4>2. i + 1 \in 1 .. Len(acks[s]) /\ acks'[s][i] = acks[s][i + 1]
          BY <2>1, <3>1, <4>1
        <4> QED
          BY <3>1, <4>2
      <3>2. CASE t # s
        <4>1. acks'[t] = acks[t]
          BY <1>5, <3>2 DEF HandleAck, TypeInv, TypeOK, StreamTypeOK
        <4> QED
          BY <4>1
      <3> QED
        BY <3>1, <3>2
    <2> QED
      BY <2>5, <2>6, <2>7
  <1>6. ASSUME NEW s \in Session, AttemptFailed(s) PROVE DeliveryInv'
    BY <1>6 DEF AttemptFailed, history, TypeInv, TypeOK, StreamTypeOK
  <1>7. ASSUME NEW s \in Session, Gateway(s) PROVE DeliveryInv'
    <2> DEFINE f == Head(wire[s])
    <2>1. UNCHANGED <<pending, latest, acked, rejected>> /\ handed \subseteq handed'
      BY <1>7 DEF Gateway, GatewayApplies, GatewayRefused, GatewayCannotApply, manager, history
    <2>2. PICK st : /\ GatewayAck(s, st)
                    /\ st = "applied" => f.clip \in handed'
      BY <1>7 DEF Gateway, GatewayApplies, GatewayRefused, GatewayCannotApply, StatusOnFailure
    <2>3. acks[s] \in Seq(AckFrame)
      BY DEF TypeInv, TypeOK, StreamTypeOK
    <2>4. AcksAreTrue'
      <3> SUFFICES ASSUME NEW t \in Session, NEW i \in 1 .. Len(acks'[t]),
                          acks'[t][i].status = "applied"
                   PROVE  acks'[t][i].clip \in handed'
        OBVIOUS
      <3>1. CASE t = s
        <4> DEFINE m == [seq |-> f.seq, clip |-> f.clip, status |-> st]
        <4>1. acks'[s] = Append(acks[s], m)
          BY <2>2 DEF GatewayAck, TypeInv, TypeOK, StreamTypeOK
        <4>2. CASE i \in 1 .. Len(acks[s])
          BY <2>1, <2>3, <3>1, <4>1, <4>2
        <4>3. CASE i = Len(acks[s]) + 1
          <5>1. acks'[s][i] = m
            BY <2>3, <4>1, <4>3
          <5> QED
            BY <2>2, <3>1, <5>1
        <4> QED
          BY <2>3, <3>1, <4>1, <4>2, <4>3
      <3>2. CASE t # s
        <4>1. acks'[t] = acks[t]
          BY <2>2, <3>2 DEF GatewayAck, TypeInv, TypeOK, StreamTypeOK
        <4> QED
          BY <2>1, <4>1
      <3> QED
        BY <3>1, <3>2
    <2> QED
      BY <2>1, <2>4
  <1>8. CASE UNCHANGED vars
    BY <1>1, <1>8 DEF vars, manager, stream, history, delivery
  <1> QED
    BY <1>1, <1>2, <1>3, <1>4, <1>5, <1>6, <1>7, <1>8, DeliveryFrame

\* The newest clip owed to a peer stays in m.pending until an ack for this very
\* clip is processed: no broken stream, failed write, timeout or replaced session
\* makes the manager forget it.
THEOREM LatestIsNeverLost == Spec => []NeverLoseLatest
  <1>1. DeliveryInv => NeverLoseLatest
    BY DEF DeliveryInv
  <1> QED
    BY <1>1, TypeInit, TypeStep, DeliveryInit, DeliveryStep, PTL DEF Spec

\* No clip counts as delivered that the remote daemon was not handed.
THEOREM AckedIsDelivered == Spec => []AckedWasHanded
  <1>1. DeliveryInv => AckedWasHanded
    BY DEF DeliveryInv
  <1> QED
    BY <1>1, TypeInit, TypeStep, DeliveryInit, DeliveryStep, PTL DEF Spec

-----------------------------------------------------------------------------
(* Ownership of the peer *)

\* m.sessions holds a session only while the manager runs and lists the peer,
\* and sessions that are not started yet have no goroutine.
SessionsInOrder ==
    /\ cur <= spawned
    /\ cur # NoSession => started /\ configured
    /\ \A s \in Session : s > spawned => pc[s] = "none" /\ ~cancelled[s]

OwnershipInv == SessionOwnership /\ SessionsInOrder

\* A new manager has no session.
LEMMA OwnershipInit == Init => OwnershipInv
  BY BoundsAssumption DEF Init, OwnershipInv, SessionOwnership, SessionsInOrder, Session,
     NoSession

\* A session is started while none is current.
LEMMA OwnershipStart ==
  ASSUME TypeInv, OwnershipInv, cur = NoSession \/ cancelled' = CancelCurrent,
         cur = NoSession => UNCHANGED cancelled,
         NEW s \in Session, StartPeer(s, rt), pc' = [pc EXCEPT ![s] = "connect"],
         started', configured'
  PROVE  OwnershipInv'
  BY BoundsAssumption DEF StartPeer, CancelCurrent, OwnershipInv, SessionOwnership,
     SessionsInOrder, Session, NoSession, TypeInv, TypeOK, ManagerTypeOK, SenderTypeOK

\* No step leaves the peer with two live sessions or, once started, with none.
LEMMA OwnershipStep == TypeInv /\ OwnershipInv /\ [Next]_vars => OwnershipInv'
  <1> SUFFICES ASSUME TypeInv, OwnershipInv, [Next]_vars PROVE OwnershipInv'
    OBVIOUS
  <1> USE DEF NoSession
  <1>1. CASE Start
    <2>1. CASE configured
      BY <1>1, <2>1, OwnershipStart DEF Start, OwnershipInv, SessionsInOrder
    <2>2. CASE ~configured
      BY <1>1, <2>2 DEF Start, OwnershipInv, SessionOwnership, SessionsInOrder
    <2> QED
      BY <2>1, <2>2
  <1>2. CASE RefreshAdd
    <2>1. CASE started
      BY <1>2, <2>1, OwnershipStart DEF RefreshAdd, OwnershipInv, SessionsInOrder
    <2>2. CASE ~started
      BY <1>2, <2>2 DEF RefreshAdd, OwnershipInv, SessionOwnership, SessionsInOrder
    <2> QED
      BY <2>1, <2>2
  <1>3. CASE RefreshReplace
    BY <1>3, OwnershipStart DEF RefreshReplace, OwnershipInv, SessionsInOrder
  <1>4. CASE RefreshRemove
    BY <1>4, BoundsAssumption DEF RefreshRemove, CancelCurrent, OwnershipInv, SessionOwnership,
       SessionsInOrder, Session, TypeInv, TypeOK, ManagerTypeOK, SenderTypeOK
  <1>5. CASE UNCHANGED <<started, configured, cur, spawned, cancelled, pc>>
    BY <1>5 DEF OwnershipInv, SessionOwnership, SessionsInOrder
  <1>6. ASSUME NEW s \in Session, NEW place,
               UNCHANGED <<started, configured, cur, spawned, cancelled>>,
               pc[s] # "none", Goto(s, place),
               place \notin {"none", "done"} \/ (place = "done" /\ (cur # s \/ cancelled[s]))
        PROVE  OwnershipInv'
    BY <1>6 DEF Goto, OwnershipInv, SessionOwnership, SessionsInOrder, Session, TypeInv, TypeOK,
       SenderTypeOK
  <1>7. ASSUME NEW s \in Session, Progress(s) PROVE OwnershipInv'
    <2>1. UNCHANGED <<started, configured, cur, spawned, cancelled>>
      BY <1>7 DEF Progress, Connecting, Dial, Connected, LoadPending, MarkSend, Write, Remember,
         DrainTake, DrainPut, TakeQueued, HandleAck, AttemptFailed, Reconnect, manager
    <2>2. CASE HandleAck(s)
      BY <2>1, <2>2, <1>5 DEF HandleAck
    <2>3. CASE ~HandleAck(s)
      <3>1. pc[s] # "none"
        BY <1>7, <2>3 DEF Progress, Connecting, Dial, Connected, LoadPending, MarkSend, Write,
           Remember, DrainTake, DrainPut, TakeQueued, AttemptFailed, Reconnect
      <3>2. \/ Goto(s, "connect") \/ Goto(s, "dial") \/ Goto(s, "hello") \/ Goto(s, "load")
            \/ Goto(s, "mark") \/ Goto(s, "write") \/ Goto(s, "drain") \/ Goto(s, "putback")
            \/ Goto(s, "select") \/ Goto(s, "failed") \/ Goto(s, "wait")
            \/ Goto(s, "done") /\ (cur # s \/ cancelled[s])
        BY <1>7, <2>3 DEF Progress, Connecting, Dial, Connected, LoadPending, MarkSend, Write,
           Remember, DrainTake, DrainPut, TakeQueued, AttemptFailed, Reconnect
      <3> QED
        BY <2>1, <3>1, <3>2, <1>6
    <2> QED
      BY <2>2, <2>3
  <1>8. ASSUME NEW s \in Session, Interrupt(s) PROVE OwnershipInv'
    <2>1. UNCHANGED <<started, configured, cur, spawned, cancelled>>
      BY <1>8 DEF Interrupt, DialFails, WriteFails, StreamEnds, AckTimeout, manager
    <2>2. PICK place \in {"failed", "remember"} : pc[s] # "none" /\ Goto(s, place)
      BY <1>8 DEF Interrupt, DialFails, WriteFails, StreamEnds, AckTimeout
    <2> QED
      BY <2>1, <2>2, <1>6
  <1>9. ASSUME Publish \/ Enqueue \/ RemoteDown \/ RemoteUp \/ \E s \in Session : Gateway(s)
        PROVE  OwnershipInv'
    BY <1>5, <1>9 DEF Publish, Enqueue, EnqueueTry, EnqueueEvict, EnqueueRetry, RemoteDown,
       RemoteUp, Gateway, GatewayApplies, GatewayRefused, GatewayCannotApply, manager, sender
  <1>10. CASE UNCHANGED vars
    BY <1>5, <1>10 DEF vars, manager, sender
  <1> QED
    BY <1>1, <1>2, <1>3, <1>4, <1>7, <1>8, <1>9, <1>10 DEF Next, Caller

\* A peer has one session that runs and is not cancelled as soon as the manager
\* has started and lists it, and every other session ever started is cancelled.
THEOREM OneSessionPerPeer == Spec => []SessionOwnership
  <1>1. OwnershipInv => SessionOwnership
    BY DEF OwnershipInv
  <1> QED
    BY <1>1, TypeInit, TypeStep, OwnershipInit, OwnershipStep, PTL DEF Spec

\* What StaleSessionInert says of one step.
StaleStep ==
    \A s \in Session : (cur # s /\ pc[s] # "none" /\ <<pc[s], acks[s]>>' # <<pc[s], acks[s]>>)
        => UNCHANGED <<pending, rt, acked, rejected>>

\* In every step, the goroutine of a replaced session leaves the manager's state alone.
LEMMA StaleStepHolds == TypeInv /\ OwnershipInv /\ [Next]_vars => [StaleStep]_vars
  <1> SUFFICES ASSUME TypeInv, OwnershipInv, Next,
                      NEW s \in Session, cur # s, pc[s] # "none",
                      <<pc[s], acks[s]>>' # <<pc[s], acks[s]>>
               PROVE  UNCHANGED <<pending, rt, acked, rejected>>
    BY DEF StaleStep
  <1> USE DEF TypeInv, TypeOK, SenderTypeOK, StreamTypeOK, Goto
  <1>1. CASE \E t \in Session : StartPeer(t, rt) /\ pc' = [pc EXCEPT ![t] = "connect"]
                               /\ UNCHANGED acks
    <2>1. PICK t \in Session : t = spawned + 1 /\ pc' = [pc EXCEPT ![t] = "connect"]
                              /\ UNCHANGED acks
      BY <1>1 DEF StartPeer
    <2>2. t # s
      BY <2>1 DEF OwnershipInv, SessionsInOrder, Session
    <2> QED
      BY <2>1, <2>2
  <1>2. CASE Caller \/ Enqueue
    <2>1. CASE UNCHANGED <<pc, acks>>
      BY <2>1
    <2> QED
      BY <1>1, <1>2, <2>1 DEF Caller, Start, RefreshAdd, RefreshReplace, RefreshRemove, Publish,
         Enqueue, EnqueueTry, EnqueueEvict, EnqueueRetry, sender, stream
  <1>3. ASSUME NEW t \in Session, Progress(t) PROVE UNCHANGED <<pending, rt, acked, rejected>>
    <2>1. CASE t # s
      <3>1. pc'[s] = pc[s] /\ acks'[s] = acks[s]
        BY <1>3, <2>1 DEF Progress, Connecting, Dial, Connected, LoadPending, MarkSend, Write,
           Remember, DrainTake, DrainPut, TakeQueued, HandleAck, AttemptFailed, Reconnect,
           stream
      <3> QED
        BY <3>1
    <2>2. CASE t = s
      BY <1>3, <2>2 DEF Progress, Connecting, Dial, Connected, LoadPending, MarkSend, Write,
         Remember, Remembered, DrainTake, DrainPut, TakeQueued, HandleAck, Cleared, Counts,
         AttemptFailed, Reconnect, manager, history
    <2> QED
      BY <2>1, <2>2
  <1>4. ASSUME NEW t \in Session, Interrupt(t) \/ Gateway(t) \/ RemoteDown \/ RemoteUp
        PROVE  UNCHANGED <<pending, rt, acked, rejected>>
    BY <1>4 DEF Interrupt, DialFails, WriteFails, StreamEnds, AckTimeout, Gateway,
       GatewayApplies,
       GatewayRefused, GatewayCannotApply, RemoteDown, RemoteUp, manager, history
  <1> QED
    BY <1>2, <1>3, <1>4 DEF Next

\* Wherever Refresh overtakes the goroutine of a session, what this goroutine
\* still does leaves the manager's record of the peer alone.
THEOREM StaleSessionsAreInert == Spec => StaleSessionInert
  BY TypeInit, TypeStep, OwnershipInit, OwnershipStep, StaleStepHolds, PTL
  DEF Spec, StaleSessionInert, StaleStep

-----------------------------------------------------------------------------
(* Sequence numbers *)

\* The frames on the wire continue the gateway's count. The number of the last
\* frame continues those on the wire, and every attempt starts on a fresh stream.
Contiguous(s) == \A i \in 1 .. Len(wire[s]) : wire[s][i].seq = gwNext[s] + i - 1

Continues(s) ==
    /\ pc[s] \in {"load", "mark", "drain", "putback", "select"} =>
          seq[s] + 1 = gwNext[s] + Len(wire[s])
    /\ pc[s] = "write" => seq[s] = gwNext[s] + Len(wire[s])
    /\ pc[s] \in {"none", "connect", "dial", "hello", "wait"} =>
          seq[s] = 0 /\ wire[s] = <<>> /\ gwNext[s] = 1

SequenceInv == \A s \in Session : Contiguous(s) /\ Continues(s)

\* No stream has carried a frame yet.
LEMMA SequenceInit == Init => SequenceInv
  BY DEF Init, SequenceInv, Contiguous, Continues

\* The streams of other sessions are left alone.
LEMMA SequenceOthers ==
  ASSUME TypeInv, SequenceInv, NEW t \in Session, Progress(t) \/ Interrupt(t) \/ Gateway(t),
         NEW s \in Session, s # t
  PROVE  (Contiguous(s) /\ Continues(s))'
  <1> USE DEF TypeInv, TypeOK, SenderTypeOK, StreamTypeOK, Goto
  <1>1. CASE Progress(t)
    <2>1. UNCHANGED <<pc[s], seq[s], wire[s], gwNext[s]>>
      <3>1. CASE Connecting(t) \/ Dial(t) \/ Connected(t) \/ LoadPending(t) \/ MarkSend(t)
        BY <3>1 DEF Connecting, Dial, Connected, LoadPending, MarkSend, stream
      <3>2. CASE Write(t) \/ Remember(t) \/ DrainTake(t) \/ DrainPut(t) \/ TakeQueued(t)
        BY <3>2 DEF Write, Remember, DrainTake, DrainPut, TakeQueued, stream
      <3>3. CASE HandleAck(t)
        BY <3>3 DEF HandleAck
      <3>4. CASE AttemptFailed(t) \/ Reconnect(t)
        BY <3>4 DEF AttemptFailed, SeqRestarts, Reconnect, stream
      <3> QED
        BY <1>1, <3>1, <3>2, <3>3, <3>4 DEF Progress
    <2> QED
      BY <2>1 DEF SequenceInv, Contiguous, Continues
  <1>2. CASE Interrupt(t)
    <2>1. UNCHANGED <<pc[s], seq[s], wire[s], gwNext[s]>>
      BY <1>2 DEF Interrupt, DialFails, WriteFails, StreamEnds, AckTimeout, stream
    <2> QED
      BY <2>1 DEF SequenceInv, Contiguous, Continues
  <1>3. CASE Gateway(t)
    <2>1. UNCHANGED <<pc[s], seq[s], wire[s], gwNext[s]>>
      BY <1>3 DEF Gateway, GatewayApplies, GatewayRefused, GatewayCannotApply, GatewayAck,
         sender
    <2> QED
      BY <2>1 DEF SequenceInv, Contiguous, Continues
  <1> QED
    BY <1>1, <1>2, <1>3

\* A frame with the next number keeps the wire contiguous.
LEMMA FrameAppended ==
  ASSUME TypeInv, NEW s \in Session, Contiguous(s), pc[s] = "write", Continues(s),
         OutFrame(s) \in Frame, wire' = [wire EXCEPT ![s] = Append(@, OutFrame(s))],
         UNCHANGED gwNext
  PROVE  Contiguous(s)' /\ Len(wire'[s]) = Len(wire[s]) + 1
  <1>1. wire[s] \in Seq(Frame) /\ gwNext[s] \in Nat
    BY DEF TypeInv, TypeOK, StreamTypeOK
  <1>2. wire'[s] = Append(wire[s], OutFrame(s))
    BY DEF TypeInv, TypeOK, StreamTypeOK
  <1>3. OutFrame(s).seq = gwNext[s] + Len(wire[s])
    BY DEF OutFrame, Continues
  <1>4. ASSUME NEW i \in 1 .. Len(wire'[s]) PROVE wire'[s][i].seq = gwNext[s] + i - 1
    <2>1. CASE i \in 1 .. Len(wire[s])
      BY <1>1, <1>2, <2>1 DEF Contiguous
    <2>2. CASE i = Len(wire[s]) + 1
      BY <1>1, <1>2, <1>3, <2>2
    <2> QED
      BY <1>1, <1>2, <2>1, <2>2
  <1> QED
    BY <1>1, <1>2, <1>4 DEF Contiguous

\* What a session or its gateway does keeps the session's own stream in sequence.
LEMMA SequenceOwn ==
  ASSUME TypeInv, SequenceInv, NEW s \in Session, Progress(s) \/ Interrupt(s) \/ Gateway(s)
  PROVE  (Contiguous(s) /\ Continues(s))'
  <1> USE DEF TypeInv, TypeOK, SenderTypeOK, StreamTypeOK, Goto
  <1>a. Contiguous(s) /\ Continues(s)
    BY DEF SequenceInv
  <1> DEFINE Fresh   == {"none", "connect", "dial", "hello", "wait"}
             Sending == {"load", "mark", "drain", "putback", "select"}
  <1>1. ASSUME UNCHANGED <<seq, wire, gwNext>>,
               \/ pc'[s] = pc[s]
               \/ pc[s] \in Fresh /\ pc'[s] \in Fresh \cup {"load", "done", "failed"}
               \/ pc[s] \in Sending /\ pc'[s] \in Sending
               \/ pc'[s] = "failed"
        PROVE  (Contiguous(s) /\ Continues(s))'
    <2>1. Contiguous(s)'
      BY <1>1, <1>a DEF Contiguous
    <2>2. seq[s] \in Nat /\ gwNext[s] \in Nat /\ wire[s] \in Seq(Frame)
      OBVIOUS
    <2>3. CASE pc'[s] = pc[s]
      <3>1. /\ pc'[s] = pc[s] /\ seq'[s] = seq[s]
            /\ wire'[s] = wire[s] /\ gwNext'[s] = gwNext[s] /\ Len(wire'[s]) = Len(wire[s])
        BY <1>1, <2>3
      <3>2. Continues(s)'
        BY ONLY <1>a, <3>1 DEF Continues
      <3> QED
        BY <2>1, <3>2
    <2>4. CASE pc[s] \in Fresh /\ pc'[s] \in Fresh \cup {"load", "done", "failed"}
      <3>1. seq[s] = 0 /\ wire[s] = <<>> /\ gwNext[s] = 1
        BY <1>a, <2>4 DEF Continues
      <3>2. seq'[s] = 0 /\ wire'[s] = <<>> /\ gwNext'[s] = 1 /\ Len(wire'[s]) = 0
        BY <1>1, <3>1
      <3> QED
        BY <2>1, <2>4, <3>2 DEF Continues
    <2>5. CASE pc[s] \in Sending /\ pc'[s] \in Sending
      <3>1. seq[s] + 1 = gwNext[s] + Len(wire[s])
        BY <1>a, <2>5 DEF Continues
      <3>2. seq'[s] + 1 = gwNext'[s] + Len(wire'[s])
        BY <1>1, <3>1
      <3> QED
        BY <2>1, <2>5, <3>2 DEF Continues
    <2>6. CASE pc'[s] = "failed"
      BY <2>1, <2>6 DEF Continues
    <2> QED
      BY <1>1, <2>3, <2>4, <2>5, <2>6
  <1>2. CASE Connecting(s) \/ Dial(s) \/ Connected(s) \/ Reconnect(s) \/ DialFails(s)
    <2>1. /\ UNCHANGED <<seq, wire, gwNext>>
          /\ pc[s] \in Fresh /\ pc'[s] \in Fresh \cup {"load", "done", "failed"}
      BY <1>2 DEF Connecting, Dial, Connected, Reconnect, DialFails, stream
    <2> QED
      BY <1>1, <2>1
  <1>3. CASE LoadPending(s) \/ DrainTake(s) \/ DrainPut(s) \/ TakeQueued(s)
    <2>1. UNCHANGED <<seq, wire, gwNext>> /\ pc[s] \in Sending /\ pc'[s] \in Sending
      BY <1>3 DEF LoadPending, DrainTake, DrainPut, TakeQueued, stream
    <2> QED
      BY <1>1, <2>1
  <1>4. CASE StreamEnds(s) \/ AckTimeout(s) \/ HandleAck(s) \/ Remember(s)
    <2>1. UNCHANGED <<seq, wire, gwNext>> /\ (pc'[s] = "failed" \/ pc'[s] = pc[s])
      BY <1>4 DEF StreamEnds, AckTimeout, HandleAck, Remember, stream
    <2> QED
      BY <1>1, <2>1
  <1>5. CASE MarkSend(s)
    BY <1>5, <1>a DEF MarkSend, stream, Contiguous, Continues
  <1>6. CASE Write(s)
    <2>1. OutFrame(s) \in Frame /\ pc[s] = "write"
      BY <1>6 DEF Write, OutFrame, Frame, StateLoaded
    <2>2. Contiguous(s)' /\ Len(wire'[s]) = Len(wire[s]) + 1
      BY <1>6, <1>a, <2>1, FrameAppended DEF Write
    <2>3. pc'[s] \in {"drain", "select"} /\ UNCHANGED <<seq, gwNext>>
      BY <1>6 DEF Write
    <2> QED
      BY <1>a, <2>1, <2>2, <2>3 DEF Continues
  <1>7. CASE WriteFails(s)
    <2>1. OutFrame(s) \in Frame /\ pc[s] = "write" /\ UNCHANGED gwNext
      BY <1>7 DEF WriteFails, OutFrame, Frame, StateLoaded
    <2>2. Contiguous(s)'
      <3>1. CASE UNCHANGED wire
        BY <1>a, <2>1, <3>1 DEF Contiguous
      <3>2. CASE wire' = [wire EXCEPT ![s] = Append(@, OutFrame(s))]
        BY <1>a, <2>1, <3>2, FrameAppended
      <3> QED
        BY <1>7, <3>1, <3>2 DEF WriteFails
    <2>3. pc'[s] = "remember"
      BY <1>7 DEF WriteFails
    <2> QED
      BY <2>2, <2>3 DEF Continues
  <1>8. CASE AttemptFailed(s)
    BY <1>8 DEF AttemptFailed, SeqRestarts, Contiguous, Continues
  <1>9. CASE Gateway(s)
    <2>1. wire[s] # <<>> /\ wire[s] \in Seq(Frame) /\ gwNext[s] \in Nat /\ seq[s] \in Nat
      BY <1>9 DEF Gateway, GatewayApplies, GatewayRefused, GatewayCannotApply
    <2>2. /\ wire'[s] = Tail(wire[s]) /\ gwNext'[s] = gwNext[s] + 1
          /\ UNCHANGED <<pc, seq>>
      BY <1>9 DEF Gateway, GatewayApplies, GatewayRefused, GatewayCannotApply, GatewayAck,
         sender
    <2>3. Len(wire'[s]) = Len(wire[s]) - 1 /\ Len(wire[s]) \in Nat
      BY <2>1, <2>2
    <2>4. Contiguous(s)'
      <3>1. \A i \in 1 .. Len(wire'[s]) : wire'[s][i] = wire[s][i + 1] /\ i + 1 \in 1 .. Len(wire[s])
        BY <2>1, <2>2
      <3>2. ASSUME NEW i \in 1 .. Len(wire'[s])
            PROVE  wire'[s][i].seq = gwNext'[s] + i - 1
        <4>1. wire[s][i + 1].seq = gwNext[s] + (i + 1) - 1
          BY <1>a, <3>1 DEF Contiguous
        <4> QED
          BY <2>1, <2>2, <2>3, <3>1, <4>1
      <3> QED
        BY <3>2 DEF Contiguous
    <2>5. Continues(s)'
      BY <1>a, <2>1, <2>2, <2>3 DEF Continues
    <2> QED
      BY <2>4, <2>5
  <1> QED
    BY <1>2, <1>3, <1>4, <1>5, <1>6, <1>7, <1>8, <1>9 DEF Progress, Interrupt

\* No step breaks the sequence of any stream.
LEMMA SequenceStep == TypeInv /\ OwnershipInv /\ SequenceInv /\ [Next]_vars => SequenceInv'
  <1> SUFFICES ASSUME TypeInv, OwnershipInv, SequenceInv, [Next]_vars PROVE SequenceInv'
    OBVIOUS
  <1>1. ASSUME NEW t \in Session, Progress(t) \/ Interrupt(t) \/ Gateway(t)
        PROVE  SequenceInv'
    BY <1>1, SequenceOthers, SequenceOwn DEF SequenceInv
  <1>2. CASE UNCHANGED <<pc, seq, wire, gwNext>>
    BY <1>2 DEF SequenceInv, Contiguous, Continues
  <1>3. ASSUME NEW t \in Session, t = spawned + 1, pc' = [pc EXCEPT ![t] = "connect"],
               UNCHANGED <<seq, wire, gwNext>>
        PROVE  SequenceInv'
    <2>1. pc[t] = "none"
      BY <1>3 DEF OwnershipInv, SessionsInOrder, Session, TypeInv, TypeOK, SenderTypeOK
    <2> QED
      BY <1>3, <2>1 DEF SequenceInv, Contiguous, Continues, TypeInv, TypeOK, SenderTypeOK
  <1>4. CASE Caller
    BY <1>2, <1>3, <1>4 DEF Caller, Start, RefreshAdd, RefreshReplace, RefreshRemove, Publish,
       StartPeer, sender, stream
  <1>5. CASE Enqueue \/ RemoteDown \/ RemoteUp \/ UNCHANGED vars
    BY <1>2, <1>5 DEF Enqueue, EnqueueTry, EnqueueEvict, EnqueueRetry, RemoteDown, RemoteUp,
       vars,
       sender, stream
  <1> QED
    BY <1>1, <1>4, <1>5 DEF Next

\* The gateway never meets a frame out of sequence, on any stream of any session:
\* the sequence check of the stream fires only for a peer that breaks the protocol.
THEOREM SequenceIsGapless == Spec => []NoSequenceGap
  <1>1. SequenceInv => NoSequenceGap
    BY DEF SequenceInv, Contiguous, NoSequenceGap
  <1> QED
    BY <1>1, TypeInit, TypeStep, OwnershipInit, OwnershipStep, SequenceInit, SequenceStep, PTL
    DEF Spec

-----------------------------------------------------------------------------
(* The newest clip, with Publish kept out of the drain window *)

\* While Publish works on the channel, what it published is pending, the session
\* is not about to put a clip back, and the channel it has emptied stays empty.
PublishInv ==
    mu # "free" => /\ cur # NoSession
                   /\ pending = latest /\ latest # NoClip
                   /\ pc[cur] # "putback"
                   /\ mu = "retry" => send[cur] = NoClip

\* A session that has not been started has an empty channel.
IdleInv == \A s \in Session : pc[s] = "none" => send[s] = NoClip

\* What the current session has in hand, queued or taken out is the newest clip,
\* unless a newer one is pending.
CarriesInv ==
    cur # NoSession =>
        /\ pc[cur] \in {"mark", "write", "remember", "drain"} =>
              latest # NoClip /\ latest \in {state[cur], pending}
        /\ mu = "free" => send[cur] \in {NoClip, latest}
        /\ pc[cur] = "putback" => latest # NoClip /\ held[cur] = latest

NewestInv == PendingIsNewest /\ PublishInv /\ IdleInv /\ CarriesInv

\* Is clip c in flight on the stream of session s?
InFlight(s, c) == \E m \in inflight[s] : m.clip = c

\* A frame or an ack with the number of a state in flight is about its clip.
SameClip(s, f) == \A m \in inflight[s] : f.seq = m.seq => f.clip = m.clip

\* Numbers identify what is in flight: the next frame's number is new, and
\* every ack has been counted by the gateway.
MatchOK(s) ==
    /\ \A m \in inflight[s] : m.seq <= seq[s] /\ (pc[s] = "write" => m.seq < seq[s])
    /\ \A i \in 1 .. Len(acks[s]) : acks[s][i].seq < gwNext[s] /\ SameClip(s, acks[s][i])
    /\ \A i \in 1 .. Len(wire[s]) : SameClip(s, wire[s][i])
    /\ pc[s] \in {"none", "connect", "dial", "hello", "wait"} =>
          inflight[s] = {} /\ acks[s] = <<>>

MatchInv == \A s \in Session : MatchOK(s)

\* A clip pending at a session that is past its replay is being sent, queued,
\* in flight, or taken out to be put back.
WayInv ==
    cur # NoSession =>
        /\ pc[cur] = "drain" => InFlight(cur, state[cur])
        /\ (mu = "free" /\ pending # NoClip) =>
              /\ pc[cur] \in {"mark", "write"} =>
                    \/ state[cur] = pending \/ send[cur] = pending \/ InFlight(cur, pending)
              /\ pc[cur] \in {"drain", "select"} =>
                    send[cur] = pending \/ InFlight(cur, pending)

\* A new manager has nothing to send.
LEMMA NewestInit == Init => NewestInv /\ MatchInv /\ WayInv
  BY DEF Init, NewestInv, PendingIsNewest, PublishInv, IdleInv, CarriesInv, MatchInv, MatchOK,
     WayInv

\* What a replaced session, or its gateway, does is nothing to the current one.
LEMMA OthersLeaveCurrent ==
  ASSUME TypeInv, NEW t \in Session, t # cur, Progress(t) \/ Interrupt(t) \/ Gateway(t)
  PROVE  /\ UNCHANGED <<cur, pending, latest, mu>>
         /\ cur \in Session => UNCHANGED <<pc[cur], send[cur], state[cur], held[cur], inflight[cur]>>
  <1> USE DEF TypeInv, TypeOK, SenderTypeOK, Goto
  <1>1. CASE Connecting(t) \/ Connected(t)
    BY <1>1 DEF Connecting, Connected, history
  <1>2. CASE Dial(t) \/ LoadPending(t)
    BY <1>2 DEF Dial, LoadPending, manager, history
  <1>3. CASE MarkSend(t)
    BY <1>3 DEF MarkSend, history
  <1>4. CASE Write(t) \/ Remember(t) \/ DrainTake(t) \/ DrainPut(t) \/ TakeQueued(t)
    BY <1>4 DEF Write, Remember, Remembered, DrainTake, DrainPut, TakeQueued, manager, history
  <1>5. CASE HandleAck(t)
    BY <1>5 DEF HandleAck, Cleared, Counts
  <1>6. CASE AttemptFailed(t) \/ Reconnect(t)
    BY <1>6 DEF AttemptFailed, Reconnect, manager, history
  <1>7. CASE Interrupt(t)
    BY <1>7 DEF Interrupt, DialFails, WriteFails, StreamEnds, AckTimeout, manager
  <1>8. CASE Gateway(t)
    BY <1>8 DEF Gateway, GatewayApplies, GatewayRefused, GatewayCannotApply, manager, sender,
       history
  <1> QED
    BY <1>1, <1>2, <1>3, <1>4, <1>5, <1>6, <1>7, <1>8 DEF Progress

\* A goroutine that runs leaves the sessions to come alone.
LEMMA IdleSessionStep ==
  ASSUME TypeInv, IdleInv, NEW t \in Session, Progress(t) \/ Interrupt(t) \/ Gateway(t)
  PROVE  IdleInv'
  <1> USE DEF TypeInv, TypeOK, SenderTypeOK, Goto, IdleInv
  <1>1. CASE Connecting(t) \/ Dial(t) \/ Connected(t) \/ LoadPending(t) \/ MarkSend(t)
    BY <1>1 DEF Connecting, Dial, Connected, LoadPending, MarkSend
  <1>2. CASE Write(t) \/ Remember(t)
    BY <1>2 DEF Write, Remember
  <1>3. CASE DrainTake(t) \/ DrainPut(t) \/ TakeQueued(t)
    BY <1>3 DEF DrainTake, DrainPut, TakeQueued
  <1>4. CASE HandleAck(t) \/ AttemptFailed(t) \/ Reconnect(t)
    BY <1>4 DEF HandleAck, AttemptFailed, Reconnect
  <1>5. CASE Interrupt(t)
    BY <1>5 DEF Interrupt, DialFails, WriteFails, StreamEnds, AckTimeout
  <1>6. CASE Gateway(t)
    BY <1>6 DEF Gateway, GatewayApplies, GatewayRefused, GatewayCannotApply, sender
  <1> QED
    BY <1>1, <1>2, <1>3, <1>4, <1>5, <1>6 DEF Progress

\* The current session never replaces the newest clip by an older one.
LEMMA NewestOwn ==
  ASSUME DrainRaces = FALSE, TypeInv, NewestInv,
         cur \in Session, Progress(cur) \/ Interrupt(cur) \/ Gateway(cur)
  PROVE  PendingIsNewest' /\ PublishInv' /\ CarriesInv'
  <1> USE DEF TypeInv, TypeOK, SenderTypeOK, Goto, NewestInv, PendingIsNewest, PublishInv, CarriesInv
  <1>a. cur # NoSession
    BY BoundsAssumption DEF Session, NoSession
  <1>1. CASE Connecting(cur) \/ Dial(cur) \/ Connected(cur)
    BY <1>1 DEF Connecting, Dial, Connected, manager, history
  <1>2. CASE LoadPending(cur)
    BY <1>2 DEF LoadPending, manager, history
  <1>3. CASE MarkSend(cur)
    BY <1>3 DEF MarkSend, history
  <1>4. CASE Write(cur)
    BY <1>4 DEF Write, manager, history
  <1>5. CASE Remember(cur)
    <2>1. pending' = latest
      <3>1. latest \in {state[cur], pending} /\ pending \in {NoClip, latest} /\ latest # NoClip
        BY <1>5, <1>a DEF Remember
      <3> QED
        BY <1>5, <3>1 DEF Remember, Remembered
    <2>2. pc'[cur] = "failed" /\ UNCHANGED <<cur, mu, send, latest>> /\ mu = "free"
      BY <1>5 DEF Remember, history
    <2> QED
      BY <2>1, <2>2
  <1>6. CASE DrainTake(cur)
    BY <1>6 DEF DrainTake, NothingElseQueued, manager, history
  <1>7. CASE DrainPut(cur)
    BY <1>7 DEF DrainPut, manager, history
  <1>8. CASE TakeQueued(cur)
    BY <1>8 DEF TakeQueued, manager, history
  <1>9. CASE HandleAck(cur)
    BY <1>9 DEF HandleAck, Cleared
  <1>10. CASE AttemptFailed(cur) \/ Reconnect(cur)
    BY <1>10 DEF AttemptFailed, Reconnect, manager, history
  <1>11. CASE Interrupt(cur)
    BY <1>11 DEF Interrupt, DialFails, WriteFails, StreamEnds, AckTimeout, manager
  <1>12. CASE Gateway(cur)
    BY <1>12 DEF Gateway, GatewayApplies, GatewayRefused, GatewayCannotApply, manager, sender,
       history
  <1> QED
    BY <1>1, <1>2, <1>3, <1>4, <1>5, <1>6, <1>7, <1>8, <1>9, <1>10, <1>11, <1>12 DEF Progress

\* A session that StartPeer picks has not run, and becomes the current one.
LEMMA StartedSession ==
  ASSUME TypeInv, OwnershipInv, NEW s \in Session, StartPeer(s, rt),
         pc' = [pc EXCEPT ![s] = "connect"]
  PROVE  /\ pc[s] = "none" /\ cur' = s /\ pc'[s] = "connect" /\ UNCHANGED pending
         /\ \A t \in Session : t # s => pc'[t] = pc[t]
  BY DEF StartPeer, OwnershipInv, SessionsInOrder, Session, TypeInv, TypeOK, SenderTypeOK

\* No step puts an older clip in the place of the newest one.
LEMMA NewestStep ==
  ASSUME DrainRaces = FALSE
  PROVE  TypeInv /\ OwnershipInv /\ NewestInv /\ [Next]_vars => NewestInv'
  <1> SUFFICES ASSUME TypeInv, OwnershipInv, NewestInv, [Next]_vars PROVE NewestInv'
    OBVIOUS
  <1>1. cur \in Session \cup {NoSession}
    BY DEF TypeInv, TypeOK, ManagerTypeOK
  <1>2. ASSUME NEW s \in Session, StartPeer(s, rt), pc' = [pc EXCEPT ![s] = "connect"],
               UNCHANGED <<mu, send, latest>>, mu = "free"
        PROVE  NewestInv'
    BY <1>2, StartedSession DEF NewestInv, PendingIsNewest, PublishInv, IdleInv, CarriesInv
  <1>3. CASE UNCHANGED <<cur, pending, latest, mu, pc, send, state, held>>
    BY <1>3 DEF NewestInv, PendingIsNewest, PublishInv, IdleInv, CarriesInv
  <1>4. CASE Start \/ RefreshAdd \/ RefreshReplace
    BY <1>2, <1>3, <1>4 DEF Start, RefreshAdd, RefreshReplace, history
  <1>5. CASE RefreshRemove
    BY <1>5 DEF RefreshRemove, NewestInv, PendingIsNewest, PublishInv, IdleInv, CarriesInv
  <1>6. CASE Publish
    <2>1. published + 1 # NoClip
      BY DEF NoClip, TypeInv, TypeOK, HistoryTypeOK
    <2> QED
      BY <1>1, <1>6, <2>1 DEF Publish, sender, NewestInv, PendingIsNewest, PublishInv, IdleInv,
         CarriesInv
  <1>7. CASE Enqueue
    <2>1. cur \in Session /\ pc[cur] # "none" /\ pending = latest
      BY <1>1, <1>7, BoundsAssumption DEF Enqueue, EnqueueTry, EnqueueEvict, EnqueueRetry,
         NewestInv, PublishInv,
         OwnershipInv, SessionOwnership, SessionsInOrder
    <2> QED
      BY <1>7, <2>1 DEF Enqueue, EnqueueTry, EnqueueEvict, EnqueueRetry, history, NewestInv,
         PendingIsNewest,
         PublishInv, IdleInv, CarriesInv, TypeInv, TypeOK, ManagerTypeOK, SenderTypeOK
  <1>8. ASSUME NEW t \in Session, Progress(t) \/ Interrupt(t) \/ Gateway(t) PROVE NewestInv'
    <2>1. IdleInv'
      BY <1>8, IdleSessionStep DEF NewestInv
    <2>2. CASE t = cur
      BY <1>8, <2>1, <2>2, NewestOwn DEF NewestInv
    <2>3. CASE t # cur
      BY <1>1, <1>8, <2>1, <2>3, OthersLeaveCurrent DEF NewestInv, PendingIsNewest, PublishInv,
         CarriesInv
    <2> QED
      BY <2>2, <2>3
  <1>9. CASE RemoteDown \/ RemoteUp \/ UNCHANGED vars
    BY <1>3, <1>9 DEF RemoteDown, RemoteUp, vars, manager, sender, history
  <1> QED
    BY <1>4, <1>5, <1>6, <1>7, <1>8, <1>9 DEF Next, Caller

\* With Publish kept out of the drain window, no failed write, replay or late
\* session makes an older clip the pending one.
THEOREM PendingStaysNewest ==
  ASSUME DrainRaces = FALSE
  PROVE  Spec => []PendingIsNewest
  <1>1. NewestInv => PendingIsNewest
    BY DEF NewestInv
  <1>2. TypeInv /\ OwnershipInv /\ NewestInv /\ [Next]_vars => NewestInv'
    BY NewestStep
  <1> QED
    BY <1>1, <1>2, TypeInit, TypeStep, OwnershipInit, OwnershipStep, NewestInit, PTL DEF Spec

\* The streams of other sessions stay as they are.
LEMMA MatchOthers ==
  ASSUME TypeInv, MatchInv, NEW t \in Session, Progress(t) \/ Interrupt(t) \/ Gateway(t),
         NEW s \in Session, s # t
  PROVE  MatchOK(s)'
  <1> USE DEF TypeInv, TypeOK, SenderTypeOK, StreamTypeOK, Goto
  <1>a. ASSUME UNCHANGED <<pc[s], seq[s], inflight[s], wire[s], acks[s], gwNext[s]>>
        PROVE  MatchOK(s)'
    <2>1. MatchOK(s)
      BY DEF MatchInv
    <2> QED
      BY ONLY <1>a, <2>1 DEF MatchOK, SameClip
  <1>1. CASE Connecting(t) \/ Dial(t) \/ Connected(t) \/ LoadPending(t) \/ MarkSend(t)
    BY <1>1, <1>a DEF Connecting, Dial, Connected, LoadPending, MarkSend, stream
  <1>2. CASE Write(t) \/ Remember(t) \/ DrainTake(t) \/ DrainPut(t) \/ TakeQueued(t)
    BY <1>2, <1>a DEF Write, Remember, DrainTake, DrainPut, TakeQueued, stream
  <1>3. CASE HandleAck(t)
    BY <1>3, <1>a DEF HandleAck
  <1>4. CASE AttemptFailed(t) \/ Reconnect(t)
    BY <1>4, <1>a DEF AttemptFailed, SeqRestarts, Reconnect, stream
  <1>5. CASE Interrupt(t)
    BY <1>5, <1>a DEF Interrupt, DialFails, WriteFails, StreamEnds, AckTimeout, stream
  <1>6. CASE Gateway(t)
    BY <1>6, <1>a DEF Gateway, GatewayApplies, GatewayRefused, GatewayCannotApply, GatewayAck,
       sender
  <1> QED
    BY <1>1, <1>2, <1>3, <1>4, <1>5, <1>6 DEF Progress

\* A frame with a number nothing in flight has joins the wire.
LEMMA FreshFrame ==
  ASSUME TypeInv, NEW s \in Session, MatchOK(s), Contiguous(s), Continues(s), pc[s] = "write"
  PROVE  /\ OutFrame(s) \in Frame /\ OutFrame(s).seq = seq[s] /\ OutFrame(s).clip = state[s]
         /\ \A m \in inflight[s] : m.seq < seq[s]
         /\ \A i \in 1 .. Len(wire[s]) : wire[s][i].seq < seq[s]
         /\ \A i \in 1 .. Len(acks[s]) : acks[s][i].seq < seq[s]
  <1> USE DEF TypeInv, TypeOK, SenderTypeOK, StreamTypeOK
  <1>1. OutFrame(s) \in Frame /\ OutFrame(s).seq = seq[s] /\ OutFrame(s).clip = state[s]
    BY DEF OutFrame, Frame, StateLoaded
  <1>2. \A m \in inflight[s] : m.seq < seq[s]
    BY DEF MatchOK
  <1>3. /\ seq[s] \in Nat /\ gwNext[s] \in Nat /\ Len(wire[s]) \in Nat
        /\ seq[s] = gwNext[s] + Len(wire[s])
    BY DEF Continues
  <1>4. \A i \in 1 .. Len(wire[s]) : wire[s][i].seq < seq[s]
    BY <1>3 DEF Contiguous
  <1>5. \A i \in 1 .. Len(acks[s]) : acks[s][i].seq < seq[s]
    <2> SUFFICES ASSUME NEW i \in 1 .. Len(acks[s]) PROVE acks[s][i].seq < seq[s]
      OBVIOUS
    <2>1. acks[s][i] \in AckFrame
      OBVIOUS
    <2>2. acks[s][i].seq \in Nat
      BY <2>1 DEF AckFrame
    <2>3. acks[s][i].seq < gwNext[s]
      BY DEF MatchOK
    <2> QED
      BY <1>3, <2>2, <2>3
  <1> QED
    BY <1>1, <1>2, <1>4, <1>5

\* What a session or its gateway does keeps the numbers of its own stream apart.
LEMMA MatchOwn ==
  ASSUME TypeInv, SequenceInv, MatchInv,
         NEW s \in Session, Progress(s) \/ Interrupt(s) \/ Gateway(s)
  PROVE  MatchOK(s)'
  <1> USE DEF TypeInv, TypeOK, SenderTypeOK, StreamTypeOK, Goto
  <1>a. MatchOK(s) /\ Contiguous(s) /\ Continues(s)
    BY DEF MatchInv, SequenceInv
  <1> DEFINE Fresh == {"none", "connect", "dial", "hello", "wait"}
  <1>b. /\ seq[s] \in Nat /\ gwNext[s] \in Nat
        /\ wire[s] \in Seq(Frame) /\ acks[s] \in Seq(AckFrame) /\ inflight[s] \in SUBSET Frame
    OBVIOUS
  <1>1. ASSUME UNCHANGED <<seq[s], inflight[s], wire[s], acks[s], gwNext[s]>>,
               pc'[s] # "write", pc'[s] \in Fresh => pc[s] \in Fresh
        PROVE  MatchOK(s)'
    BY <1>1, <1>a DEF MatchOK, SameClip
  <1>2. CASE Connecting(s) \/ Dial(s) \/ Connected(s) \/ LoadPending(s) \/ Remember(s)
    BY <1>1, <1>2 DEF Connecting, Dial, Connected, LoadPending, Remember, stream
  <1>3. CASE DrainTake(s) \/ DrainPut(s) \/ TakeQueued(s) \/ Reconnect(s)
    BY <1>1, <1>3 DEF DrainTake, DrainPut, TakeQueued, Reconnect, stream
  <1>4. CASE DialFails(s) \/ StreamEnds(s) \/ AckTimeout(s)
    BY <1>1, <1>4 DEF DialFails, StreamEnds, AckTimeout, stream
  <1>5. CASE MarkSend(s)
    <2>1. /\ seq'[s] = seq[s] + 1 /\ pc'[s] \in {"write", "failed"}
          /\ UNCHANGED <<inflight, wire, acks, gwNext>>
      BY <1>5 DEF MarkSend, stream
    <2>2. \A m \in inflight[s] : m.seq \in Nat /\ m.seq < seq'[s]
      BY <1>a, <1>b, <2>1 DEF MatchOK, Frame
    <2> QED
      BY <1>a, <2>1, <2>2 DEF MatchOK, SameClip
  <1>6. CASE Write(s)
    <2> DEFINE f == OutFrame(s)
    <2>1. /\ f \in Frame /\ f.seq = seq[s] /\ f.clip = state[s]
          /\ \A m \in inflight[s] : m.seq < seq[s]
          /\ \A i \in 1 .. Len(wire[s]) : wire[s][i].seq < seq[s]
          /\ \A i \in 1 .. Len(acks[s]) : acks[s][i].seq < seq[s]
      BY <1>a, <1>6, FreshFrame DEF Write
    <2>2. /\ wire'[s] = Append(wire[s], f) /\ inflight'[s] = inflight[s] \cup {f}
          /\ pc'[s] \in {"drain", "select"} /\ UNCHANGED <<seq, acks, gwNext>>
      BY <1>6 DEF Write
    <2> HIDE DEF f
    <2>3. \A m \in inflight'[s] : m.seq <= seq[s]
      <3>1. \A m \in inflight[s] : m.seq \in Nat
        BY <1>b DEF Frame
      <3> QED
        BY <1>b, <2>1, <2>2, <3>1
    <2>4. \A i \in 1 .. Len(acks[s]) : acks[s][i].seq < gwNext[s] /\ SameClip(s, acks[s][i])'
      <3> SUFFICES ASSUME NEW i \in 1 .. Len(acks[s])
                   PROVE  acks[s][i].seq < gwNext[s] /\ SameClip(s, acks[s][i])'
        OBVIOUS
      <3>1. acks[s][i].seq < seq[s] /\ acks[s][i].seq < gwNext[s] /\ SameClip(s, acks[s][i])
        BY <1>a, <2>1 DEF MatchOK
      <3>2. acks[s][i] \in AckFrame
        BY <1>b
      <3>3. acks[s][i].seq # f.seq
        BY <1>b, <2>1, <3>1, <3>2 DEF AckFrame
      <3> QED
        BY <2>2, <3>1, <3>3 DEF SameClip
    <2>5. ASSUME NEW i \in 1 .. Len(wire'[s]) PROVE SameClip(s, wire[s][i])'
      <3>1. CASE i \in 1 .. Len(wire[s])
        <4>1. wire'[s][i] = wire[s][i] /\ wire[s][i].seq < seq[s] /\ SameClip(s, wire[s][i])
          BY <1>a, <1>b, <2>1, <2>2, <3>1 DEF MatchOK
        <4> QED
          BY <1>b, <2>1, <2>2, <4>1 DEF SameClip
      <3>2. CASE i = Len(wire[s]) + 1
        <4>1. wire'[s][i] = f
          BY <1>b, <2>1, <2>2, <3>2
        <4> QED
          BY <1>b, <2>1, <2>2, <4>1 DEF SameClip
      <3> QED
        BY <1>b, <2>1, <2>2, <3>1, <3>2
    <2> QED
      BY <2>2, <2>3, <2>4, <2>5 DEF MatchOK
  <1>7. CASE WriteFails(s)
    <2> DEFINE f == OutFrame(s)
    <2>1. /\ f \in Frame /\ f.seq = seq[s]
          /\ \A m \in inflight[s] : m.seq < seq[s]
      BY <1>a, <1>7, FreshFrame DEF WriteFails
    <2>2. /\ wire'[s] = Append(wire[s], f) \/ wire'[s] = wire[s]
          /\ pc'[s] = "remember" /\ UNCHANGED <<seq, acks, gwNext, inflight>>
      BY <1>7 DEF WriteFails
    <2> HIDE DEF f
    <2>3. ASSUME NEW i \in 1 .. Len(wire'[s]) PROVE SameClip(s, wire[s][i])'
      <3>1. CASE wire'[s][i] = wire[s][i] /\ i \in 1 .. Len(wire[s])
        BY <1>a, <2>2, <3>1 DEF MatchOK, SameClip
      <3>2. CASE wire'[s][i] = f
        BY <1>b, <2>1, <2>2, <3>2 DEF SameClip
      <3> QED
        BY <1>b, <2>1, <2>2, <3>1, <3>2
    <2> QED
      BY <1>a, <2>2, <2>3 DEF MatchOK, SameClip
  <1>8. CASE HandleAck(s)
    <2>1. /\ acks[s] # <<>> /\ acks'[s] = Tail(acks[s]) /\ inflight'[s] \subseteq inflight[s]
          /\ UNCHANGED <<pc, seq, wire, gwNext>> /\ pc[s] = "select"
      BY <1>8 DEF HandleAck
    <2>2. ASSUME NEW i \in 1 .. Len(acks'[s])
          PROVE  acks'[s][i].seq < gwNext[s] /\ SameClip(s, acks[s][i])'
      <3>1. acks'[s][i] = acks[s][i + 1] /\ i + 1 \in 1 .. Len(acks[s])
        BY <1>b, <2>1
      <3> QED
        BY <1>a, <2>1, <3>1 DEF MatchOK, SameClip
    <2> QED
      BY <1>a, <2>1, <2>2 DEF MatchOK, SameClip
  <1>9. CASE AttemptFailed(s)
    <2>1. inflight'[s] = {} /\ wire'[s] = <<>> /\ acks'[s] = <<>>
      BY <1>9 DEF AttemptFailed
    <2> QED
      BY <2>1 DEF MatchOK, SameClip
  <1>10. CASE Gateway(s)
    <2> DEFINE f == Head(wire[s])
    <2>1. PICK st : GatewayAck(s, st) /\ wire[s] # <<>> /\ UNCHANGED sender
      BY <1>10 DEF Gateway, GatewayApplies, GatewayRefused, GatewayCannotApply
    <2> DEFINE a == [seq |-> f.seq, clip |-> f.clip, status |-> st]
    <2>2. /\ wire'[s] = Tail(wire[s]) /\ gwNext'[s] = gwNext[s] + 1 /\ f.seq = gwNext[s]
          /\ acks'[s] = Append(acks[s], a) /\ UNCHANGED <<pc, seq, inflight>>
      BY <2>1 DEF GatewayAck, sender
    <2>3. f = wire[s][1] /\ 1 \in 1 .. Len(wire[s]) /\ a.seq = f.seq /\ a.clip = f.clip
      BY <1>b, <2>1
    <2>4. SameClip(s, f) /\ a.seq = gwNext[s]
      BY <1>a, <2>2, <2>3 DEF MatchOK
    <2>5. \A m \in inflight'[s] : a.seq = m.seq => a.clip = m.clip
      BY <2>2, <2>3, <2>4 DEF SameClip
    <2> HIDE DEF f, a
    <2>6. ASSUME NEW i \in 1 .. Len(wire'[s]) PROVE SameClip(s, wire[s][i])'
      <3>1. wire'[s][i] = wire[s][i + 1] /\ i + 1 \in 1 .. Len(wire[s])
        BY <1>b, <2>1, <2>2
      <3> QED
        BY <1>a, <2>2, <3>1 DEF MatchOK, SameClip
    <2>7. ASSUME NEW i \in 1 .. Len(acks'[s])
          PROVE  acks'[s][i].seq < gwNext'[s] /\ SameClip(s, acks[s][i])'
      <3>1. CASE i \in 1 .. Len(acks[s])
        <4>1. acks'[s][i] = acks[s][i] /\ acks[s][i] \in AckFrame
          BY <1>b, <2>2, <3>1
        <4>2. acks[s][i].seq < gwNext[s] /\ SameClip(s, acks[s][i])
          BY <1>a, <3>1 DEF MatchOK
        <4>3. SameClip(s, acks[s][i])'
          BY <2>2, <4>1, <4>2 DEF SameClip
        <4>4. acks[s][i].seq \in Nat
          BY <4>1 DEF AckFrame
        <4> QED
          BY <1>b, <2>2, <4>1, <4>2, <4>3, <4>4
      <3>2. CASE i = Len(acks[s]) + 1
        <4>1. acks'[s][i] = a
          BY <1>b, <2>2, <3>2
        <4>2. SameClip(s, acks[s][i])'
          BY <2>5, <4>1 DEF SameClip
        <4> QED
          BY <1>b, <2>2, <2>4, <4>1, <4>2
      <3> QED
        BY <1>b, <2>2, <3>1, <3>2
    <2>8. pc[s] \in Fresh => wire[s] = <<>>
      BY <1>a DEF Continues
    <2> QED
      BY <1>a, <2>1, <2>2, <2>6, <2>7, <2>8 DEF MatchOK
  <1> QED
    BY <1>2, <1>3, <1>4, <1>5, <1>6, <1>7, <1>8, <1>9, <1>10 DEF Progress, Interrupt

\* No step gives two clips the same number.
LEMMA MatchStep ==
  TypeInv /\ OwnershipInv /\ SequenceInv /\ MatchInv /\ [Next]_vars => MatchInv'
  <1> SUFFICES ASSUME TypeInv, OwnershipInv, SequenceInv, MatchInv, [Next]_vars PROVE MatchInv'
    OBVIOUS
  <1>1. ASSUME NEW t \in Session, Progress(t) \/ Interrupt(t) \/ Gateway(t) PROVE MatchInv'
    BY <1>1, MatchOthers, MatchOwn DEF MatchInv
  <1>2. CASE UNCHANGED <<pc, seq, inflight, wire, acks, gwNext>>
    BY <1>2 DEF MatchInv, MatchOK, SameClip
  <1>3. ASSUME NEW s \in Session, StartPeer(s, rt), pc' = [pc EXCEPT ![s] = "connect"],
               UNCHANGED <<seq, inflight, wire, acks, gwNext>>
        PROVE  MatchInv'
    <2>1. pc[s] = "none" /\ pc'[s] = "connect" /\ \A t \in Session : t # s => pc'[t] = pc[t]
      BY <1>3, StartedSession
    <2> QED
      BY <1>3, <2>1 DEF MatchInv, MatchOK, SameClip
  <1>4. CASE Caller
    BY <1>2, <1>3, <1>4 DEF Caller, Start, RefreshAdd, RefreshReplace, RefreshRemove, Publish,
       sender, stream
  <1>5. CASE Enqueue \/ RemoteDown \/ RemoteUp \/ UNCHANGED vars
    BY <1>2, <1>5 DEF Enqueue, EnqueueTry, EnqueueEvict, EnqueueRetry, RemoteDown, RemoteUp,
       vars,
       sender, stream
  <1> QED
    BY <1>1, <1>4, <1>5 DEF Next

\* An ack that takes the pending clip out of flight is an ack for this clip.
LEMMA AckTakesPending ==
  ASSUME TypeInv, MatchInv, cur \in Session, HandleAck(cur), pending' # NoClip,
         InFlight(cur, pending)
  PROVE  pending' = pending /\ InFlight(cur, pending)'
  <1> DEFINE a == Head(acks[cur])
  <1>1. PICK m \in inflight[cur] : m.clip = pending
    BY DEF InFlight
  <1>2. acks[cur] \in Seq(AckFrame) /\ acks[cur] # <<>>
    BY DEF HandleAck, TypeInv, TypeOK, StreamTypeOK
  <1>3. a = acks[cur][1] /\ 1 \in 1 .. Len(acks[cur])
    BY <1>2
  <1>4. a.seq = m.seq => a.clip = m.clip
    BY <1>3 DEF MatchInv, MatchOK, SameClip
  <1>5. pending' = Cleared(cur, a) /\ cur' = cur
    BY DEF HandleAck
  <1>6. pending' = pending /\ a.seq # m.seq
    <2>1. ~(Counts(cur, a) /\ pending = a.clip) /\ pending' = pending
      BY <1>5 DEF Cleared
    <2>2. (a.seq = m.seq /\ a.clip = m.clip) => Counts(cur, a)
      BY <1>1 DEF Counts, Answers
    <2> QED
      BY <1>1, <1>4, <2>1, <2>2
  <1>7. inflight'[cur] = {n \in inflight[cur] : n.seq # a.seq}
    BY DEF HandleAck, TypeInv, TypeOK, SenderTypeOK
  <1> QED
    BY <1>1, <1>5, <1>6, <1>7 DEF InFlight

\* The current session keeps the pending clip on its way.
LEMMA WayOwn ==
  ASSUME DrainRaces = FALSE, TypeInv, NewestInv, MatchInv, WayInv,
         cur \in Session, Progress(cur) \/ Interrupt(cur) \/ Gateway(cur)
  PROVE  WayInv'
  <1> USE DEF TypeInv, TypeOK, SenderTypeOK, Goto
  <1>a. cur # NoSession
    BY BoundsAssumption DEF Session, NoSession
  <1>1. ASSUME UNCHANGED cur, pc'[cur] \notin {"mark", "write", "drain", "select"} PROVE WayInv'
    BY <1>1 DEF WayInv
  <1>2. CASE Connecting(cur) \/ Dial(cur) \/ Connected(cur) \/ Remember(cur)
    BY <1>1, <1>2 DEF Connecting, Dial, Connected, Remember, manager
  <1>3. CASE AttemptFailed(cur) \/ Reconnect(cur)
    BY <1>1, <1>3 DEF AttemptFailed, Reconnect, manager
  <1>4. CASE Interrupt(cur)
    BY <1>1, <1>4 DEF Interrupt, DialFails, WriteFails, StreamEnds, AckTimeout, manager
  <1>5. CASE LoadPending(cur)
    BY <1>5 DEF LoadPending, manager, WayInv
  <1>6. CASE MarkSend(cur)
    BY <1>6, <1>a DEF MarkSend, WayInv, InFlight
  <1>7. CASE Write(cur)
    <2>1. /\ inflight'[cur] = inflight[cur] \cup {OutFrame(cur)}
          /\ OutFrame(cur).clip = state[cur]
          /\ UNCHANGED <<cur, pending, mu, send>>
          /\ (pc'[cur] = "drain" /\ state'[cur] = state[cur]) \/ pc'[cur] = "select"
      BY <1>7 DEF Write, manager, OutFrame
    <2>2. \A c : (c = state[cur] \/ InFlight(cur, c)) => \E m \in inflight'[cur] : m.clip = c
      BY <2>1 DEF InFlight
    <2>3. pc[cur] = "write"
      BY <1>7 DEF Write
    <2> QED
      BY <1>a, <2>1, <2>2, <2>3 DEF WayInv, InFlight
  <1>8. CASE DrainTake(cur)
    <2>1. /\ UNCHANGED <<cur, pending, mu, inflight>> /\ mu = "free" /\ pc[cur] = "drain"
          /\ pc'[cur] = IF NothingElseQueued(cur) THEN "select" ELSE "putback"
      BY <1>8 DEF DrainTake, manager
    <2>2. CASE ~NothingElseQueued(cur)
      BY <1>1, <2>1, <2>2
    <2>3. CASE NothingElseQueued(cur)
      <3>1. send[cur] \in {NoClip, state[cur]}
        BY <2>3 DEF NothingElseQueued
      <3>2. pending # NoClip => InFlight(cur, pending)
        BY <1>a, <2>1, <3>1 DEF WayInv
      <3> QED
        BY <2>1, <2>3, <3>2 DEF WayInv, InFlight
    <2> QED
      BY <2>2, <2>3
  <1>9. CASE DrainPut(cur)
    <2>1. /\ UNCHANGED <<cur, pending, mu>> /\ pc[cur] = "putback" /\ pc'[cur] = "select"
          /\ send'[cur] = IF send[cur] = NoClip THEN held[cur] ELSE send[cur]
      BY <1>9 DEF DrainPut, manager
    <2>2. mu = "free" /\ held[cur] = latest /\ send[cur] \in {NoClip, latest}
      BY <1>a, <2>1 DEF NewestInv, PublishInv, CarriesInv
    <2>3. pending # NoClip => send'[cur] = pending
      BY <2>1, <2>2 DEF NewestInv, PendingIsNewest
    <2> QED
      BY <2>1, <2>3 DEF WayInv
  <1>10. CASE TakeQueued(cur)
    <2>1. /\ UNCHANGED <<cur, pending, mu, inflight>> /\ pc[cur] = "select" /\ pc'[cur] = "mark"
          /\ state'[cur] = send[cur]
      BY <1>10 DEF TakeQueued, manager
    <2> QED
      BY <1>a, <2>1 DEF WayInv, InFlight
  <1>11. CASE HandleAck(cur)
    <2>1. UNCHANGED <<cur, mu, pc, send, state>> /\ mu = "free" /\ pc[cur] = "select"
      BY <1>11 DEF HandleAck
    <2>2. pending' # NoClip => pending' = pending
      BY <1>11 DEF HandleAck, Cleared
    <2>3. ASSUME pending' # NoClip PROVE send'[cur] = pending' \/ InFlight(cur, pending)'
      <3>1. pending' = pending /\ (send[cur] = pending \/ InFlight(cur, pending))
        BY <1>a, <2>1, <2>2, <2>3 DEF WayInv
      <3> QED
        BY <1>11, <2>1, <2>3, <3>1, AckTakesPending
    <2> QED
      BY <2>1, <2>3 DEF WayInv
  <1>12. CASE Gateway(cur)
    BY <1>12 DEF Gateway, GatewayApplies, GatewayRefused, GatewayCannotApply, manager, sender,
       WayInv, InFlight
  <1> QED
    BY <1>2, <1>3, <1>4, <1>5, <1>6, <1>7, <1>8, <1>9, <1>10, <1>11, <1>12 DEF Progress

\* No step leaves the current session waiting with a clip that is not on its way.
LEMMA WayStep ==
  ASSUME DrainRaces = FALSE
  PROVE  TypeInv /\ OwnershipInv /\ NewestInv /\ MatchInv /\ WayInv /\ [Next]_vars => WayInv'
  <1> SUFFICES ASSUME TypeInv, OwnershipInv, NewestInv, MatchInv, WayInv, [Next]_vars
               PROVE  WayInv'
    OBVIOUS
  <1>1. cur \in Session \cup {NoSession}
    BY DEF TypeInv, TypeOK, ManagerTypeOK
  <1>2. ASSUME NEW s \in Session, StartPeer(s, rt), pc' = [pc EXCEPT ![s] = "connect"]
        PROVE  WayInv'
    BY <1>2, StartedSession DEF WayInv
  <1>3. CASE UNCHANGED <<cur, pending, mu, pc, send, state, inflight>>
    BY <1>3 DEF WayInv, InFlight
  <1>4. CASE Start \/ RefreshAdd \/ RefreshReplace
    BY <1>2, <1>3, <1>4 DEF Start, RefreshAdd, RefreshReplace, history
  <1>5. CASE RefreshRemove
    BY <1>5 DEF RefreshRemove, WayInv
  <1>6. CASE Publish
    BY <1>6 DEF Publish, sender, WayInv, InFlight
  <1>7. CASE Enqueue
    <2>1. cur \in Session
      BY <1>1, <1>7 DEF Enqueue, EnqueueTry, EnqueueEvict, EnqueueRetry, NewestInv, PublishInv
    <2>2. UNCHANGED <<cur, pending, pc, state, inflight>> /\ (mu' = "free" => send'[cur] = pending)
      BY <1>7, <2>1 DEF Enqueue, EnqueueTry, EnqueueEvict, EnqueueRetry, NewestInv, PublishInv,
         TypeInv, TypeOK, SenderTypeOK
    <2> QED
      BY <2>2 DEF WayInv, InFlight
  <1>8. ASSUME NEW t \in Session, Progress(t) \/ Interrupt(t) \/ Gateway(t) PROVE WayInv'
    <2>1. CASE t = cur
      BY <1>8, <2>1, WayOwn
    <2>2. CASE t # cur
      <3>1. UNCHANGED <<cur, pending, mu>>
        BY <1>8, <2>2, OthersLeaveCurrent
      <3>2. cur \in Session => UNCHANGED <<pc[cur], send[cur], state[cur], inflight[cur]>>
        BY <1>8, <2>2, OthersLeaveCurrent
      <3> QED
        BY <1>1, <3>1, <3>2 DEF WayInv, InFlight
    <2> QED
      BY <2>1, <2>2
  <1>9. CASE RemoteDown \/ RemoteUp \/ UNCHANGED vars
    BY <1>3, <1>9 DEF RemoteDown, RemoteUp, vars, manager, sender
  <1> QED
    BY <1>4, <1>5, <1>6, <1>7, <1>8, <1>9 DEF Next, Caller

\* With Publish kept out of the drain window, a session never waits in its select
\* loop for a clip that nobody is going to send: the pending one is queued or in
\* flight.
THEOREM PendingIsOnItsWay ==
  ASSUME DrainRaces = FALSE
  PROVE  Spec => []NewestOnItsWay
  <1>1. WayInv => NewestOnItsWay
    BY DEF WayInv, NewestOnItsWay, InFlight
  <1>2. TypeInv /\ OwnershipInv /\ NewestInv /\ [Next]_vars => NewestInv'
    BY NewestStep
  <1>3. TypeInv /\ OwnershipInv /\ NewestInv /\ MatchInv /\ WayInv /\ [Next]_vars => WayInv'
    BY WayStep
  <1> QED
    BY <1>1, <1>2, <1>3, TypeInit, TypeStep, OwnershipInit, OwnershipStep, SequenceInit,
       SequenceStep,
       NewestInit, MatchStep, PTL DEF Spec

=============================================================================
