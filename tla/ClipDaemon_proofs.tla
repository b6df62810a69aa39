------------------------- MODULE ClipDaemon_proofs -------------------------
(***************************************************************************)
(* Proofs about ClipDaemon for any clips, clipboards, handlers and size of *)
(* the seen set: a clip passes the checks of onReceive once while d.seen   *)
(* remembers it, and a concealed one leaves no trace, whichever goroutines *)
(* interleave.                                                             *)
(***************************************************************************)
EXTENDS ClipDaemon, TLAPS

-----------------------------------------------------------------------------
(* The inductive invariant *)

\* What a clipboard that is not empty holds.
Shown == [body : Body, concealed : BOOLEAN]

Away(t) == pc[t] # "idle"

\* A goroutine that is away from its start works on a clip: a receiver on one
\* from a peer, the poll loop and a restore on one of this host.
ReceiverInv ==
    \A r \in Receiver :
        /\ pc[r] \in {"idle", "check", "store", "write", "adopt", "publish"}
        /\ Away(r) => arg[r] \in Inbound
        /\ pc[r] \in {"store", "write", "adopt", "publish"} => ~arg[r].concealed

PollInv ==
    /\ pc["poll"] \in {"start", "first probe", "startup", "idle", "probe", "echo", "stamp",
                       "store", "adopt", "publish"}
    /\ pc["poll"] \notin {"start", "idle"} =>
          arg["poll"] \in Clip /\ arg["poll"].id[1] = "local"
    /\ pc["poll"] \in {"first probe", "probe"} => clipboard \in Shown
    /\ pc["poll"] \in {"store", "publish"} => ~arg["poll"].concealed

RestoreInv ==
    /\ pc["restore"] \in {"idle", "write", "stamp", "append", "publish"}
    /\ Away("restore") => /\ arg["restore"] \in Clip /\ arg["restore"].id[1] = "local"
                          /\ ~arg["restore"].concealed

\* A clip that has passed the checks is remembered, unless it is forgotten.
SeenInv == \A c \in Inbound : accepted[c] > 0 => c.id \in Ids(seen) \cup evicted

DaemonInv ==
    /\ TypeOK /\ ReceiverInv /\ PollInv /\ RestoreInv
    /\ SeenInv /\ AcceptedOnce /\ ConcealedStaysPut

-----------------------------------------------------------------------------
(* Clips, and what is kept of them *)

\* The fields of a clip.
LEMMA ClipFields ==
  ASSUME NEW c \in Clip
  PROVE  c.id \in Id /\ c.body \in Body /\ c.ts \in Nat /\ c.concealed \in BOOLEAN
  BY DEF Clip

\* What is read or restored here.
LEMMA FreshType ==
  ASSUME NEW b \in Body, clock \in Nat
  PROVE  Fresh(b) \in Clip /\ Fresh(b).id[1] = "local" /\ ~Fresh(b).concealed
  BY DEF Fresh, Clip, Id

\* What is read back is a text, a path or an image.
LEMMA ReadBackType ==
  ASSUME NEW b \in Body
  PROVE  ReadBack(b) \in Body
  <1>1. CASE backend = "image" /\ b.kind = "image"
    <2>1. b.of \in Images /\ Reencoded[b.of] \in Images
      BY <1>1, DaemonAssumption DEF Body
    <2>2. [b EXCEPT !.of = Reencoded[b.of]] \in Body
      BY <1>1, <2>1 DEF Body
    <2> QED
      BY <1>1, <2>2 DEF ReadBack
  <1>2. CASE ~(backend = "image" /\ b.kind = "image")
    BY <1>2 DEF ReadBack
  <1> QED
    BY <1>1, <1>2

\* A clip keeps its content when it gets an ID or a flag.
LEMMA StampType ==
  ASSUME NEW c \in Clip, NEW n \in Nat
  PROVE  /\ [c EXCEPT !.id = <<"local", n>>] \in Clip
         /\ [c EXCEPT !.id = <<"local", n>>].id[1] = "local"
         /\ [c EXCEPT !.id = <<"local", n>>].concealed = c.concealed
  BY DEF Clip, Id

\* A clip marked as concealed, or not, is the same clip otherwise.
LEMMA FlagType ==
  ASSUME NEW c \in Clip, NEW flag \in BOOLEAN
  PROVE  /\ [c EXCEPT !.concealed = flag] \in Clip
         /\ [c EXCEPT !.concealed = flag].id = c.id
  BY DEF Clip

\* The history and the record of published clips keep the flag.
LEMMA TrailType ==
  ASSUME NEW c \in Clip, c.id[1] \in {"peer", "local"}
  PROVE  Trail(c) \in Trace /\ (Trail(c).concealed <=> c.concealed)
  <1>1. c.body \in Body /\ c.concealed \in BOOLEAN
    BY ClipFields
  <1>2. Trail(c) \in Trace
    BY <1>1 DEF Trail, Trace
  <1> QED
    BY <1>1, <1>2 DEF Trail

\* So does d.current.
LEMMA CurrentType ==
  ASSUME NEW c \in Clip, NEW img \in BOOLEAN, NEW visible \in BOOLEAN
  PROVE  /\ CurrentOf(c, img, visible) \in Current
         /\ CurrentOf(c, img, visible).concealed <=> c.concealed
         /\ CurrentOf(c, img, visible).visible <=> visible
  <1>1. c.id \in Id /\ c.body \in Body /\ c.ts \in Nat /\ c.concealed \in BOOLEAN
    BY ClipFields
  <1>2. CurrentOf(c, img, visible) \in Current
    BY <1>1 DEF CurrentOf, Current
  <1> QED
    BY <1>1, <1>2 DEF CurrentOf

\* A clip from a peer is one.
LEMMA InboundClip ==
  ASSUME NEW c \in Inbound
  PROVE  c \in Clip /\ c.id[1] = "peer"
  BY DaemonAssumption

\* A write puts something on every clipboard but a headless one.
LEMMA WrittenType ==
  ASSUME clipboard \in {None} \cup Shown, NEW b \in Body
  PROVE  /\ Written(b) \in {None} \cup Shown
         /\ clipboard \in Shown => Written(b) \in Shown
  <1>1. b.kind = "image" => [b EXCEPT !.kind = "path"] \in Body
    BY DEF Body
  <1>2. b.kind = "image" => [body |-> [b EXCEPT !.kind = "path"], concealed |-> FALSE] \in Shown
    BY <1>1 DEF Shown
  <1>3. [body |-> b, concealed |-> FALSE] \in Shown
    BY DEF Shown
  <1> QED
    BY <1>2, <1>3 DEF Written

\* An image is one of the images.
LEMMA ImageOf ==
  ASSUME NEW b \in Body, b.kind = "image"
  PROVE  b.of \in Images
  BY DEF Body

-----------------------------------------------------------------------------
(* seenSet *)

\* The elements of a sequence of IDs.
LEMMA IdsMember ==
  ASSUME NEW s, NEW i \in 1 .. Len(s)
  PROVE  s[i] \in Ids(s)
  BY DEF Ids

\* Adding an ID keeps the bound, and the ID is remembered: the set holds at
\* least one.
LEMMA SeenAddType ==
  ASSUME NEW s \in Seq(Id), Len(s) <= SeenCap, NEW id \in Id
  PROVE  /\ SeenAdd(s, id) \in Seq(Id) /\ Len(SeenAdd(s, id)) <= SeenCap
         /\ id \in Ids(SeenAdd(s, id))
         /\ Ids(SeenAdd(s, id)) \subseteq Id
  <1> USE DaemonAssumption
  <1> DEFINE t == Append(s, id)
  <1>1. \A u \in Seq(Id) : Ids(u) \subseteq Id
    BY DEF Ids
  <1>2. CASE id \in Ids(s)
    BY <1>1, <1>2 DEF SeenAdd
  <1>3. CASE id \notin Ids(s)
    <2>1. t \in Seq(Id) /\ Len(t) = Len(s) + 1 /\ t[Len(t)] = id
      OBVIOUS
    <2>2. CASE Len(t) > SeenCap
      <3>1. Len(t) >= 2 /\ t # <<>>
        BY <2>1, <2>2
      <3>2. /\ Tail(t) \in Seq(Id) /\ Len(Tail(t)) = Len(t) - 1
            /\ \A i \in 1 .. Len(t) - 1 : Tail(t)[i] = t[i + 1]
        BY <2>1, <3>1
      <3>3. Tail(t)[Len(Tail(t))] = id /\ Len(Tail(t)) \in 1 .. Len(Tail(t))
        BY <2>1, <3>1, <3>2
      <3>4. SeenAdd(s, id) = Tail(t)
        BY <1>3, <2>2 DEF SeenAdd
      <3>5. id \in Ids(Tail(t))
        BY <3>3, IdsMember
      <3>6. Len(Tail(t)) <= SeenCap
        BY <2>1, <3>2
      <3> HIDE DEF t
      <3> QED
        BY <1>1, <3>2, <3>4, <3>5, <3>6
    <2>3. CASE ~(Len(t) > SeenCap)
      <3>1. SeenAdd(s, id) = t
        BY <1>3, <2>3 DEF SeenAdd
      <3>2. id \in Ids(t)
        <4>1. Len(t) \in 1 .. Len(t)
          BY <2>1
        <4> QED
          BY <2>1, <4>1, IdsMember
      <3>3. Len(t) <= SeenCap
        BY <2>1, <2>3
      <3> HIDE DEF t
      <3> QED
        BY <1>1, <2>1, <3>1, <3>2, <3>3
    <2> QED
      BY <2>2, <2>3
  <1> QED
    BY <1>2, <1>3

\* Remember forgets no clip of a peer without a trace.
LEMMA RememberKeeps ==
  ASSUME TypeOK, NEW id \in Id, Remember(id)
  PROVE  /\ seen' \in Seq(Id) /\ Len(seen') <= SeenCap /\ evicted' \subseteq Id
         /\ evicted \subseteq evicted' /\ id \in Ids(seen')
         /\ \A c \in Inbound : c.id \in Ids(seen) => c.id \in Ids(seen') \cup evicted'
  <1>1. seen \in Seq(Id) /\ Len(seen) <= SeenCap /\ evicted \subseteq Id
    BY DEF TypeOK
  <1>2. Ids(seen) \subseteq Id
    BY <1>1 DEF Ids
  <1>3. /\ seen' = SeenAdd(seen, id)
        /\ evicted' = evicted \cup {e \in Ids(seen) \ Ids(SeenAdd(seen, id)) : e[1] = "peer"}
    BY DEF Remember
  <1>4. seen' \in Seq(Id) /\ Len(seen') <= SeenCap /\ id \in Ids(seen')
    BY <1>1, <1>3, SeenAddType
  <1>5. \A c \in Inbound : c.id \in Ids(seen) => c.id \in Ids(seen') \cup evicted'
    BY <1>3, InboundClip
  <1> QED
    BY <1>1, <1>2, <1>3, <1>4, <1>5

-----------------------------------------------------------------------------
(* Types *)

\* TypeOK in parts.
DataTypes ==
    /\ backend \in Backends
    /\ clipboard \in {None} \cup Shown /\ probed \in {None} \cup Shown
    /\ images \subseteq Images /\ hist \subseteq Trace
    /\ seen \in Seq(Id) /\ Len(seen) <= SeenCap
    /\ lastTS \in Nat /\ current \in {None} \cup Current

ThreadTypes ==
    /\ pc \in [Thread -> Places] /\ arg \in [Thread -> {None} \cup Clip]
    /\ relays \in [Inbound -> Nat]

FlagTypes == imagePath \in [Thread -> BOOLEAN] /\ wrote \in [Thread -> BOOLEAN]

CountTypes ==
    /\ clock \in Nat /\ minted \in 0 .. MaxMint
    /\ stimuli \in 0 .. MaxStimulus /\ faults \in 0 .. MaxFault

GhostTypes ==
    /\ accepted \in [Inbound -> Nat] /\ evicted \subseteq Id
    /\ unsaved \subseteq Inbound /\ published \subseteq Trace

\* Together they are TypeOK.
LEMMA TypeParts ==
  /\ TypeOK <=> DataTypes /\ ThreadTypes /\ FlagTypes /\ CountTypes /\ GhostTypes
  /\ TypeOK' <=> DataTypes' /\ ThreadTypes' /\ FlagTypes' /\ CountTypes' /\ GhostTypes'
  BY DEF TypeOK, DataTypes, ThreadTypes, FlagTypes, CountTypes, GhostTypes, Shown

\* The places, and the goroutines.
LEMMA PlaceTypes ==
  /\ "start" \in Places /\ "first probe" \in Places /\ "startup" \in Places
  /\ "idle" \in Places /\ "probe" \in Places /\ "echo" \in Places /\ "stamp" \in Places
  /\ "check" \in Places /\ "store" \in Places /\ "write" \in Places /\ "adopt" \in Places
  /\ "append" \in Places /\ "publish" \in Places
  BY DEF Places

\* The poller, the restore goroutine and the receivers are different goroutines.
LEMMA ThreadNames ==
  /\ "poll" \in Thread /\ "restore" \in Thread /\ Receiver \subseteq Thread
  /\ "poll" \notin Receiver /\ "restore" \notin Receiver /\ "poll" # "restore"
  BY DaemonAssumption DEF Thread

\* A goroutine that returns keeps the types.
LEMMA ReturnTypes ==
  ASSUME ThreadTypes, NEW t \in Thread, Return(t)
  PROVE  pc' \in [Thread -> Places] /\ arg' \in [Thread -> {None} \cup Clip]
  BY PlaceTypes DEF ThreadTypes, Return, Goto

\* A step of t leaves the other goroutines where they are.
Others(t) == \A u \in Thread \ {t} : pc'[u] = pc[u] /\ arg'[u] = arg[u]

\* A goroutine that returns leaves the others where they are.
LEMMA ReturnOthers ==
  ASSUME ThreadTypes, NEW t \in Thread, Return(t)
  PROVE  Others(t) /\ pc'[t] = "idle"
  BY DEF ThreadTypes, Return, Goto, Others

\* The poller does not disturb what holds of the receivers and the restore goroutine.
LEMMA PollKeeps ==
  ASSUME Others("poll"), ReceiverInv, RestoreInv
  PROVE  ReceiverInv' /\ RestoreInv'
  BY ThreadNames DEF Others, ReceiverInv, RestoreInv, Away

\* The restore goroutine does not disturb what holds of the receivers and the poller.
LEMMA RestoreKeeps ==
  ASSUME Others("restore"), ReceiverInv, PollInv, clipboard \in Shown => clipboard' \in Shown
  PROVE  ReceiverInv' /\ PollInv'
  BY ThreadNames DEF Others, ReceiverInv, PollInv, Away

\* A receiver does not disturb what holds of the restore goroutine and the poller.
LEMMA ReceiveKeeps ==
  ASSUME NEW r \in Receiver, Others(r), RestoreInv, PollInv,
         clipboard \in Shown => clipboard' \in Shown
  PROVE  RestoreInv' /\ PollInv'
  BY ThreadNames DEF Others, RestoreInv, PollInv, Away

\* The clip a goroutine works on, and its fields.
LEMMA WorkingOn ==
  ASSUME DaemonInv, NEW t \in Thread, pc[t] \notin {"idle", "start"}
  PROVE  /\ arg[t] \in Clip /\ arg[t].id \in Id /\ arg[t].body \in Body
         /\ arg[t].ts \in Nat /\ arg[t].concealed \in BOOLEAN
         /\ arg[t].id[1] \in {"peer", "local"}
         /\ arg[t].body.kind = "image" => arg[t].body.of \in Images
  <1>1. arg[t] \in Clip /\ arg[t].id[1] \in {"peer", "local"}
    BY InboundClip DEF DaemonInv, ReceiverInv, PollInv, RestoreInv, Away, Thread
  <1> QED
    BY <1>1, ClipFields, ImageOf

\* What the history becomes.
LEMMA HistoryType ==
  ASSUME hist \subseteq Trace, NEW c \in Clip, c.id[1] \in {"peer", "local"}, AppendHistory(c)
  PROVE  hist' \subseteq Trace
  BY TrailType DEF AppendHistory

\* The daemon's own data.
LEMMA PollData == ASSUME DaemonInv, Poll PROVE DataTypes'
  <1>0. TypeOK /\ DataTypes /\ FlagTypes
    BY TypeParts DEF DaemonInv
  <1>1. CASE StartupRead \/ PollRead \/ PollEcho \/ PollMint \/ PollMintFails \/ PollPublish
    BY <1>0, <1>1 DEF DataTypes, StartupRead, PollRead, PollEcho, PollMint, PollMintFails,
                      PollPublish, daemon
  <1>2. CASE Probe
    <2>1. arg["poll"].body \in Body /\ clipboard \in Shown
      BY <1>2, WorkingOn, ThreadNames DEF Probe, DaemonInv, PollInv
    <2>2. probed' \in {None} \cup Shown
      <3>1. clipboard.concealed \in BOOLEAN /\ (probed # None => probed.concealed \in BOOLEAN)
        BY <1>0, <2>1 DEF DataTypes, Shown
      <3> QED
        BY <1>0, <1>2, <2>1, <3>1 DEF Probe, DataTypes, Cached, Shown
    <2> QED
      BY <1>0, <1>2, <2>2 DEF Probe, DataTypes
  <1>3. CASE StartupAdopt
    <2>1. arg["poll"] \in Clip /\ arg["poll"].ts \in Nat
      BY <1>3, WorkingOn, ThreadNames DEF StartupAdopt
    <2>2. [arg["poll"] EXCEPT !.id = <<"startup", 0>>] \in Clip
      BY <2>1 DEF Clip, Id
    <2>3. current' \in Current
      BY <1>3, <2>2, CurrentType DEF StartupAdopt
    <2> QED
      BY <1>0, <1>3, <2>1, <2>3 DEF StartupAdopt, DataTypes
  <1>4. CASE PollStamp
    <2>1. arg["poll"].id \in Id /\ arg["poll"].ts \in Nat
      BY <1>4, WorkingOn, ThreadNames DEF PollStamp
    <2>2. seen' \in Seq(Id) /\ Len(seen') <= SeenCap
      BY <1>0, <1>4, <2>1, RememberKeeps DEF PollStamp
    <2> QED
      BY <1>0, <1>4, <2>1, <2>2 DEF PollStamp, DataTypes
  <1>5. CASE PollStore
    <2>1. /\ arg["poll"] \in Clip /\ arg["poll"].id[1] \in {"peer", "local"}
          /\ arg["poll"].body.kind = "image" => arg["poll"].body.of \in Images
      BY <1>5, WorkingOn, ThreadNames DEF PollStore
    <2>2. hist' \subseteq Trace
      BY <1>0, <1>5, <2>1, HistoryType DEF PollStore, DataTypes
    <2>3. images' \subseteq Images
      BY <1>0, <1>5, <2>1 DEF PollStore, DataTypes
    <2> QED
      BY <1>0, <1>5, <2>2, <2>3 DEF PollStore, DataTypes
  <1>6. CASE PollAdopt
    <2>1. arg["poll"] \in Clip /\ imagePath["poll"] \in BOOLEAN
      BY <1>0, <1>6, WorkingOn, ThreadNames DEF PollAdopt, FlagTypes
    <2>2. current' \in Current
      BY <1>6, <2>1, CurrentType DEF PollAdopt, Adopted, Visible
    <2> QED
      BY <1>0, <1>6, <2>2 DEF PollAdopt, DataTypes
  <1> QED
    BY <1>1, <1>2, <1>3, <1>4, <1>5, <1>6 DEF Poll

\* A receiver keeps the types of what the goroutines share.
LEMMA ReceiveData ==
  ASSUME DaemonInv, NEW r \in Receiver, Receive(r) \/ \E c \in Inbound : ReceiveStart(r, c)
  PROVE  DataTypes' /\ (clipboard \in Shown => clipboard' \in Shown)
  <1>0. TypeOK /\ DataTypes /\ FlagTypes /\ r \in Thread
    BY TypeParts, ThreadNames DEF DaemonInv
  <1>1. CASE ReceiveStoreFails(r) \/ ReceiveSpawn(r) \/ \E c \in Inbound : ReceiveStart(r, c)
    BY <1>0, <1>1 DEF DataTypes, ReceiveStoreFails, ReceiveSpawn, ReceiveStart, daemon
  <1>2. CASE ReceiveDrop(r) \/ ReceiveAccept(r)
    <2>1. arg[r].id \in Id /\ arg[r].ts \in Nat
      BY <1>0, <1>2, WorkingOn DEF ReceiveDrop, ReceiveAccept
    <2>2. seen' \in Seq(Id) /\ Len(seen') <= SeenCap
      BY <1>0, <1>2, <2>1, RememberKeeps DEF ReceiveDrop, ReceiveAccept, DataTypes
    <2> QED
      BY <1>0, <1>2, <2>1, <2>2 DEF ReceiveDrop, ReceiveAccept, DataTypes
  <1>3. CASE ReceiveStore(r)
    <2>1. /\ arg[r] \in Clip /\ arg[r].id[1] \in {"peer", "local"}
          /\ arg[r].body.kind = "image" => arg[r].body.of \in Images
      BY <1>0, <1>3, WorkingOn DEF ReceiveStore
    <2>2. hist' \subseteq Trace
      BY <1>0, <1>3, <2>1, HistoryType DEF ReceiveStore, DataTypes
    <2>3. images' \subseteq Images
      BY <1>0, <1>3, <2>1 DEF ReceiveStore, DataTypes
    <2> QED
      BY <1>0, <1>3, <2>2, <2>3 DEF ReceiveStore, DataTypes
  <1>4. CASE ReceiveWrite(r)
    <2>1. arg[r].body \in Body
      BY <1>0, <1>4, WorkingOn DEF ReceiveWrite
    <2>2. clipboard' \in {None} \cup Shown /\ (clipboard \in Shown => clipboard' \in Shown)
      BY <1>0, <1>4, <2>1, WrittenType DEF ReceiveWrite, DataTypes
    <2> QED
      BY <1>0, <1>4, <2>2 DEF ReceiveWrite, DataTypes
  <1>5. CASE ReceiveAdopt(r)
    <2>1. arg[r] \in Clip /\ imagePath[r] \in BOOLEAN
      BY <1>0, <1>5, WorkingOn DEF ReceiveAdopt, FlagTypes
    <2>2. current' \in Current
      BY <1>5, <2>1, CurrentType DEF ReceiveAdopt
    <2> QED
      BY <1>0, <1>5, <2>2 DEF ReceiveAdopt, DataTypes
  <1> QED
    BY <1>1, <1>2, <1>3, <1>4, <1>5 DEF Receive

\* The restore goroutine keeps the types of what the goroutines share.
LEMMA RestoreData ==
  ASSUME DaemonInv, RestoreRead \/ Restore
  PROVE  DataTypes' /\ (clipboard \in Shown => clipboard' \in Shown)
  <1>0. TypeOK /\ DataTypes /\ FlagTypes
    BY TypeParts DEF DaemonInv
  <1>1. CASE RestoreRead \/ RestorePublish
    BY <1>0, <1>1 DEF DataTypes, RestoreRead, RestorePublish, daemon
  <1>2. CASE RestoreWrite \/ RestoreMintFails
    <2>1. arg["restore"].body \in Body
      BY <1>2, WorkingOn, ThreadNames DEF RestoreWrite, RestoreMintFails
    <2>2. clipboard' \in {None} \cup Shown /\ (clipboard \in Shown => clipboard' \in Shown)
      BY <1>0, <1>2, <2>1, WrittenType DEF RestoreWrite, RestoreMintFails, DataTypes
    <2> QED
      BY <1>0, <1>2, <2>2 DEF RestoreWrite, RestoreMintFails, DataTypes
  <1>3. CASE RestoreStamp
    <2>1. /\ arg["restore"] \in Clip /\ arg["restore"].id \in Id /\ arg["restore"].ts \in Nat
          /\ imagePath["restore"] \in BOOLEAN
      BY <1>0, <1>3, WorkingOn, ThreadNames DEF RestoreStamp, FlagTypes
    <2>2. seen' \in Seq(Id) /\ Len(seen') <= SeenCap
      BY <1>0, <1>3, <2>1, RememberKeeps DEF RestoreStamp
    <2>3. current' \in {None} \cup Current
      BY <1>0, <1>3, <2>1, CurrentType DEF RestoreStamp, DataTypes
    <2> QED
      BY <1>0, <1>3, <2>1, <2>2, <2>3 DEF RestoreStamp, DataTypes
  <1>4. CASE RestoreAppend
    <2>1. arg["restore"] \in Clip /\ arg["restore"].id[1] \in {"peer", "local"}
      BY <1>4, WorkingOn, ThreadNames DEF RestoreAppend
    <2>2. hist' \subseteq Trace
      BY <1>0, <1>4, <2>1, HistoryType DEF RestoreAppend, DataTypes
    <2> QED
      BY <1>0, <1>4, <2>2 DEF RestoreAppend, DataTypes
  <1> QED
    BY <1>1, <1>2, <1>3, <1>4 DEF Restore

-----------------------------------------------------------------------------
(* Where the goroutines are *)

\* A counter that is incremented.
LEMMA Increment ==
  ASSUME NEW S, NEW f \in [S -> Nat], NEW x \in S
  PROVE  [f EXCEPT ![x] = @ + 1] \in [S -> Nat]
  OBVIOUS

\* The number of the next ID.
LEMMA MintType == ASSUME CountTypes PROVE minted \in Nat /\ minted + 1 \in Nat
  <1>1. MaxMint \in Nat
    BY DaemonAssumption
  <1>2. minted \in 0 .. MaxMint
    BY DEF CountTypes
  <1> QED
    BY <1>1, <1>2

\* The poll loop.
LEMMA PollThread ==
  ASSUME DaemonInv, Poll
  PROVE  ThreadTypes' /\ Others("poll") /\ PollInv'
  <1> USE ThreadNames, PlaceTypes DEF Goto
  <1>0. DataTypes /\ ThreadTypes /\ CountTypes /\ PollInv
    BY TypeParts DEF DaemonInv
  <1>1. CASE StartupRead \/ PollRead
    <2>1. clipboard # None => Fresh(ReadBack(clipboard.body)) \in Clip
                              /\ Fresh(ReadBack(clipboard.body)).id[1] = "local"
      <3>1. clipboard # None => clipboard.body \in Body
        BY <1>0 DEF DataTypes, Shown
      <3>2. clipboard # None => ReadBack(clipboard.body) \in Body
        BY <3>1, ReadBackType
      <3> QED
        BY <1>0, <3>2, FreshType DEF CountTypes
    <2>2. clipboard # None => clipboard \in Shown
      BY <1>0 DEF DataTypes
    <2>3. CASE clipboard = None
      BY <1>0, <1>1, <2>3 DEF StartupRead, PollRead, ThreadTypes, Others, PollInv
    <2>4. CASE clipboard # None
      <3> DEFINE c == Fresh(ReadBack(clipboard.body))
      <3>1. PICK place \in {"first probe", "probe"} :
               /\ pc' = [pc EXCEPT !["poll"] = place] /\ arg' = [arg EXCEPT !["poll"] = c]
               /\ relays' = relays /\ clipboard' = clipboard
        BY <1>1, <2>4 DEF StartupRead, PollRead, daemon
      <3>2. c \in Clip /\ c.id[1] = "local" /\ clipboard \in Shown
        BY <2>1, <2>2, <2>4
      <3> HIDE DEF c
      <3>3. ThreadTypes' /\ Others("poll")
        BY <1>0, <3>1, <3>2 DEF ThreadTypes, Others
      <3>4. PollInv'
        BY <1>0, <3>1, <3>2 DEF ThreadTypes, PollInv
      <3> QED
        BY <3>3, <3>4
    <2> QED
      BY <2>3, <2>4
  <1>2. CASE Probe
    <2> DEFINE c == arg["poll"]
               flag == IF Cached(c.body) THEN probed.concealed ELSE clipboard.concealed
    <2>1. c \in Clip /\ c.id[1] = "local" /\ clipboard \in Shown
      BY <1>0, <1>2 DEF Probe, PollInv
    <2>2. flag \in BOOLEAN
      BY <1>0, <2>1 DEF DataTypes, Shown, Cached
    <2>3. arg' = [arg EXCEPT !["poll"] = [c EXCEPT !.concealed = flag]]
      BY <1>2 DEF Probe
    <2> HIDE DEF flag
    <2>4. [c EXCEPT !.concealed = flag] \in Clip /\ [c EXCEPT !.concealed = flag].id[1] = "local"
      BY <2>1, <2>2, FlagType
    <2> DEFINE d == [c EXCEPT !.concealed = flag]
    <2>5. PICK place \in {"echo", "startup"} :
             /\ pc' = [pc EXCEPT !["poll"] = place] /\ arg' = [arg EXCEPT !["poll"] = d]
             /\ relays' = relays
      BY <1>2, <2>3 DEF Probe
    <2>6. d \in Clip /\ d.id[1] = "local" /\ place \in Places
      BY <2>4, <2>5
    <2> HIDE DEF d
    <2>7. ThreadTypes' /\ Others("poll")
      BY <1>0, <2>5, <2>6 DEF ThreadTypes, Others
    <2>8. PollInv'
      BY <1>0, <2>5, <2>6 DEF PollInv, ThreadTypes
    <2> QED
      BY <2>7, <2>8
  <1>3. CASE StartupAdopt \/ PollEcho \/ PollMintFails \/ PollPublish
    <2>1. Return("poll") /\ UNCHANGED <<relays, clipboard>>
      BY <1>3 DEF StartupAdopt, PollEcho, PollMintFails, PollPublish, daemon
    <2>2. ThreadTypes'
      BY <1>0, <2>1, ReturnTypes DEF ThreadTypes
    <2>3. Others("poll") /\ pc'["poll"] = "idle"
      BY <1>0, <2>1, ReturnOthers
    <2> QED
      BY <2>2, <2>3 DEF PollInv
  <1>4. CASE PollMint
    <2> DEFINE c == arg["poll"]
    <2>0. minted + 1 \in Nat
      BY <1>0, MintType
    <2>1. c \in Clip
      BY <1>0, <1>4 DEF PollMint, PollInv
    <2>2. arg' = [arg EXCEPT !["poll"] = [c EXCEPT !.id = <<"local", minted + 1>>]]
      BY <1>4 DEF PollMint, Mint
    <2>3. /\ [c EXCEPT !.id = <<"local", minted + 1>>] \in Clip
          /\ [c EXCEPT !.id = <<"local", minted + 1>>].id[1] = "local"
      BY <2>0, <2>1, StampType
    <2>4. ThreadTypes' /\ Others("poll")
      BY <1>0, <1>4, <2>2, <2>3 DEF PollMint, ThreadTypes, Others
    <2>5. PollInv'
      BY <1>0, <1>4, <2>2, <2>3 DEF PollMint, PollInv, ThreadTypes
    <2> QED
      BY <2>4, <2>5
  <1>5. CASE PollStamp \/ PollStore
    <2>1. ThreadTypes'
      <3>1. PICK place \in {"adopt", "store"} :
               pc' = [pc EXCEPT !["poll"] = place] /\ arg' = arg /\ relays' = relays
        BY <1>5 DEF PollStamp, PollStore
      <3>2. place \in Places
        OBVIOUS
      <3> QED
        BY <1>0, <3>1, <3>2 DEF ThreadTypes
    <2>2. Others("poll") /\ PollInv'
      BY <1>0, <1>5 DEF PollStamp, PollStore, ThreadTypes, Others, PollInv
    <2> QED
      BY <2>1, <2>2
  <1>6. CASE PollAdopt
    <2>1. CASE arg["poll"].concealed
      <3>1. Return("poll") /\ UNCHANGED relays
        BY <1>6, <2>1 DEF PollAdopt
      <3>2. ThreadTypes'
        BY <1>0, <3>1, ReturnTypes DEF ThreadTypes
      <3>3. Others("poll") /\ pc'["poll"] = "idle"
        BY <1>0, <3>1, ReturnOthers
      <3> QED
        BY <3>2, <3>3 DEF PollInv
    <2>2. CASE ~arg["poll"].concealed
      BY <1>0, <1>6, <2>2 DEF PollAdopt, ThreadTypes, Others, PollInv
    <2> QED
      BY <2>1, <2>2
  <1> QED
    BY <1>1, <1>2, <1>3, <1>4, <1>5, <1>6 DEF Poll

\* A receiver.
LEMMA ReceiveThread ==
  ASSUME DaemonInv, NEW r \in Receiver, Receive(r) \/ \E c \in Inbound : ReceiveStart(r, c)
  PROVE  ThreadTypes' /\ Others(r) /\ ReceiverInv'
  <1> USE ThreadNames, PlaceTypes DEF Goto
  <1>0. DataTypes /\ ThreadTypes /\ CountTypes /\ ReceiverInv /\ r \in Thread
    BY TypeParts DEF DaemonInv
  <1>1. ASSUME NEW c \in Inbound, ReceiveStart(r, c)
        PROVE  ThreadTypes' /\ Others(r) /\ ReceiverInv'
    <2>1. c \in Clip
      BY InboundClip
    <2>2. ThreadTypes' /\ Others(r)
      BY <1>0, <1>1, <2>1 DEF ReceiveStart, ThreadTypes, Others
    <2>3. ReceiverInv'
      BY <1>0, <1>1 DEF ReceiveStart, ThreadTypes, ReceiverInv, Away
    <2> QED
      BY <2>2, <2>3
  <1>2. CASE ReceiveDrop(r) \/ ReceiveStoreFails(r)
    <2>1. Return(r) /\ UNCHANGED relays
      BY <1>2 DEF ReceiveDrop, ReceiveStoreFails
    <2>2. ThreadTypes'
      BY <1>0, <2>1, ReturnTypes DEF ThreadTypes
    <2>3. Others(r) /\ pc'[r] = "idle"
      BY <1>0, <2>1, ReturnOthers
    <2> QED
      BY <1>0, <2>2, <2>3 DEF Others, ReceiverInv, Away
  <1>3. CASE ReceiveAccept(r) \/ ReceiveStore(r) \/ ReceiveAdopt(r)
    <2>1. ThreadTypes'
      BY <1>0, <1>3 DEF ReceiveAccept, ReceiveStore, ReceiveAdopt, ThreadTypes
    <2>2. Others(r)
      BY <1>0, <1>3 DEF ReceiveAccept, ReceiveStore, ReceiveAdopt, ThreadTypes, Others
    <2>3. ReceiverInv'
      BY <1>0, <1>3 DEF ReceiveAccept, ReceiveStore, ReceiveAdopt, ThreadTypes, ReceiverInv,
                        Away, Accepts
    <2> QED
      BY <2>1, <2>2, <2>3
  <1>4. CASE ReceiveWrite(r)
    <2>1. ThreadTypes'
      BY <1>0, <1>4 DEF ReceiveWrite, ThreadTypes
    <2>2. Others(r) /\ ReceiverInv'
      BY <1>0, <1>4 DEF ReceiveWrite, ThreadTypes, Others, ReceiverInv, Away
    <2> QED
      BY <2>1, <2>2
  <1>5. CASE ReceiveSpawn(r)
    <2>1. Return(r) /\ arg[r] \in Inbound /\ relays' = [relays EXCEPT ![arg[r]] = @ + 1]
      BY <1>0, <1>5 DEF ReceiveSpawn, Relays, ReceiverInv, Away
    <2>2. relays' \in [Inbound -> Nat]
      <3>1. relays \in [Inbound -> Nat]
        BY <1>0 DEF ThreadTypes
      <3> QED
        BY <2>1, <3>1, Increment
    <2>3. ThreadTypes'
      BY <1>0, <2>1, <2>2, ReturnTypes DEF ThreadTypes
    <2>4. Others(r) /\ pc'[r] = "idle"
      BY <1>0, <2>1, ReturnOthers
    <2> QED
      BY <1>0, <2>3, <2>4 DEF Others, ReceiverInv, Away
  <1> QED
    BY <1>1, <1>2, <1>3, <1>4, <1>5 DEF Receive

\* A restore.
LEMMA RestoreThread ==
  ASSUME DaemonInv, RestoreRead \/ Restore
  PROVE  ThreadTypes' /\ Others("restore") /\ RestoreInv'
  <1> USE ThreadNames, PlaceTypes DEF Goto
  <1>0. DataTypes /\ ThreadTypes /\ CountTypes /\ RestoreInv
    BY TypeParts DEF DaemonInv
  <1>1. CASE RestoreRead
    <2>1. \A h \in hist : /\ Fresh(h.body) \in Clip /\ Fresh(h.body).id[1] = "local"
                          /\ ~Fresh(h.body).concealed
      BY <1>0, FreshType DEF DataTypes, CountTypes, Trace
    <2>2. PICK h \in hist : /\ arg' = [arg EXCEPT !["restore"] = Fresh(h.body)]
                            /\ pc' = [pc EXCEPT !["restore"] = "write"] /\ relays' = relays
      BY <1>1 DEF RestoreRead
    <2>3. ThreadTypes' /\ Others("restore")
      BY <1>0, <2>1, <2>2 DEF ThreadTypes, Others
    <2>4. RestoreInv'
      BY <1>0, <2>1, <2>2 DEF ThreadTypes, RestoreInv, Away
    <2> QED
      BY <2>3, <2>4
  <1>2. CASE RestoreWrite
    <2> DEFINE c == arg["restore"]
    <2>0. minted + 1 \in Nat
      BY <1>0, MintType
    <2>1. c \in Clip /\ ~c.concealed
      BY <1>0, <1>2 DEF RestoreWrite, RestoreInv, Away
    <2>2. arg' = [arg EXCEPT !["restore"] = [c EXCEPT !.id = <<"local", minted + 1>>]]
      BY <1>2 DEF RestoreWrite, Mint
    <2>3. /\ [c EXCEPT !.id = <<"local", minted + 1>>] \in Clip
          /\ [c EXCEPT !.id = <<"local", minted + 1>>].id[1] = "local"
          /\ ~[c EXCEPT !.id = <<"local", minted + 1>>].concealed
      BY <2>0, <2>1, StampType
    <2>4. ThreadTypes' /\ Others("restore")
      BY <1>0, <1>2, <2>2, <2>3 DEF RestoreWrite, ThreadTypes, Others
    <2>5. RestoreInv'
      BY <1>0, <1>2, <2>2, <2>3 DEF RestoreWrite, RestoreInv, Away, ThreadTypes
    <2> QED
      BY <2>4, <2>5
  <1>3. CASE RestoreMintFails \/ RestorePublish
    <2>1. Return("restore") /\ UNCHANGED relays
      BY <1>3 DEF RestoreMintFails, RestorePublish
    <2>2. ThreadTypes'
      BY <1>0, <2>1, ReturnTypes DEF ThreadTypes
    <2>3. Others("restore") /\ pc'["restore"] = "idle"
      BY <1>0, <2>1, ReturnOthers
    <2> QED
      BY <2>2, <2>3 DEF RestoreInv, Away
  <1>4. CASE RestoreStamp \/ RestoreAppend
    <2>1. PICK place \in {"append", "publish"} :
             pc' = [pc EXCEPT !["restore"] = place] /\ arg' = arg /\ relays' = relays
      BY <1>4 DEF RestoreStamp, RestoreAppend
    <2>2. place \in Places
      BY <2>1
    <2>3. Away("restore")
      BY <1>4 DEF RestoreStamp, RestoreAppend, Away
    <2>4. ThreadTypes' /\ Others("restore")
      BY <1>0, <2>1, <2>2 DEF ThreadTypes, Others
    <2>5. RestoreInv'
      BY <1>0, <2>1, <2>3 DEF RestoreInv, Away, ThreadTypes
    <2> QED
      BY <2>4, <2>5
  <1> QED
    BY <1>1, <1>2, <1>3, <1>4 DEF Restore

\* The local flags of goroutines.
LEMMA FlagStep == ASSUME DaemonInv, [Next]_vars PROVE FlagTypes'
  <1>0. FlagTypes
    BY TypeParts DEF DaemonInv
  <1> USE <1>0 DEF FlagTypes
  <1>1. ASSUME NEW t \in Thread, Return(t) PROVE FlagTypes'
    BY <1>1 DEF Return
  <1>2. CASE Poll
    BY <1>1, <1>2, ThreadNames
       DEF Poll, StartupRead, Probe, StartupAdopt, PollRead, PollEcho, PollMint, PollMintFails,
           PollStamp, PollStore, PollAdopt, PollPublish
  <1>3. ASSUME NEW r \in Receiver, Receive(r) \/ \E c \in Inbound : ReceiveStart(r, c)
        PROVE  FlagTypes'
    BY <1>1, <1>3, ThreadNames
       DEF Receive, ReceiveStart, ReceiveDrop, ReceiveAccept, ReceiveStore, ReceiveStoreFails,
           ReceiveWrite, ReceiveAdopt, ReceiveSpawn
  <1>4. CASE RestoreRead \/ Restore
    BY <1>1, <1>4, ThreadNames
       DEF RestoreRead, Restore, RestoreWrite, RestoreMintFails, RestoreStamp, RestoreAppend,
           RestorePublish
  <1>5. CASE UserCopy \/ (\E c \in Inbound : Relay(c)) \/ UNCHANGED vars
    BY <1>5 DEF UserCopy, Relay, vars, threads
  <1> QED
    BY <1>2, <1>3, <1>4, <1>5 DEF Next

-----------------------------------------------------------------------------
(* Bounds, and the history of the run *)

\* The counters stay within their bounds.
LEMMA CountStep == ASSUME DaemonInv, [Next]_vars PROVE CountTypes'
  <1>0. CountTypes
    BY TypeParts DEF DaemonInv
  <1> USE <1>0 DEF CountTypes
  <1>1. MaxMint \in Nat /\ MaxStimulus \in Nat /\ MaxFault \in Nat
    BY DaemonAssumption
  <1>2. Stimulus => stimuli' \in 0 .. MaxStimulus
    BY <1>1 DEF Stimulus
  <1>3. \A ok \in BOOLEAN : Outcome(ok) => faults' \in 0 .. MaxFault
    BY <1>1 DEF Outcome
  <1>4. ASSUME NEW t \in Thread, pc[t] \notin {"idle", "start"}, Mint(t)
        PROVE  clock' \in Nat /\ minted' \in 0 .. MaxMint
    <2>1. arg[t].ts \in Nat
      BY <1>4, WorkingOn
    <2>2. clock' \in Nat
      BY <1>4, <2>1 DEF Mint
    <2>3. minted' \in 0 .. MaxMint
      BY <1>1, <1>4 DEF Mint
    <2> QED
      BY <2>2, <2>3
  <1>5. CASE Poll
    <2>1. CASE PollMint
      BY <1>4, <2>1, ThreadNames DEF PollMint, bounds
    <2>2. CASE PollMintFails \/ PollStore
      BY <1>3, <2>2 DEF PollMintFails, PollStore
    <2>3. CASE StartupRead \/ StartupAdopt \/ Probe \/ PollRead \/ PollEcho \/ PollStamp
                \/ PollAdopt \/ PollPublish
      BY <2>3 DEF StartupRead, StartupAdopt, Probe, PollRead, PollEcho, PollStamp, PollAdopt,
                  PollPublish, bounds
    <2> QED
      BY <1>5, <2>1, <2>2, <2>3 DEF Poll
  <1>6. ASSUME NEW r \in Receiver, Receive(r) \/ \E c \in Inbound : ReceiveStart(r, c)
        PROVE  CountTypes'
    <2>1. CASE \E c \in Inbound : ReceiveStart(r, c)
      BY <1>2, <2>1 DEF ReceiveStart
    <2>2. CASE ReceiveStoreFails(r) \/ ReceiveWrite(r)
      BY <1>3, <2>2 DEF ReceiveStoreFails, ReceiveWrite
    <2>3. CASE ReceiveDrop(r) \/ ReceiveAccept(r) \/ ReceiveStore(r) \/ ReceiveAdopt(r)
                \/ ReceiveSpawn(r)
      BY <2>3 DEF ReceiveDrop, ReceiveAccept, ReceiveStore, ReceiveAdopt, ReceiveSpawn, bounds
    <2> QED
      BY <1>6, <2>1, <2>2, <2>3 DEF Receive
  <1>7. CASE RestoreRead \/ Restore
    <2>1. CASE RestoreRead
      BY <1>2, <2>1 DEF RestoreRead
    <2>2. CASE RestoreWrite
      BY <1>3, <1>4, <2>2, ThreadNames DEF RestoreWrite
    <2>3. CASE RestoreMintFails
      BY <1>3, <2>3 DEF RestoreMintFails
    <2>4. CASE RestoreStamp \/ RestoreAppend \/ RestorePublish
      BY <2>4 DEF RestoreStamp, RestoreAppend, RestorePublish, bounds
    <2> QED
      BY <1>7, <2>1, <2>2, <2>3, <2>4 DEF Restore
  <1>8. CASE UserCopy
    BY <1>2, <1>8 DEF UserCopy
  <1>9. CASE (\E c \in Inbound : Relay(c)) \/ UNCHANGED vars
    BY <1>9 DEF Relay, vars, bounds
  <1> QED
    BY <1>5, <1>6, <1>7, <1>8, <1>9 DEF Next

\* What was accepted, forgotten, not saved and published; AcceptedOnce holds
\* because the checks look at d.seen under the lock that adds to it.
LEMMA GhostStep ==
  ASSUME DaemonInv, [Next]_vars
  PROVE  GhostTypes' /\ SeenInv' /\ AcceptedOnce'
  <1>0. TypeOK /\ GhostTypes /\ SeenInv /\ AcceptedOnce
    BY TypeParts DEF DaemonInv
  <1>1. ASSUME NEW id \in Id, Remember(id), UNCHANGED <<accepted, unsaved, published>>
        PROVE  GhostTypes' /\ SeenInv' /\ AcceptedOnce'
    BY <1>0, <1>1, RememberKeeps DEF GhostTypes, SeenInv, AcceptedOnce
  <1>2. ASSUME UNCHANGED <<seen, accepted, evicted>>, unsaved' \subseteq Inbound,
               published' \subseteq Trace
        PROVE  GhostTypes' /\ SeenInv' /\ AcceptedOnce'
    BY <1>0, <1>2 DEF GhostTypes, SeenInv, AcceptedOnce
  <1>3. ASSUME NEW t \in Thread, pc[t] \notin {"idle", "start"},
               published' = published \cup {Trail(arg[t])}
        PROVE  published' \subseteq Trace
    BY <1>0, <1>3, WorkingOn, TrailType DEF GhostTypes
  <1>4. ASSUME NEW r \in Receiver, ReceiveAccept(r)
        PROVE  GhostTypes' /\ SeenInv' /\ AcceptedOnce'
    <2> DEFINE a == arg[r]
    <2>1. a \in Inbound /\ a.id \in Id /\ a.id \notin Ids(seen)
      BY <1>4, InboundClip, ClipFields
         DEF ReceiveAccept, Accepts, DaemonInv, ReceiverInv, Away
    <2>2. /\ Remember(a.id) /\ accepted' = [accepted EXCEPT ![a] = @ + 1]
          /\ UNCHANGED <<unsaved, published>>
      BY <1>4 DEF ReceiveAccept
    <2> HIDE DEF a
    <2>3. /\ evicted' \subseteq Id /\ evicted \subseteq evicted' /\ a.id \in Ids(seen')
          /\ \A c \in Inbound : c.id \in Ids(seen) => c.id \in Ids(seen') \cup evicted'
      BY <1>0, <2>1, <2>2, RememberKeeps
    <2>4. accepted \in [Inbound -> Nat]
      BY <1>0 DEF GhostTypes
    <2>5. accepted' \in [Inbound -> Nat]
      BY <2>1, <2>2, <2>4, Increment
    <2>6. GhostTypes'
      BY <1>0, <2>2, <2>3, <2>5 DEF GhostTypes
    <2>7. \A c \in Inbound : c # a => accepted'[c] = accepted[c]
      BY <2>2, <2>4
    <2>8. SeenInv'
      BY <1>0, <2>3, <2>7 DEF SeenInv
    <2>9. AcceptedOnce'
      <3>1. accepted'[a] > 1 => accepted[a] > 0
        BY <2>1, <2>2, <2>4
      <3>2. accepted'[a] > 1 => a.id \in evicted
        BY <1>0, <2>1, <3>1 DEF SeenInv
      <3> QED
        BY <1>0, <2>3, <2>7, <3>2 DEF AcceptedOnce
    <2> QED
      BY <2>6, <2>8, <2>9
  <1>5. CASE Poll
    <2>1. CASE PollStamp
      BY <1>1, <2>1, WorkingOn, ThreadNames DEF PollStamp
    <2>2. CASE PollPublish
      <3>1. published' \subseteq Trace
        BY <1>3, <2>2, ThreadNames DEF PollPublish
      <3> QED
        BY <1>0, <1>2, <2>2, <3>1 DEF PollPublish, daemon, GhostTypes
    <2>3. CASE StartupRead \/ StartupAdopt \/ Probe \/ PollRead \/ PollEcho \/ PollMint
                \/ PollMintFails \/ PollStore \/ PollAdopt
      BY <1>0, <1>2, <2>3
         DEF StartupRead, StartupAdopt, Probe, PollRead, PollEcho, PollMint, PollMintFails,
             PollStore, PollAdopt, daemon, ghosts, GhostTypes
    <2> QED
      BY <1>5, <2>1, <2>2, <2>3 DEF Poll
  <1>6. ASSUME NEW r \in Receiver, Receive(r) \/ \E c \in Inbound : ReceiveStart(r, c)
        PROVE  GhostTypes' /\ SeenInv' /\ AcceptedOnce'
    <2>1. CASE ReceiveDrop(r)
      <3>1. arg[r].id \in Id
        BY <2>1, WorkingOn, ThreadNames DEF ReceiveDrop
      <3> QED
        BY <1>0, <1>1, <1>2, <2>1, <3>1 DEF ReceiveDrop, GhostTypes
    <2>2. CASE ReceiveStoreFails(r)
      <3>1. arg[r] \in Inbound
        BY <2>2 DEF ReceiveStoreFails, DaemonInv, ReceiverInv, Away
      <3> QED
        BY <1>0, <1>2, <2>2, <3>1 DEF ReceiveStoreFails, daemon, GhostTypes
    <2>3. CASE ReceiveStore(r) \/ ReceiveWrite(r) \/ ReceiveAdopt(r) \/ ReceiveSpawn(r)
                \/ \E c \in Inbound : ReceiveStart(r, c)
      BY <1>0, <1>2, <2>3
         DEF ReceiveStore, ReceiveWrite, ReceiveAdopt, ReceiveSpawn, ReceiveStart, daemon,
             ghosts, GhostTypes
    <2> QED
      BY <1>4, <1>6, <2>1, <2>2, <2>3 DEF Receive
  <1>7. CASE RestoreRead \/ Restore
    <2>1. CASE RestoreStamp
      BY <1>1, <2>1, WorkingOn, ThreadNames DEF RestoreStamp
    <2>2. CASE RestorePublish
      <3>1. published' \subseteq Trace
        BY <1>3, <2>2, ThreadNames DEF RestorePublish
      <3> QED
        BY <1>0, <1>2, <2>2, <3>1 DEF RestorePublish, daemon, GhostTypes
    <2>3. CASE RestoreRead \/ RestoreWrite \/ RestoreMintFails \/ RestoreAppend
      BY <1>0, <1>2, <2>3
         DEF RestoreRead, RestoreWrite, RestoreMintFails, RestoreAppend, daemon, ghosts,
             GhostTypes
    <2> QED
      BY <1>7, <2>1, <2>2, <2>3 DEF Restore
  <1>8. ASSUME NEW c \in Inbound, Relay(c)
        PROVE  GhostTypes' /\ SeenInv' /\ AcceptedOnce'
    <2>1. Trail(c) \in Trace
      BY InboundClip, TrailType
    <2> QED
      BY <1>0, <1>2, <1>8, <2>1 DEF Relay, daemon, GhostTypes
  <1>9. CASE UserCopy \/ UNCHANGED vars
    BY <1>0, <1>2, <1>9 DEF UserCopy, vars, daemon, ghosts, GhostTypes
  <1> QED
    BY <1>5, <1>6, <1>7, <1>8, <1>9 DEF Next

-----------------------------------------------------------------------------
(* Concealed clips *)

\* What AppendHistory records of a clip that is not concealed.
LEMMA HistoryConceals ==
  ASSUME \A h \in hist : ~h.concealed, NEW c \in Clip, c.id[1] \in {"peer", "local"},
         ~c.concealed, AppendHistory(c)
  PROVE  \A h \in hist' : ~h.concealed
  BY TrailType DEF AppendHistory

\* Nothing concealed is recorded, published, relayed or shown.
LEMMA ConcealStep == ASSUME DaemonInv, [Next]_vars PROVE ConcealedStaysPut'
  <1> DEFINE Hist == \A h \in hist : ~h.concealed
             Sent == \A c \in published : ~c.concealed
             Queue == \A c \in Inbound : relays[c] > 0 => ~c.concealed
             Shows == current # None => ~(current.visible /\ current.concealed)
  <1>0. /\ ConcealedStaysPut <=> Hist /\ Sent /\ Queue /\ Shows
        /\ ConcealedStaysPut' <=> Hist' /\ Sent' /\ Queue' /\ Shows'
    BY DEF ConcealedStaysPut
  <1>1. Hist /\ Sent /\ Queue /\ Shows
    BY <1>0 DEF DaemonInv
  <1>2. FlagTypes /\ ThreadTypes
    BY TypeParts DEF DaemonInv
  <1>3. ASSUME NEW t \in Thread, pc[t] \notin {"idle", "start"}, ~arg[t].concealed,
               published' = published \cup {Trail(arg[t])}
        PROVE  Sent'
    BY <1>1, <1>3, WorkingOn, TrailType
  <1>4. ASSUME NEW t \in Thread, pc[t] \notin {"idle", "start"}, ~arg[t].concealed,
               AppendHistory(arg[t])
        PROVE  Hist'
    BY <1>1, <1>4, WorkingOn, HistoryConceals
  <1>5. ASSUME NEW t \in Thread, pc[t] \notin {"idle", "start"}, ~arg[t].concealed,
               current' = CurrentOf(arg[t], imagePath[t], TRUE)
        PROVE  Shows'
    <2>1. arg[t] \in Clip /\ imagePath[t] \in BOOLEAN
      BY <1>2, <1>5, WorkingOn DEF FlagTypes
    <2>2. ~CurrentOf(arg[t], imagePath[t], TRUE).concealed
      BY <1>5, <2>1, CurrentType
    <2> QED
      BY <1>5, <2>2
  <1>6. CASE Poll
    <2>1. CASE StartupAdopt
      <3>1. [arg["poll"] EXCEPT !.id = <<"startup", 0>>] \in Clip
        BY <2>1, WorkingOn, ThreadNames DEF StartupAdopt, Clip, Id
      <3>2. Shows'
        BY <2>1, <3>1, CurrentType DEF StartupAdopt
      <3> QED
        BY <1>0, <1>1, <2>1, <3>2 DEF StartupAdopt, ghosts
    <2>2. CASE PollStore
      <3>1. Hist'
        BY <1>4, <2>2, ThreadNames DEF PollStore, DaemonInv, PollInv
      <3> QED
        BY <1>0, <1>1, <2>2, <3>1 DEF PollStore, ghosts
    <2>3. CASE PollAdopt
      <3> DEFINE c == arg["poll"]
      <3>1. c \in Clip /\ c.concealed \in BOOLEAN /\ imagePath["poll"] \in BOOLEAN
        BY <1>2, <2>3, WorkingOn, ThreadNames DEF PollAdopt, FlagTypes
      <3>2. current' = CurrentOf(c, imagePath["poll"], ~c.concealed)
        BY <2>3 DEF PollAdopt, Adopted, Visible
      <3>3. Shows'
        BY <3>1, <3>2, CurrentType
      <3> QED
        BY <1>0, <1>1, <2>3, <3>3 DEF PollAdopt, ghosts
    <2>4. CASE PollPublish
      <3>1. Sent'
        BY <1>3, <2>4, ThreadNames DEF PollPublish, DaemonInv, PollInv
      <3> QED
        BY <1>0, <1>1, <2>4, <3>1 DEF PollPublish, daemon
    <2>5. CASE StartupRead \/ Probe \/ PollRead \/ PollEcho \/ PollMint \/ PollMintFails
                \/ PollStamp
      BY <1>0, <1>1, <2>5
         DEF StartupRead, Probe, PollRead, PollEcho, PollMint, PollMintFails, PollStamp,
             daemon, ghosts
    <2> QED
      BY <1>6, <2>1, <2>2, <2>3, <2>4, <2>5 DEF Poll
  <1>7. ASSUME NEW r \in Receiver, Receive(r) \/ \E c \in Inbound : ReceiveStart(r, c)
        PROVE  ConcealedStaysPut'
    <2>0. r \in Thread /\ ReceiverInv
      BY ThreadNames DEF DaemonInv
    <2>1. CASE ReceiveStore(r)
      <3>1. Hist'
        BY <1>4, <2>0, <2>1 DEF ReceiveStore, ReceiverInv
      <3> QED
        BY <1>0, <1>1, <2>1, <3>1 DEF ReceiveStore, ghosts
    <2>2. CASE ReceiveAdopt(r)
      <3>1. Shows'
        BY <1>5, <2>0, <2>2 DEF ReceiveAdopt, ReceiverInv
      <3> QED
        BY <1>0, <1>1, <2>2, <3>1 DEF ReceiveAdopt, ghosts
    <2>3. CASE ReceiveSpawn(r)
      <3>1. arg[r] \in Inbound /\ ~arg[r].concealed
        BY <2>0, <2>3 DEF ReceiveSpawn, ReceiverInv, Away
      <3>2. \A c \in Inbound : c # arg[r] => relays'[c] = relays[c]
        BY <1>2, <2>3, <3>1 DEF ReceiveSpawn, Relays, ThreadTypes
      <3>3. Queue'
        BY <1>1, <3>1, <3>2
      <3> QED
        BY <1>0, <1>1, <2>3, <3>3 DEF ReceiveSpawn, daemon, ghosts
    <2>4. CASE ReceiveDrop(r) \/ ReceiveAccept(r) \/ ReceiveStoreFails(r) \/ ReceiveWrite(r)
                \/ \E c \in Inbound : ReceiveStart(r, c)
      BY <1>0, <1>1, <2>4
         DEF ReceiveDrop, ReceiveAccept, ReceiveStoreFails, ReceiveWrite, ReceiveStart,
             daemon, ghosts
    <2> QED
      BY <1>7, <2>1, <2>2, <2>3, <2>4 DEF Receive
  <1>8. CASE RestoreRead \/ Restore
    <2>0. RestoreInv
      BY DEF DaemonInv
    <2>1. CASE RestoreStamp
      <3>1. Shows'
        BY <1>1, <1>5, <2>0, <2>1, ThreadNames DEF RestoreStamp, RestoreInv, Away
      <3> QED
        BY <1>0, <1>1, <2>1, <3>1 DEF RestoreStamp
    <2>2. CASE RestoreAppend
      <3>1. Hist'
        BY <1>4, <2>0, <2>2, ThreadNames DEF RestoreAppend, RestoreInv, Away
      <3> QED
        BY <1>0, <1>1, <2>2, <3>1 DEF RestoreAppend, ghosts
    <2>3. CASE RestorePublish
      <3>1. Sent'
        BY <1>3, <2>0, <2>3, ThreadNames DEF RestorePublish, RestoreInv, Away
      <3> QED
        BY <1>0, <1>1, <2>3, <3>1 DEF RestorePublish, daemon
    <2>4. CASE RestoreRead \/ RestoreWrite \/ RestoreMintFails
      BY <1>0, <1>1, <2>4 DEF RestoreRead, RestoreWrite, RestoreMintFails, daemon, ghosts
    <2> QED
      BY <1>8, <2>1, <2>2, <2>3, <2>4 DEF Restore
  <1>9. ASSUME NEW c \in Inbound, Relay(c) PROVE ConcealedStaysPut'
    <2>1. ~c.concealed
      BY <1>1, <1>9 DEF Relay
    <2>2. Sent'
      BY <1>1, <1>9, <2>1, InboundClip, TrailType DEF Relay
    <2>3. \A b \in Inbound : b # c => relays'[b] = relays[b]
      BY <1>2, <1>9 DEF Relay, ThreadTypes
    <2>4. Queue'
      BY <1>1, <2>1, <2>3
    <2> QED
      BY <1>0, <1>1, <1>9, <2>2, <2>4 DEF Relay, daemon
  <1>10. CASE UserCopy \/ UNCHANGED vars
    BY <1>0, <1>1, <1>10 DEF UserCopy, vars, daemon, threads, ghosts
  <1> QED
    BY <1>6, <1>7, <1>8, <1>9, <1>10 DEF Next

-----------------------------------------------------------------------------
(* The whole invariant *)

\* It holds when the daemon starts.
LEMMA DaemonInit == Init => DaemonInv
  <1> SUFFICES ASSUME Init PROVE DaemonInv
    OBVIOUS
  <1> USE DaemonAssumption DEF Init
  <1>1. DataTypes
    <2>1. clipboard \in {None} \cup Shown
      BY DEF Shown
    <2>2. seen \in Seq(Id) /\ Len(seen) <= SeenCap
      OBVIOUS
    <2> QED
      BY <2>1, <2>2 DEF DataTypes
  <1>2. ThreadTypes
    BY PlaceTypes DEF ThreadTypes
  <1>3. FlagTypes
    BY DEF FlagTypes
  <1>4. CountTypes
    BY DEF CountTypes
  <1>5. GhostTypes
    BY DEF GhostTypes
  <1>6. ReceiverInv /\ PollInv /\ RestoreInv
    BY ThreadNames DEF ReceiverInv, PollInv, RestoreInv, Away
  <1>7. SeenInv /\ AcceptedOnce
    BY DEF SeenInv, AcceptedOnce
  <1>8. ConcealedStaysPut
    BY DEF ConcealedStaysPut
  <1> QED
    BY <1>1, <1>2, <1>3, <1>4, <1>5, <1>6, <1>7, <1>8, TypeParts DEF DaemonInv

\* Every step keeps it.
LEMMA DaemonStep == DaemonInv /\ [Next]_vars => DaemonInv'
  <1> SUFFICES ASSUME DaemonInv, [Next]_vars PROVE DaemonInv'
    OBVIOUS
  <1>0. /\ ReceiverInv /\ PollInv /\ RestoreInv
        /\ DataTypes /\ ThreadTypes
    BY TypeParts DEF DaemonInv
  <1>1. FlagTypes' /\ CountTypes' /\ GhostTypes' /\ SeenInv' /\ AcceptedOnce' /\ ConcealedStaysPut'
    BY FlagStep, CountStep, GhostStep, ConcealStep
  <1>2. CASE Poll
    BY <1>0, <1>1, <1>2, PollData, PollThread, PollKeeps, TypeParts DEF DaemonInv
  <1>3. ASSUME NEW r \in Receiver, Receive(r) \/ \E c \in Inbound : ReceiveStart(r, c)
        PROVE  DaemonInv'
    BY <1>0, <1>1, <1>3, ReceiveData, ReceiveThread, ReceiveKeeps, TypeParts DEF DaemonInv
  <1>4. CASE RestoreRead \/ Restore
    <2>1. DataTypes' /\ (clipboard \in Shown => clipboard' \in Shown)
      BY <1>4, RestoreData
    <2>2. ThreadTypes' /\ Others("restore") /\ RestoreInv'
      BY <1>4, RestoreThread
    <2>3. ReceiverInv' /\ PollInv'
      BY <1>0, <2>1, <2>2, RestoreKeeps
    <2> QED
      BY <1>1, <2>1, <2>2, <2>3, TypeParts DEF DaemonInv
  <1>5. CASE UserCopy
    <2>1. clipboard' \in Shown
      BY <1>5 DEF UserCopy, Shown
    <2>2. DataTypes' /\ ThreadTypes'
      BY <1>0, <1>5, <2>1 DEF UserCopy, DataTypes, ThreadTypes, threads
    <2>3. ReceiverInv' /\ PollInv' /\ RestoreInv'
      BY <1>0, <1>5, <2>1 DEF UserCopy, ReceiverInv, PollInv, RestoreInv, Away, threads
    <2> QED
      BY <1>1, <2>2, <2>3, TypeParts DEF DaemonInv
  <1>6. ASSUME NEW c \in Inbound, Relay(c) PROVE DaemonInv'
    <2>1. DataTypes'
      BY <1>0, <1>6 DEF Relay, DataTypes, daemon
    <2>2. ThreadTypes'
      BY <1>0, <1>6 DEF Relay, ThreadTypes
    <2>3. ReceiverInv' /\ PollInv' /\ RestoreInv'
      BY <1>0, <1>6 DEF Relay, ReceiverInv, PollInv, RestoreInv, Away, daemon
    <2> QED
      BY <1>1, <2>1, <2>2, <2>3, TypeParts DEF DaemonInv
  <1>7. CASE UNCHANGED vars
    <2>1. DataTypes' /\ ThreadTypes'
      BY <1>0, <1>7 DEF vars, daemon, threads, DataTypes, ThreadTypes
    <2>2. ReceiverInv' /\ PollInv' /\ RestoreInv'
      BY <1>0, <1>7 DEF vars, daemon, threads, ReceiverInv, PollInv, RestoreInv, Away
    <2> QED
      BY <1>1, <2>1, <2>2, TypeParts DEF DaemonInv
  <1> QED
    BY <1>2, <1>3, <1>4, <1>5, <1>6, <1>7 DEF Next

\* It is an invariant of the specification.
LEMMA DaemonInvariant == Spec => []DaemonInv
  BY DaemonInit, DaemonStep, PTL DEF Spec

-----------------------------------------------------------------------------
(* What it shows *)

\* Every goroutine of the daemon keeps the types, d.seen its bound.
THEOREM TypeCorrect == Spec => []TypeOK
  BY DaemonInvariant, PTL DEF DaemonInv

\* onReceive lets a clip through once, by however many paths and goroutines it
\* arrives, unless the seen set has evicted its ID meanwhile.
THEOREM ProcessedOnce == Spec => []AcceptedOnce
  BY DaemonInvariant, PTL DEF DaemonInv

\* A concealed clip is not recorded, published, relayed or shown by
\* GET /v1/current, on whichever path of the daemon it travels.
THEOREM ConcealedLeavesNoTrace == Spec => []ConcealedStaysPut
  BY DaemonInvariant, PTL DEF DaemonInv
==============================================================================
