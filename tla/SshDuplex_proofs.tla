-------------------------- MODULE SshDuplex_proofs --------------------------
(***************************************************************************)
(* Proofs about SshDuplex for every number of clips and failures, every    *)
(* limit of failing polls and every capacity of the pipes.                 *)
(***************************************************************************)
EXTENDS SshDuplex, SequenceTheorems, TLAPS

-----------------------------------------------------------------------------
(* The inductive invariant *)

\* The frames that can be there when n clips have been copied.
FrameOf(n) == [type : {"state", "ack"}, clip : 1 .. n, seq : Nat]

Copied == Len(origin)

DaemonInv ==
    /\ origin \in Seq(Host) /\ Copied <= MaxClip
    /\ cur \in [Host -> 0 .. Copied]

\* A relay goroutine was started for a clip the near daemon did not have.
RelayInv == relay \in Nat /\ relay <= cur["near"]

\* The main loop has a clip wherever it sends one.
MainInv ==
    /\ mu \in {"free", "reader"} /\ wmu \in {"free", "main", "reader"}
    /\ cancelled \in BOOLEAN
    /\ main \in {"connect", "mark", "lock", "write", "select", "failed"}
    /\ pend \in 0 .. Copied /\ queued \in 0 .. Copied /\ mclip \in 0 .. Copied
    /\ inflight \subseteq 1 .. Copied
    /\ main \in {"mark", "lock", "write"} => mclip # 0

\* The reader has a frame wherever it works on one.
ReaderInv ==
    /\ reader \in {"read", "lock", "apply", "mutex", "write", "push", "ended"}
    /\ rframe \in FrameOf(Copied) \cup {NoFrame}
    /\ reader \notin {"read", "ended"} => rframe \in FrameOf(Copied)

PipeInv ==
    /\ up \in Seq(FrameOf(Copied)) /\ Len(up) <= Pipe
    /\ down \in Seq(FrameOf(Copied)) /\ Len(down) <= Pipe
    /\ writes \in Seq(FrameOf(Copied))

\* The gateway has a clip wherever it works on one, and is gone when too many
\* polls have failed.
GatewayInv ==
    /\ gmain \in {"select", "apply", "ack", "publish", "stalled", "exited"}
    /\ gclip \in 0 .. Copied
    /\ gmain \in {"apply", "publish"} => gclip # 0
    /\ sent \subseteq 1 .. Copied
    /\ polls \in 0 .. MaxPoll
    /\ polls = MaxPoll => gmain \in {"stalled", "exited"}

CountInv == faults \in 0 .. MaxFault /\ refused \subseteq 1 .. Copied

\* Between two attempts nothing of the last one is left.
ClosedInv ==
    main = "connect" => /\ reader = "ended" /\ next = 1
                        /\ gmain = "exited" /\ gseq = 0 /\ polls = 0
                        /\ down = <<>> /\ writes = <<>>

Gone == gmain \in {"stalled", "exited"}

\* The numbers go on from the pipe to the writes the gateway has begun.
OrderInv ==
    /\ next \in Nat \ {0} /\ gseq \in Nat
    /\ \E mid \in Nat :
          /\ next <= mid + 1 /\ mid <= gseq
          /\ Numbered(down, next, mid)
          /\ ~Gone => Numbered(writes, mid + 1, gseq)

DuplexTypes ==
    DaemonInv /\ RelayInv /\ MainInv /\ ReaderInv /\ PipeInv /\ GatewayInv /\ CountInv

DuplexInv == DuplexTypes /\ ClosedInv /\ OrderInv
-----------------------------------------------------------------------------
(* Numbered sequences *)

\* What Numbered says, place by place.
LEMMA NumberedPlaces ==
  ASSUME NEW q, NEW lo, NEW hi
  PROVE  Numbered(q, lo, hi) <=>
            /\ \A i \in 1 .. Len(q) : q[i].type = "state" => q[i].seq \in lo .. hi
            /\ \A n \in lo .. hi : \E i \in 1 .. Len(q) : q[i].type = "state" /\ q[i].seq = n
            /\ \A i, j \in 1 .. Len(q) :
                  (q[i].type = "state" /\ q[j].type = "state" /\ i < j) => q[i].seq < q[j].seq
  BY DEF Numbered

\* An empty sequence has no numbers.
LEMMA NumberedEmpty == \A n \in Nat \ {0} : Numbered(<<>>, n, n - 1)
  BY DEF Numbered

\* The numbers are those of any other sequence with the same states in the same order.
LEMMA NumberedAppend ==
  ASSUME NEW n \in Nat, NEW q \in Seq(FrameOf(n)), NEW f \in FrameOf(n),
         NEW lo \in Nat, NEW hi \in Nat, Numbered(q, lo, hi)
  PROVE  /\ f.type = "ack" => Numbered(Append(q, f), lo, hi)
         /\ (f.type = "state" /\ f.seq = hi + 1 /\ lo <= hi + 1) =>
               Numbered(Append(q, f), lo, hi + 1)
  <1> DEFINE r == Append(q, f)
  <1>1. /\ Len(r) = Len(q) + 1 /\ Len(q) \in Nat
        /\ \A i \in 1 .. Len(q) : r[i] = q[i] /\ q[i] \in FrameOf(n)
        /\ r[Len(q) + 1] = f
    OBVIOUS
  <1> HIDE DEF r
  <1>2. /\ \A i \in 1 .. Len(q) : q[i].type = "state" => q[i].seq \in lo .. hi
        /\ \A k \in lo .. hi : \E i \in 1 .. Len(q) : q[i].type = "state" /\ q[i].seq = k
        /\ \A i, j \in 1 .. Len(q) :
              (q[i].type = "state" /\ q[j].type = "state" /\ i < j) => q[i].seq < q[j].seq
    BY NumberedPlaces
  <1>3. ASSUME f.type = "ack" PROVE Numbered(r, lo, hi)
    <2>1. \A i \in 1 .. Len(r) : r[i].type = "state" => i \in 1 .. Len(q)
      BY <1>1, <1>3
    <2>2. 1 .. Len(q) \subseteq 1 .. Len(r)
      BY <1>1
    <2>3. \A i \in 1 .. Len(r) : r[i].type = "state" => r[i].seq \in lo .. hi
      BY <1>1, <1>2, <2>1
    <2>4. \A k \in lo .. hi : \E i \in 1 .. Len(r) : r[i].type = "state" /\ r[i].seq = k
      BY <1>1, <1>2, <2>2
    <2>5. \A i, j \in 1 .. Len(r) :
             (r[i].type = "state" /\ r[j].type = "state" /\ i < j) => r[i].seq < r[j].seq
      BY <1>1, <1>2, <2>1
    <2> QED
      BY <2>3, <2>4, <2>5, NumberedPlaces
  <1>4. ASSUME f.type = "state", f.seq = hi + 1, lo <= hi + 1 PROVE Numbered(r, lo, hi + 1)
    <2>1. \A i \in 1 .. Len(r) : i \in 1 .. Len(q) \/ i = Len(q) + 1
      BY <1>1
    <2>2. 1 .. Len(q) \subseteq 1 .. Len(r) /\ Len(q) + 1 \in 1 .. Len(r)
      BY <1>1
    <2>3. ASSUME NEW i \in 1 .. Len(r), r[i].type = "state" PROVE r[i].seq \in lo .. hi + 1
      BY <1>1, <1>2, <1>4, <2>1, <2>3
    <2>4. ASSUME NEW k \in lo .. hi + 1
          PROVE  \E i \in 1 .. Len(r) : r[i].type = "state" /\ r[i].seq = k
      <3>1. CASE k = hi + 1
        BY <1>1, <1>4, <2>2, <3>1
      <3>2. CASE k \in lo .. hi
        BY <1>1, <1>2, <2>2, <3>2
      <3> QED
        BY <3>1, <3>2
    <2>5. ASSUME NEW i \in 1 .. Len(r), NEW j \in 1 .. Len(r),
                 r[i].type = "state", r[j].type = "state", i < j
          PROVE  r[i].seq < r[j].seq
      <3>1. i \in 1 .. Len(q)
        BY <1>1, <2>1, <2>5
      <3>2. CASE j \in 1 .. Len(q)
        BY <1>1, <1>2, <2>5, <3>1, <3>2
      <3>3. CASE j = Len(q) + 1
        BY <1>1, <1>2, <1>4, <2>5, <3>1, <3>3
      <3> QED
        BY <2>1, <3>2, <3>3
    <2> QED
      BY <2>3, <2>4, <2>5, NumberedPlaces
  <1> QED
    BY <1>3, <1>4 DEF r

\* The first frame of a numbered sequence, if it is a state, has the first number.
LEMMA NumberedTail ==
  ASSUME NEW n \in Nat, NEW q \in Seq(FrameOf(n)), q # <<>>,
         NEW lo \in Nat, NEW hi \in Nat, Numbered(q, lo, hi)
  PROVE  /\ Head(q).type = "ack" => Numbered(Tail(q), lo, hi)
         /\ Head(q).type = "state" =>
               Head(q).seq = lo /\ lo <= hi /\ Numbered(Tail(q), lo + 1, hi)
  <1> DEFINE r == Tail(q)
  <1>1. /\ Len(q) = Len(r) + 1 /\ Len(r) \in Nat
        /\ \A i \in 1 .. Len(r) : r[i] = q[i + 1]
        /\ \A i \in 1 .. Len(q) : q[i] \in FrameOf(n)
        /\ Head(q) = q[1]
    OBVIOUS
  <1> HIDE DEF r
  <1>2. /\ \A i \in 1 .. Len(q) : q[i].type = "state" => q[i].seq \in lo .. hi
        /\ \A k \in lo .. hi : \E i \in 1 .. Len(q) : q[i].type = "state" /\ q[i].seq = k
        /\ \A i, j \in 1 .. Len(q) :
              (q[i].type = "state" /\ q[j].type = "state" /\ i < j) => q[i].seq < q[j].seq
    BY NumberedPlaces
  <1>3. \A i \in 1 .. Len(r) : i + 1 \in 1 .. Len(q) /\ r[i] = q[i + 1]
    BY <1>1
  <1>4. \A i \in 1 .. Len(q) : i = 1 \/ (i - 1 \in 1 .. Len(r) /\ r[i - 1] = q[i])
    BY <1>1
  <1>5. ASSUME NEW i \in 1 .. Len(r), NEW j \in 1 .. Len(r),
               r[i].type = "state", r[j].type = "state", i < j
        PROVE  r[i].seq < r[j].seq
    <2>1. /\ i + 1 \in 1 .. Len(q) /\ r[i] = q[i + 1]
          /\ j + 1 \in 1 .. Len(q) /\ r[j] = q[j + 1]
      BY <1>3
    <2>2. i + 1 < j + 1
      BY <1>1, <1>5
    <2> QED
      BY <1>2, <1>5, <2>1, <2>2
  <1>6. 1 \in 1 .. Len(q)
    BY <1>1
  <1>7. ASSUME q[1].type = "ack" PROVE Numbered(r, lo, hi)
    <2>1. \A i \in 1 .. Len(r) : r[i].type = "state" => r[i].seq \in lo .. hi
      BY <1>2, <1>3
    <2>2. ASSUME NEW k \in lo .. hi
          PROVE  \E i \in 1 .. Len(r) : r[i].type = "state" /\ r[i].seq = k
      <3>1. PICK i \in 1 .. Len(q) : q[i].type = "state" /\ q[i].seq = k
        BY <1>2
      <3>2. i # 1
        BY <1>7, <3>1
      <3> QED
        BY <1>4, <3>1, <3>2
    <2> QED
      BY <1>5, <2>1, <2>2, NumberedPlaces
  <1>8. ASSUME q[1].type = "state"
        PROVE  q[1].seq = lo /\ lo <= hi /\ Numbered(r, lo + 1, hi)
    <2>1. q[1].seq \in lo .. hi
      BY <1>2, <1>6, <1>8
    <2>2. PICK i \in 1 .. Len(q) : q[i].type = "state" /\ q[i].seq = lo
      BY <1>2, <2>1
    <2>3. q[1].seq = lo
      <3>1. CASE i = 1
        BY <2>2, <3>1
      <3>2. CASE i # 1
        <4>1. q[1].seq < q[i].seq
          BY <1>2, <1>6, <1>8, <2>2, <3>2
        <4> QED
          BY <2>1, <2>2, <4>1
      <3> QED
        BY <3>1, <3>2
    <2>4. ASSUME NEW j \in 1 .. Len(r), r[j].type = "state" PROVE r[j].seq \in lo + 1 .. hi
      <3>1. j + 1 \in 1 .. Len(q) /\ r[j] = q[j + 1] /\ 1 < j + 1
        BY <1>3, <2>4
      <3>2. q[1].seq < q[j + 1].seq /\ q[j + 1].seq \in lo .. hi
        BY <1>2, <1>6, <1>8, <2>4, <3>1
      <3> QED
        BY <2>3, <3>1, <3>2
    <2>5. ASSUME NEW k \in lo + 1 .. hi
          PROVE  \E j \in 1 .. Len(r) : r[j].type = "state" /\ r[j].seq = k
      <3>1. PICK j \in 1 .. Len(q) : q[j].type = "state" /\ q[j].seq = k
        BY <1>2
      <3>2. j # 1
        BY <2>3, <3>1
      <3> QED
        BY <1>4, <3>1, <3>2
    <2>6. Numbered(r, lo + 1, hi)
      BY <1>5, <2>4, <2>5, NumberedPlaces
    <2> QED
      BY <2>1, <2>3, <2>6
  <1> QED
    BY <1>1, <1>7, <1>8 DEF r

\* A sequence that goes on where another one ends.
LEMMA NumberedConcat ==
  ASSUME NEW n \in Nat, NEW p \in Seq(FrameOf(n)), NEW q \in Seq(FrameOf(n)),
         NEW lo \in Nat, NEW mid \in Nat, NEW hi \in Nat, lo <= mid + 1, mid <= hi,
         Numbered(p, lo, mid), Numbered(q, mid + 1, hi)
  PROVE  Numbered(p \o q, lo, hi)
  <1> DEFINE r == p \o q
  <1>1. /\ Len(r) = Len(p) + Len(q) /\ Len(p) \in Nat /\ Len(q) \in Nat
        /\ \A i \in 1 .. Len(p) : r[i] = p[i]
        /\ \A i \in 1 .. Len(q) : r[Len(p) + i] = q[i]
    OBVIOUS
  <1> HIDE DEF r
  <1>2. /\ \A i \in 1 .. Len(p) : p[i].type = "state" => p[i].seq \in lo .. mid
        /\ \A k \in lo .. mid : \E i \in 1 .. Len(p) : p[i].type = "state" /\ p[i].seq = k
        /\ \A i, j \in 1 .. Len(p) :
              (p[i].type = "state" /\ p[j].type = "state" /\ i < j) => p[i].seq < p[j].seq
    BY NumberedPlaces
  <1>3. /\ \A i \in 1 .. Len(q) : q[i].type = "state" => q[i].seq \in mid + 1 .. hi
        /\ \A k \in mid + 1 .. hi : \E i \in 1 .. Len(q) : q[i].type = "state" /\ q[i].seq = k
        /\ \A i, j \in 1 .. Len(q) :
              (q[i].type = "state" /\ q[j].type = "state" /\ i < j) => q[i].seq < q[j].seq
    BY NumberedPlaces
  <1>4. ASSUME NEW i \in 1 .. Len(r)
        PROVE  \/ i \in 1 .. Len(p) /\ r[i] = p[i]
               \/ i > Len(p) /\ i - Len(p) \in 1 .. Len(q) /\ r[i] = q[i - Len(p)]
    <2>1. CASE i \in 1 .. Len(p)
      BY <1>1, <2>1
    <2>2. CASE i \notin 1 .. Len(p)
      <3>1. i > Len(p) /\ i - Len(p) \in 1 .. Len(q) /\ Len(p) + (i - Len(p)) = i
        BY <1>1, <2>2
      <3> QED
        BY <1>1, <3>1
    <2> QED
      BY <2>1, <2>2
  <1>5. /\ \A i \in 1 .. Len(p) : i \in 1 .. Len(r)
        /\ \A i \in 1 .. Len(q) : Len(p) + i \in 1 .. Len(r)
    BY <1>1
  <1>6. ASSUME NEW i \in 1 .. Len(r), r[i].type = "state" PROVE r[i].seq \in lo .. hi
    <2>1. CASE i \in 1 .. Len(p) /\ r[i] = p[i]
      <3>1. r[i].seq \in lo .. mid
        BY <1>2, <1>6, <2>1
      <3> QED
        BY <3>1
    <2>2. CASE i - Len(p) \in 1 .. Len(q) /\ r[i] = q[i - Len(p)]
      <3>1. r[i].seq \in mid + 1 .. hi
        BY <1>3, <1>6, <2>2
      <3> QED
        BY <3>1
    <2> QED
      BY <1>4, <2>1, <2>2
  <1>7. ASSUME NEW k \in lo .. hi
        PROVE  \E i \in 1 .. Len(r) : r[i].type = "state" /\ r[i].seq = k
    <2>1. CASE k \in lo .. mid
      BY <1>1, <1>2, <1>5, <2>1
    <2>2. CASE k \in mid + 1 .. hi
      <3>1. PICK i \in 1 .. Len(q) : q[i].type = "state" /\ q[i].seq = k
        BY <1>3, <2>2
      <3>2. Len(p) + i \in 1 .. Len(r) /\ r[Len(p) + i] = q[i]
        BY <1>1, <1>5
      <3> QED
        BY <3>1, <3>2
    <2> QED
      BY <2>1, <2>2
  <1>8. ASSUME NEW i \in 1 .. Len(r), NEW j \in 1 .. Len(r),
               r[i].type = "state", r[j].type = "state", i < j
        PROVE  r[i].seq < r[j].seq
    <2>1. CASE j \in 1 .. Len(p)
      <3>1. i \in 1 .. Len(p) /\ r[i] = p[i] /\ r[j] = p[j]
        BY <1>1, <1>8, <2>1
      <3> QED
        BY <1>2, <1>8, <2>1, <3>1
    <2>2. CASE j \notin 1 .. Len(p) /\ i \in 1 .. Len(p)
      <3>1. r[i] = p[i] /\ p[i].seq \in lo .. mid
        BY <1>1, <1>2, <1>8, <2>2
      <3>2. j - Len(p) \in 1 .. Len(q) /\ r[j] = q[j - Len(p)]
        BY <1>4, <2>2
      <3>3. r[j].seq \in mid + 1 .. hi
        BY <1>3, <1>8, <3>2
      <3>4. \A x \in lo .. mid, y \in mid + 1 .. hi : x < y
        OBVIOUS
      <3> QED
        BY ONLY <3>1, <3>3, <3>4
    <2>3. CASE j \notin 1 .. Len(p) /\ i \notin 1 .. Len(p)
      <3> DEFINE a == i - Len(p)
                 b == j - Len(p)
      <3>1. a \in 1 .. Len(q) /\ r[i] = q[a] /\ b \in 1 .. Len(q) /\ r[j] = q[b]
        BY <1>4, <2>3
      <3>2. a < b
        BY <1>1, <1>8
      <3> HIDE DEF a, b
      <3>3. q[a].type = "state" /\ q[b].type = "state"
        BY <1>8, <3>1
      <3>4. \A k, l \in 1 .. Len(q) :
               (q[k].type = "state" /\ q[l].type = "state" /\ k < l) => q[k].seq < q[l].seq
        BY <1>3
      <3>5. q[a].seq < q[b].seq
        BY ONLY <3>1, <3>2, <3>3, <3>4
      <3> QED
        BY <3>1, <3>5
    <2> QED
      BY <2>1, <2>2, <2>3
  <1> QED
    BY <1>6, <1>7, <1>8, NumberedPlaces DEF r

-----------------------------------------------------------------------------
(* Types *)

\* The variables of each part of the invariant.
daemonPart  == <<origin, cur>>
mainPart    == <<origin, mu, wmu, cancelled, main, pend, queued, mclip, inflight>>
readerPart  == <<origin, reader, rframe>>
pipePart    == <<origin, up, down, writes>>
gatewayPart == <<origin, gmain, gclip, sent, polls>>
countPart   == <<origin, faults, refused>>

\* A part whose variables do not change goes on to hold.
LEMMA Parts ==
  ASSUME DuplexTypes
  PROVE  /\ UNCHANGED daemonPart => DaemonInv'
         /\ UNCHANGED <<cur, relay>> => RelayInv'
         /\ UNCHANGED mainPart => MainInv'
         /\ UNCHANGED readerPart => ReaderInv'
         /\ UNCHANGED pipePart => PipeInv'
         /\ UNCHANGED gatewayPart => GatewayInv'
         /\ UNCHANGED countPart => CountInv'
  <1> USE DEF DuplexTypes, Copied
  <1>1. UNCHANGED daemonPart => DaemonInv'
    BY DEF daemonPart, DaemonInv
  <1>2. UNCHANGED <<cur, relay>> => RelayInv'
    BY DEF RelayInv
  <1>3. UNCHANGED mainPart => MainInv'
    BY DEF mainPart, MainInv
  <1>4. UNCHANGED readerPart => ReaderInv'
    BY DEF readerPart, ReaderInv
  <1>5. UNCHANGED pipePart => PipeInv'
    BY DEF pipePart, PipeInv
  <1>6. UNCHANGED gatewayPart => GatewayInv'
    BY DEF gatewayPart, GatewayInv
  <1>7. UNCHANGED countPart => CountInv'
    BY DEF countPart, CountInv
  <1> QED
    BY <1>1, <1>2, <1>3, <1>4, <1>5, <1>6, <1>7

\* The numbers the invariant counts with.
LEMMA Numbers ==
  ASSUME DuplexTypes
  PROVE  /\ Copied \in Nat /\ MaxClip \in Nat /\ MaxFault \in Nat
         /\ MaxPoll \in Nat \ {0} /\ Pipe \in Nat \ {0}
         /\ cur["near"] \in 0 .. Copied /\ cur["far"] \in 0 .. Copied
  <1>1. Copied \in Nat
    BY DEF DuplexTypes, DaemonInv, Copied
  <1>2. cur["near"] \in 0 .. Copied /\ cur["far"] \in 0 .. Copied
    BY DEF DuplexTypes, DaemonInv, Host
  <1> QED
    BY <1>1, <1>2, SshDuplexAssumption

\* The frames that are written are frames, and a frame is not the lack of one.
LEMMA FrameTypes ==
  ASSUME NEW n \in Nat
  PROVE  /\ \A c \in 1 .. n, k \in Nat : State(c, k) \in FrameOf(n)
         /\ \A c \in 1 .. n : Ack(c) \in FrameOf(n)
         /\ \A f \in FrameOf(n) : f.clip \in 1 .. n /\ f.type \in {"state", "ack"} /\ f.seq \in Nat
         /\ NoFrame \notin FrameOf(n)
         /\ FrameOf(n) \subseteq FrameOf(n + 1)
  <1>1. \A c \in 1 .. n, k \in Nat : State(c, k) \in FrameOf(n)
    BY DEF State, FrameOf
  <1>2. \A c \in 1 .. n : Ack(c) \in FrameOf(n)
    BY DEF Ack, FrameOf
  <1>3. \A f \in FrameOf(n) : f.clip \in 1 .. n /\ f.type \in {"state", "ack"} /\ f.seq \in Nat
    BY DEF FrameOf
  <1>4. NoFrame \notin FrameOf(n)
    BY DEF NoFrame, FrameOf
  <1>5. FrameOf(n) \subseteq FrameOf(n + 1)
    BY DEF FrameOf
  <1> QED
    BY <1>1, <1>2, <1>3, <1>4, <1>5

\* Nothing has been copied and no stream was opened.
LEMMA DuplexInit == Init => DuplexInv
  <1> SUFFICES ASSUME Init PROVE DuplexInv
    OBVIOUS
  <1> USE SshDuplexAssumption DEF Init, Copied
  <1>1. DaemonInv /\ RelayInv
    BY DEF DaemonInv, RelayInv, Host
  <1>2. MainInv
    <2>1. 0 \in 0 .. Copied
      OBVIOUS
    <2>2. mu = "free" /\ wmu = "free" /\ cancelled = FALSE /\ main = "connect"
      OBVIOUS
    <2>3. pend = 0 /\ queued = 0 /\ mclip = 0 /\ inflight = {}
      OBVIOUS
    <2> QED
      BY ONLY <2>1, <2>2, <2>3 DEF MainInv
  <1>3. ReaderInv
    BY DEF ReaderInv
  <1>4. PipeInv
    BY DEF PipeInv
  <1>5. GatewayInv /\ CountInv
    BY DEF GatewayInv, CountInv
  <1>6. ClosedInv
    BY DEF ClosedInv
  <1>7. OrderInv
    <2>1. Numbered(<<>>, 1, 0)
      BY NumberedEmpty
    <2> QED
      BY <2>1 DEF OrderInv, Gone
  <1> QED
    BY <1>1, <1>2, <1>3, <1>4, <1>5, <1>6, <1>7 DEF DuplexInv, DuplexTypes

\* Copying a clip makes room for it everywhere.
LEMMA TypesCopy ==
  ASSUME DuplexTypes, NEW h \in Host, Copy(h)
  PROVE  DuplexTypes'
  <1> USE DEF Copied
  <1>1. /\ Copied \in Nat /\ Copied < MaxClip /\ Copied' = Copied + 1 /\ MaxClip \in Nat
        /\ origin' \in Seq(Host)
    BY Numbers DEF Copy, DuplexTypes, DaemonInv
  <1>2. 0 .. Copied \subseteq 0 .. Copied' /\ 1 .. Copied \subseteq 1 .. Copied'
    BY <1>1
  <1>3. FrameOf(Copied) \subseteq FrameOf(Copied')
    BY <1>1, FrameTypes
  <1>4. cur \in [Host -> 0 .. Copied] /\ cur' = [cur EXCEPT ![h] = Copied']
    BY DEF Copy, DuplexTypes, DaemonInv
  <1>5. DaemonInv'
    BY <1>1, <1>2, <1>4 DEF DaemonInv
  <1>6. RelayInv'
    <2>1. cur'["near"] \in {cur["near"], Copied'} /\ cur["near"] \in 0 .. Copied
      BY <1>4 DEF Host
    <2> QED
      BY <1>1, <2>1 DEF Copy, DuplexTypes, RelayInv
  <1>7. MainInv'
    <2>1. /\ UNCHANGED <<mu, wmu, cancelled, main, mclip, inflight>>
          /\ pend' \in {pend, Copied'} /\ queued' \in {queued, Copied'}
      BY DEF Copy
    <2>2. Copied' \in 0 .. Copied'
      BY <1>1
    <2> QED
      BY <1>2, <2>1, <2>2 DEF DuplexTypes, MainInv
  <1>8. ReaderInv'
    BY <1>3 DEF Copy, inbound, DuplexTypes, ReaderInv
  <1>9. PipeInv'
    <2>1. Seq(FrameOf(Copied)) \subseteq Seq(FrameOf(Copied'))
      BY <1>3, SeqMonotonic
    <2> QED
      BY <2>1 DEF Copy, gateway, DuplexTypes, PipeInv
  <1>10. GatewayInv' /\ CountInv'
    BY <1>2 DEF Copy, gateway, DuplexTypes, GatewayInv, CountInv
  <1> QED
    BY <1>5, <1>6, <1>7, <1>8, <1>9, <1>10 DEF DuplexTypes

\* Publish of a received clip, and Refresh.
LEMMA TypesManager ==
  ASSUME DuplexTypes, Relay \/ Refresh
  PROVE  DuplexTypes'
  <1> USE DEF daemonPart, mainPart, readerPart, pipePart, gatewayPart, countPart,
      inbound, gateway
  <1>1. CASE Relay
    <2>1. RelayInv'
      BY <1>1, Numbers DEF Relay, DuplexTypes, RelayInv
    <2> QED
      BY <1>1, <2>1, Parts DEF Relay, DuplexTypes
  <1>2. CASE Refresh
    <2>1. MainInv'
      BY <1>2 DEF Refresh, DuplexTypes, MainInv, Copied
    <2>2. CountInv'
      BY <1>2, Numbers DEF Refresh, Fault, DuplexTypes, CountInv, Copied
    <2> QED
      BY <1>2, <2>1, <2>2, Parts DEF Refresh, DuplexTypes
  <1> QED
    BY <1>1, <1>2

\* The main loop of the session.
LEMMA TypesMain ==
  ASSUME DuplexTypes, ClosedInv, MainStep \/ AckLate
  PROVE  DuplexTypes'
  <1> USE DEF daemonPart, mainPart, readerPart, pipePart, gatewayPart, countPart,
      inbound, gateway
  <1>1. CASE Connect
    <2>1. MainInv'
      <3>1. Copied' = Copied /\ 0 \in 0 .. Copied
        BY <1>1, Numbers DEF Connect, Copied
      <3>2. main' = IF pend = 0 THEN "select" ELSE "mark"
        BY <1>1 DEF Connect
      <3>3. mclip' = pend /\ pend' = pend /\ queued' \in {0, queued} /\ cancelled' = FALSE
        BY <1>1 DEF Connect
      <3>4. UNCHANGED <<mu, wmu, inflight>>
        BY <1>1 DEF Connect
      <3> QED
        BY <3>1, <3>2, <3>3, <3>4 DEF DuplexTypes, MainInv
    <2>2. ReaderInv'
      BY <1>1 DEF Connect, DuplexTypes, ReaderInv, Copied
    <2>3. GatewayInv'
      BY <1>1, Numbers DEF Connect, ClosedInv, DuplexTypes, GatewayInv, Copied
    <2> QED
      BY <1>1, <2>1, <2>2, <2>3, Parts DEF Connect, DuplexTypes
  <1>2. CASE Mark
    <2>1. MainInv'
      BY <1>2 DEF Mark, DuplexTypes, MainInv, Copied
    <2> QED
      BY <1>2, <2>1, Parts DEF Mark, DuplexTypes
  <1>3. CASE LockWrite
    <2>1. MainInv'
      BY <1>3 DEF LockWrite, DuplexTypes, MainInv, Copied
    <2> QED
      BY <1>3, <2>1, Parts DEF LockWrite, DuplexTypes
  <1>4. CASE WriteState
    <2>1. mclip \in 1 .. Copied
      BY <1>4, Numbers DEF WriteState, DuplexTypes, MainInv
    <2>2. MainInv'
      BY <1>4, <2>1 DEF WriteState, DuplexTypes, MainInv, Copied
    <2>3. State(mclip, 0) \in FrameOf(Copied)
      BY <2>1, Numbers, FrameTypes
    <2>4. PipeInv'
      BY <1>4, <2>3, Numbers DEF WriteState, DuplexTypes, PipeInv, Copied
    <2> QED
      BY <1>4, <2>2, <2>4, Parts DEF WriteState, DuplexTypes
  <1>5. CASE WriteFails
    <2>1. MainInv'
      BY <1>5 DEF WriteFails, DuplexTypes, MainInv, Copied
    <2>2. CountInv'
      BY <1>5, Numbers DEF WriteFails, WriteGivesUp, Deadline, Fault, DuplexTypes, CountInv,
         Copied
    <2> QED
      BY <1>5, <2>1, <2>2, Parts DEF WriteFails, DuplexTypes
  <1>6. CASE TakeQueued
    <2>1. MainInv'
      BY <1>6, Numbers DEF TakeQueued, DuplexTypes, MainInv, Copied
    <2> QED
      BY <1>6, <2>1, Parts DEF TakeQueued, DuplexTypes
  <1>7. CASE HandleAck
    <2>1. MainInv'
      <3>1. Copied' = Copied /\ 0 \in 0 .. Copied
        BY <1>7, Numbers DEF HandleAck, Copied
      <3>2. inflight' \subseteq inflight /\ pend' \in {0, pend}
        BY <1>7 DEF HandleAck
      <3>3. UNCHANGED <<mu, wmu, cancelled, main, queued, mclip>>
        BY <1>7 DEF HandleAck
      <3> QED
        BY <3>1, <3>2, <3>3 DEF DuplexTypes, MainInv
    <2>2. ReaderInv'
      BY <1>7 DEF HandleAck, DuplexTypes, ReaderInv, Copied
    <2> QED
      BY <1>7, <2>1, <2>2, Parts DEF HandleAck, DuplexTypes
  <1>8. CASE AckOverdue \/ AckLate
    <2>1. MainInv'
      BY <1>8 DEF AckOverdue, AckLate, AckTimeout, DuplexTypes, MainInv, Copied
    <2>2. CountInv'
      <3>1. UNCHANGED <<origin, refused>>
        BY <1>8 DEF AckOverdue, AckLate, AckTimeout
      <3>2. faults' = faults \/ (faults < MaxFault /\ faults' = faults + 1)
        BY <1>8 DEF AckOverdue, AckLate, Fault
      <3> QED
        BY <3>1, <3>2, Numbers DEF DuplexTypes, CountInv, Copied
    <2> QED
      BY <1>8, <2>1, <2>2, Parts DEF AckOverdue, AckLate, AckTimeout, DuplexTypes
  <1>9. CASE Leave
    <2>1. MainInv'
      BY <1>9 DEF Leave, DuplexTypes, MainInv, Copied
    <2> QED
      BY <1>9, <2>1, Parts DEF Leave, DuplexTypes
  <1>10. CASE EndAttempt
    <2>1. MainInv'
      BY <1>10, Numbers DEF EndAttempt, DuplexTypes, MainInv, Copied
    <2>2. ReaderInv'
      BY <1>10 DEF EndAttempt, DuplexTypes, ReaderInv, Copied
    <2>3. PipeInv'
      BY <1>10, Numbers DEF EndAttempt, DuplexTypes, PipeInv, Copied
    <2>4. GatewayInv'
      BY <1>10, Numbers DEF EndAttempt, DuplexTypes, GatewayInv, Copied
    <2> QED
      BY <1>10, <2>1, <2>2, <2>3, <2>4, Parts DEF EndAttempt, DuplexTypes
  <1> QED
    BY <1>1, <1>2, <1>3, <1>4, <1>5, <1>6, <1>7, <1>8, <1>9, <1>10 DEF MainStep

\* The reader of the session.
LEMMA TypesReader ==
  ASSUME DuplexTypes, ReaderStep
  PROVE  DuplexTypes'
  <1> USE DEF daemonPart, mainPart, readerPart, pipePart, gatewayPart, countPart,
      near, gateway
  <1>1. CASE ReadFrame
    <2>1. down \in Seq(FrameOf(Copied)) /\ down # <<>>
      BY <1>1 DEF ReadFrame, DuplexTypes, PipeInv
    <2>2. Head(down) \in FrameOf(Copied) /\ Tail(down) \in Seq(FrameOf(Copied))
          /\ Len(Tail(down)) = Len(down) - 1 /\ Len(down) \in Nat
      BY <2>1
    <2>3. ReaderInv'
      BY <1>1, <2>2 DEF ReadFrame, DuplexTypes, ReaderInv, Copied
    <2>4. PipeInv'
      BY <1>1, <2>2, Numbers DEF ReadFrame, DuplexTypes, PipeInv, Copied
    <2> QED
      BY <1>1, <2>3, <2>4, Parts DEF ReadFrame, DuplexTypes
  <1>2. CASE ReadEOF
    <2>1. ReaderInv'
      BY <1>2 DEF ReadEOF, DuplexTypes, ReaderInv, Copied
    <2> QED
      BY <1>2, <2>1, Parts DEF ReadEOF, DuplexTypes
  <1>3. CASE LockManager
    <2>1. MainInv'
      BY <1>3 DEF LockManager, DuplexTypes, MainInv, Copied
    <2>2. ReaderInv'
      BY <1>3 DEF LockManager, DuplexTypes, ReaderInv, Copied
    <2> QED
      BY <1>3, <2>1, <2>2, Parts DEF LockManager, DuplexTypes
  <1>4. CASE ApplyNear
    <2>1. rframe \in FrameOf(Copied) /\ UNCHANGED origin
      BY <1>4 DEF ApplyNear, DuplexTypes, ReaderInv
    <2>2. rframe.clip \in 1 .. Copied
      BY <2>1, FrameTypes, Numbers
    <2> DEFINE c == rframe.clip
    <2>3. cur \in [Host -> 0 .. Copied] /\ "near" \in Host
      BY DEF DuplexTypes, DaemonInv, Host
    <2>4. cur' = [cur EXCEPT !["near"] = IF c > cur["near"] THEN c ELSE cur["near"]]
      BY <1>4 DEF ApplyNear, Received
    <2>5. c \in 0 .. Copied
      BY <2>2, Numbers
    <2>6. relay' = IF c > cur["near"] THEN relay + 1 ELSE relay
      BY <1>4 DEF ApplyNear
    <2> HIDE DEF c
    <2>7. DaemonInv'
      BY <2>1, <2>3, <2>4, <2>5 DEF DuplexTypes, DaemonInv, Copied
    <2>8. RelayInv'
      <3>1. cur'["near"] = IF c > cur["near"] THEN c ELSE cur["near"]
        BY <2>3, <2>4
      <3> QED
        BY <2>5, <2>6, <3>1, Numbers DEF DuplexTypes, RelayInv
    <2>9. MainInv'
      BY <1>4 DEF ApplyNear, DuplexTypes, MainInv, Copied
    <2>10. ReaderInv'
      BY <1>4, <2>1 DEF ApplyNear, DuplexTypes, ReaderInv, Copied
    <2> QED
      BY <1>4, <2>7, <2>8, <2>9, <2>10, Parts DEF ApplyNear, DuplexTypes
  <1>5. CASE LockAck
    <2>1. MainInv'
      BY <1>5 DEF LockAck, DuplexTypes, MainInv, Copied
    <2>2. ReaderInv'
      BY <1>5 DEF LockAck, DuplexTypes, ReaderInv, Copied
    <2> QED
      BY <1>5, <2>1, <2>2, Parts DEF LockAck, DuplexTypes
  <1>6. CASE WriteAck
    <2>1. rframe \in FrameOf(Copied)
      BY <1>6 DEF WriteAck, DuplexTypes, ReaderInv
    <2>2. Ack(rframe.clip) \in FrameOf(Copied)
      BY <2>1, FrameTypes, Numbers
    <2>3. PipeInv'
      BY <1>6, <2>2, Numbers DEF WriteAck, DuplexTypes, PipeInv, Copied
    <2>4. MainInv'
      BY <1>6 DEF WriteAck, DuplexTypes, MainInv, Copied
    <2>5. ReaderInv'
      BY <1>6 DEF WriteAck, DuplexTypes, ReaderInv, Copied
    <2> QED
      BY <1>6, <2>3, <2>4, <2>5, Parts DEF WriteAck, DuplexTypes
  <1>7. CASE AckWriteFails
    <2>1. MainInv'
      BY <1>7 DEF AckWriteFails, DuplexTypes, MainInv, Copied
    <2>2. ReaderInv'
      BY <1>7 DEF AckWriteFails, DuplexTypes, ReaderInv, Copied
    <2>3. CountInv'
      BY <1>7, Numbers DEF AckWriteFails, WriteGivesUp, Deadline, Fault, DuplexTypes, CountInv,
         Copied
    <2> QED
      BY <1>7, <2>1, <2>2, <2>3, Parts DEF AckWriteFails, DuplexTypes
  <1> QED
    BY <1>1, <1>2, <1>3, <1>4, <1>5, <1>6, <1>7 DEF ReaderStep

\* The gateway, and the connection.
LEMMA TypesGateway ==
  ASSUME DuplexTypes, OrderInv,
         GatewayStep \/ PollFails \/ GatewayWriteTimesOut \/ StreamBreaks
  PROVE  DuplexTypes'
  <1> USE DEF daemonPart, mainPart, readerPart, pipePart, gatewayPart, countPart,
      near, inbound
  <1>a. /\ up \in Seq(FrameOf(Copied)) /\ down \in Seq(FrameOf(Copied))
        /\ writes \in Seq(FrameOf(Copied)) /\ Len(up) <= Pipe /\ Len(down) <= Pipe
    BY DEF DuplexTypes, PipeInv
  <1>b. \A n \in 0 .. Copied : n # 0 => n \in 1 .. Copied
    BY Numbers
  <1>1. CASE GatewayTakes
    <2>1. /\ Head(up) \in FrameOf(Copied) /\ Tail(up) \in Seq(FrameOf(Copied))
          /\ Len(Tail(up)) = Len(up) - 1 /\ Len(up) \in Nat
      BY <1>a, <1>1 DEF GatewayTakes
    <2>2. Head(up).clip \in 1 .. Copied
      BY <2>1, FrameTypes, Numbers
    <2>3. Head(up).clip \in 0 .. Copied /\ Head(up).clip # 0
      BY <2>2, Numbers
    <2>4. PipeInv'
      BY <1>a, <1>1, <2>1, Numbers DEF GatewayTakes, PipeInv, Copied
    <2>5. GatewayInv'
      BY <1>1, <2>3 DEF GatewayTakes, DuplexTypes, GatewayInv, Copied
    <2> QED
      BY <1>1, <2>4, <2>5, Parts DEF GatewayTakes, DuplexTypes
  <1>2. CASE GatewayApplies
    <2>1. gclip \in 1 .. Copied
      BY <1>b, <1>2 DEF GatewayApplies, DuplexTypes, GatewayInv
    <2>2. Ack(gclip) \in FrameOf(Copied)
      BY <2>1, FrameTypes, Numbers
    <2>3. PipeInv'
      BY <1>a, <1>2, <2>2 DEF GatewayApplies, PipeInv, Copied
    <2>4. GatewayInv'
      BY <1>2 DEF GatewayApplies, DuplexTypes, GatewayInv, Copied
    <2>5. DaemonInv' /\ RelayInv'
      <3>1. cur \in [Host -> 0 .. Copied]
        BY DEF DuplexTypes, DaemonInv
      <3>2. gclip \in 0 .. Copied
        BY DEF DuplexTypes, GatewayInv
      <3>3. cur' \in [Host -> 0 .. Copied] /\ cur'["near"] = cur["near"]
        BY <1>2, <3>1, <3>2 DEF GatewayApplies, Received, Host
      <3> QED
        BY <1>2, <3>3 DEF GatewayApplies, DuplexTypes, DaemonInv, RelayInv, Copied
    <2>6. CountInv'
      <3>1. Copied' = Copied /\ refused' \in {refused, refused \cup {gclip}}
        BY <1>2 DEF GatewayApplies, Copied
      <3>2. faults' = faults \/ (faults < MaxFault /\ faults' = faults + 1)
        BY <1>2 DEF GatewayApplies, Fault
      <3>3. faults' \in 0 .. MaxFault
        BY <3>2, Numbers DEF DuplexTypes, CountInv
      <3>4. refused' \subseteq 1 .. Copied
        BY <2>1, <3>1 DEF DuplexTypes, CountInv
      <3> QED
        BY <3>1, <3>3, <3>4 DEF CountInv
    <2> QED
      BY <1>2, <2>3, <2>4, <2>5, <2>6, Parts DEF GatewayApplies, DuplexTypes
  <1>3. CASE Publish
    <2>1. cur["far"] \in 0 .. Copied /\ cur["far"] # 0
      BY <1>3, Numbers DEF Publish, Unsent
    <2>2. gclip' = cur["far"] /\ gseq' = gseq + 1 /\ gseq \in Nat /\ UNCHANGED origin
      BY <1>3 DEF Publish, NextNumber, OrderInv
    <2>3. State(gclip', gseq') \in FrameOf(Copied)
      <3>1. gclip' \in 1 .. Copied /\ gseq' \in Nat
        BY <1>b, <2>1, <2>2
      <3>2. Copied \in Nat
        BY Numbers
      <3> QED
        BY <3>1, <3>2, FrameTypes
    <2>4. PipeInv'
      BY <1>a, <1>3, <2>3 DEF Publish, PipeInv, Copied
    <2>5. GatewayInv'
      BY <1>3, <2>1, <2>2 DEF Publish, DuplexTypes, GatewayInv, Copied
    <2> QED
      BY <1>3, <2>4, <2>5, Parts DEF Publish, DuplexTypes
  <1>4. CASE IdleTick
    <2>1. GatewayInv'
      BY <1>4, Numbers DEF IdleTick, DuplexTypes, GatewayInv, Copied
    <2> QED
      BY <1>4, <2>1, Parts DEF IdleTick, DuplexTypes
  <1>5. CASE GatewayWrites
    <2>1. /\ Head(writes) \in FrameOf(Copied) /\ Tail(writes) \in Seq(FrameOf(Copied))
      BY <1>a, <1>5 DEF GatewayWrites
    <2>2. PipeInv'
      BY <1>a, <1>5, <2>1, Numbers DEF GatewayWrites, PipeInv, Copied
    <2>3. gmain = "publish" => gclip \in 1 .. Copied
      BY <1>b DEF DuplexTypes, GatewayInv
    <2>4. GatewayInv'
      <3>1. UNCHANGED <<gmain, gclip, sent, polls>> \/
            /\ gmain' = "select" /\ gclip' = 0 /\ gmain \in {"ack", "publish"}
            /\ sent' = IF gmain = "publish" THEN sent \cup {gclip} ELSE sent
            /\ polls' = IF gmain = "publish" THEN 0 ELSE polls
        BY <1>5 DEF GatewayWrites
      <3>2. Copied' = Copied
        BY <1>5 DEF GatewayWrites, Copied
      <3> QED
        <4>1. CASE UNCHANGED <<gmain, gclip, sent, polls>>
          BY <3>2, <4>1 DEF DuplexTypes, GatewayInv
        <4>2. CASE gmain' = "select" /\ gclip' = 0 /\ gmain = "ack" /\ UNCHANGED <<sent, polls>>
          BY <3>2, <4>2, Numbers DEF DuplexTypes, GatewayInv
        <4>3. CASE /\ gmain' = "select" /\ gclip' = 0 /\ gmain = "publish"
                   /\ sent' = sent \cup {gclip} /\ polls' = 0
          <5>1. sent' \subseteq 1 .. Copied
            BY <2>3, <4>3 DEF DuplexTypes, GatewayInv
          <5>2. 0 \in 0 .. Copied /\ 0 \in 0 .. MaxPoll /\ MaxPoll # 0
            BY Numbers
          <5> QED
            BY <3>2, <4>3, <5>1, <5>2 DEF GatewayInv
        <4> QED
          BY <3>1, <4>1, <4>2, <4>3
    <2> QED
      BY <1>5, <2>2, <2>4, Parts DEF GatewayWrites, DuplexTypes
  <1>6. CASE PollFails
    <2>1. GatewayInv'
      BY <1>6, Numbers DEF PollFails, PollFailed, DuplexTypes, GatewayInv, Copied
    <2>2. CountInv'
      BY <1>6, Numbers DEF PollFails, Fault, DuplexTypes, CountInv, Copied
    <2> QED
      BY <1>6, <2>1, <2>2, Parts DEF PollFails, DuplexTypes
  <1>7. CASE GatewayWriteTimesOut
    <2>1. GatewayInv'
      BY <1>7, Numbers DEF GatewayWriteTimesOut, PollFailed, DuplexTypes, GatewayInv, Copied
    <2>2. CountInv'
      BY <1>7, Numbers DEF GatewayWriteTimesOut, Deadline, Fault, DuplexTypes, CountInv, Copied
    <2> QED
      BY <1>7, <2>1, <2>2, Parts DEF GatewayWriteTimesOut, DuplexTypes
  <1>8. CASE StreamBreaks
    <2>1. GatewayInv'
      BY <1>8 DEF StreamBreaks, DuplexTypes, GatewayInv, Copied
    <2>2. CountInv'
      BY <1>8, Numbers DEF StreamBreaks, Fault, DuplexTypes, CountInv, Copied
    <2>3. PipeInv'
      BY <1>a, <1>8, Numbers DEF StreamBreaks, PipeInv, Copied
    <2> QED
      BY <1>8, <2>1, <2>2, <2>3, Parts DEF StreamBreaks, DuplexTypes
  <1> QED
    BY <1>1, <1>2, <1>3, <1>4, <1>5, <1>6, <1>7, <1>8 DEF GatewayStep

\* No step of either side leaves the types.
LEMMA TypesStep == DuplexInv /\ [Next]_vars => DuplexTypes'
  <1> SUFFICES ASSUME DuplexInv, [Next]_vars PROVE DuplexTypes'
    OBVIOUS
  <1>1. CASE UNCHANGED vars
    BY <1>1, Parts DEF vars, near, inbound, gateway, daemonPart, mainPart, readerPart, pipePart,
       gatewayPart, countPart, DuplexInv, DuplexTypes
  <1>2. CASE Next
    BY <1>2, TypesCopy, TypesManager, TypesMain, TypesReader, TypesGateway DEF Next, DuplexInv
  <1> QED
    BY <1>1, <1>2

-----------------------------------------------------------------------------
(* Numbers of the frames *)

\* Between two attempts nothing runs.
LEMMA ClosedStep == DuplexInv /\ [Next]_vars => ClosedInv'
  <1> SUFFICES ASSUME DuplexInv, [Next]_vars PROVE ClosedInv'
    OBVIOUS
  <1> USE DEF DuplexInv, ClosedInv
  <1>1. CASE UNCHANGED <<main, reader, next, gmain, gseq, polls, down, writes>>
    BY <1>1
  <1>2. ASSUME NEW h \in Host, Copy(h) PROVE ClosedInv'
    BY <1>1, <1>2 DEF Copy, inbound, gateway
  <1>3. CASE Relay \/ Refresh \/ UNCHANGED vars
    BY <1>1, <1>3 DEF Relay, Refresh, vars, near, inbound, gateway
  <1>4. CASE MainStep \/ AckLate
    <2>1. CASE HandleAck
      BY <2>1 DEF HandleAck
    <2>2. CASE EndAttempt
      BY <2>2 DEF EndAttempt
    <2>3. CASE ~HandleAck /\ ~EndAttempt
      BY <1>4, <2>3 DEF MainStep, AckLate, Connect, Mark, LockWrite, WriteState, WriteFails,
         TakeQueued, AckOverdue, AckTimeout, Leave
    <2> QED
      BY <2>1, <2>2, <2>3
  <1>5. CASE ReaderStep
    <2>1. reader # "ended" /\ UNCHANGED main
      BY <1>5 DEF ReaderStep, ReadFrame, ReadEOF, LockManager, ApplyNear, LockAck, WriteAck,
         AckWriteFails, near
    <2> QED
      BY <2>1
  <1>6. CASE GatewayStep \/ PollFails \/ GatewayWriteTimesOut \/ StreamBreaks
    <2>1. gmain # "exited" /\ UNCHANGED main
      BY <1>6 DEF GatewayStep, GatewayTakes, GatewayApplies, Publish, IdleTick, GatewayWrites,
         PollFails, GatewayWriteTimesOut, StreamBreaks, near
    <2> QED
      BY <2>1
  <1> QED
    BY <1>2, <1>3, <1>4, <1>5, <1>6 DEF Next

\* Every step takes the next number or leaves the numbers alone.
LEMMA OrderStep == DuplexInv /\ [Next]_vars => OrderInv'
  <1> SUFFICES ASSUME DuplexInv, [Next]_vars PROVE OrderInv'
    OBVIOUS
  <1>a. DuplexTypes /\ ClosedInv /\ OrderInv
    BY DEF DuplexInv
  <1>b. /\ Copied \in Nat
        /\ down \in Seq(FrameOf(Copied)) /\ writes \in Seq(FrameOf(Copied))
    BY <1>a, Numbers DEF DuplexTypes, PipeInv
  <1>c. next \in Nat \ {0} /\ gseq \in Nat
    BY <1>a DEF OrderInv
  <1>d. PICK mid \in Nat : /\ next <= mid + 1 /\ mid <= gseq
                           /\ Numbered(down, next, mid)
                           /\ ~Gone => Numbered(writes, mid + 1, gseq)
    BY <1>a DEF OrderInv
  <1>1. CASE UNCHANGED <<next, gseq, down, writes>> /\ (Gone => Gone')
    BY <1>1, <1>c, <1>d DEF OrderInv
  <1>2. CASE UNCHANGED vars \/ Relay \/ Refresh \/ \E h \in Host : Copy(h)
    BY <1>1, <1>2 DEF vars, Relay, Refresh, Copy, inbound, gateway, Gone
  <1>3. CASE Connect
    <2>1. /\ next' = 1 /\ gseq' = 0 /\ down' = <<>> /\ writes' = <<>>
      BY <1>a, <1>3 DEF Connect, ClosedInv
    <2>2. Numbered(<<>>, 1, 0)
      BY NumberedEmpty
    <2> QED
      BY <2>1, <2>2 DEF OrderInv
  <1>4. CASE EndAttempt
    <2>1. /\ next' = 1 /\ gseq' = 0 /\ down' = <<>> /\ writes' = <<>>
      BY <1>4 DEF EndAttempt
    <2>2. Numbered(<<>>, 1, 0)
      BY NumberedEmpty
    <2> QED
      BY <2>1, <2>2 DEF OrderInv
  <1>5. CASE (MainStep \/ AckLate) /\ ~Connect /\ ~EndAttempt
    BY <1>1, <1>5 DEF MainStep, AckLate, Mark, LockWrite, WriteState, WriteFails, TakeQueued,
       HandleAck, AckOverdue, AckTimeout, Leave, inbound, gateway, Gone
  <1>6. CASE ReadFrame
    <2> DEFINE f == Head(down)
    <2>1. /\ down # <<>> /\ down' = Tail(down) /\ UNCHANGED <<gseq, writes, gmain>>
          /\ next' = IF f.type = "state" /\ f.seq = next THEN next + 1 ELSE next
      BY <1>6 DEF ReadFrame, gateway
    <2>2. f \in FrameOf(Copied)
      BY <1>b, <2>1
    <2>3. f.type \in {"state", "ack"}
      BY <1>b, <2>2, FrameTypes
    <2>4. /\ f.type = "ack" => Numbered(Tail(down), next, mid)
          /\ f.type = "state" => f.seq = next /\ next <= mid /\ Numbered(Tail(down), next + 1, mid)
      BY <1>b, <1>c, <1>d, <2>1, NumberedTail
    <2> HIDE DEF f
    <2>5. CASE f.type = "ack"
      <3>1. next' = next /\ Numbered(down', next', mid)
        BY <2>1, <2>4, <2>5
      <3> QED
        BY <1>c, <1>d, <2>1, <3>1 DEF OrderInv, Gone
    <2>6. CASE f.type = "state"
      <3>1. next' = next + 1 /\ next' <= mid + 1 /\ Numbered(down', next', mid)
        BY <1>c, <1>d, <2>1, <2>4, <2>6
      <3> QED
        BY <1>c, <1>d, <2>1, <3>1 DEF OrderInv, Gone
    <2> QED
      BY <2>3, <2>5, <2>6
  <1>7. CASE ReaderStep /\ ~ReadFrame
    BY <1>1, <1>7 DEF ReaderStep, ReadEOF, LockManager, ApplyNear, LockAck, WriteAck,
       AckWriteFails, gateway, Gone
  <1>8. CASE GatewayTakes \/ IdleTick \/ PollFails \/ GatewayWriteTimesOut
    BY <1>1, <1>8 DEF GatewayTakes, IdleTick, PollFails, GatewayWriteTimesOut, inbound, Gone
  <1>9. CASE GatewayApplies
    <2>1. /\ gmain = "apply" /\ gmain' = "ack" /\ writes' = Append(writes, Ack(gclip))
          /\ UNCHANGED <<next, gseq, down>>
      BY <1>9 DEF GatewayApplies, inbound
    <2>2. gclip \in 1 .. Copied
      BY <1>a, <1>b, <2>1 DEF DuplexTypes, GatewayInv
    <2>3. Ack(gclip) \in FrameOf(Copied) /\ Ack(gclip).type = "ack"
      BY <1>b, <2>2, FrameTypes DEF Ack
    <2>4. Numbered(writes, mid + 1, gseq)
      BY <1>d, <2>1 DEF Gone
    <2>5. Numbered(writes', mid + 1, gseq)
      BY <1>b, <1>c, <2>1, <2>3, <2>4, NumberedAppend
    <2> QED
      BY <1>c, <1>d, <2>1, <2>5 DEF OrderInv
  <1>10. CASE Publish
    <2> DEFINE f == State(cur["far"], gseq + 1)
    <2>1. /\ gmain = "select" /\ writes' = Append(writes, f) /\ gseq' = gseq + 1
          /\ UNCHANGED <<next, down>> /\ cur["far"] # 0
      BY <1>10 DEF Publish, NextNumber, Unsent, inbound
    <2>2. cur["far"] \in 1 .. Copied
      BY <1>a, <2>1, Numbers
    <2>3. f \in FrameOf(Copied)
      BY <1>b, <1>c, <2>2, FrameTypes
    <2>4. f.type = "state" /\ f.seq = gseq + 1
      BY DEF State
    <2>5. Numbered(writes, mid + 1, gseq)
      BY <1>d, <2>1 DEF Gone
    <2> HIDE DEF f
    <2>6. Numbered(writes', mid + 1, gseq + 1)
      BY <1>b, <1>c, <1>d, <2>1, <2>3, <2>4, <2>5, NumberedAppend
    <2> QED
      BY <1>c, <1>d, <2>1, <2>6 DEF OrderInv
  <1>11. CASE GatewayWrites
    <2> DEFINE f == Head(writes)
    <2>1. /\ ~Gone /\ writes # <<>> /\ writes' = Tail(writes) /\ down' = Append(down, f)
          /\ UNCHANGED <<next, gseq>>
      BY <1>11 DEF GatewayWrites, Gone, inbound
    <2>2. f \in FrameOf(Copied)
      BY <1>b, <2>1
    <2>3. f.type \in {"state", "ack"}
      BY <1>b, <2>2, FrameTypes
    <2>4. Numbered(writes, mid + 1, gseq) /\ mid + 1 \in Nat
      BY <1>d, <2>1
    <2>5. /\ f.type = "ack" => Numbered(writes', mid + 1, gseq)
          /\ f.type = "state" => /\ f.seq = mid + 1 /\ mid + 1 <= gseq
                                 /\ Numbered(writes', (mid + 1) + 1, gseq)
      BY <1>b, <1>c, <2>1, <2>4, NumberedTail
    <2> HIDE DEF f
    <2>6. /\ f.type = "ack" => Numbered(down', next, mid)
          /\ f.type = "state" => Numbered(down', next, mid + 1)
      BY <1>b, <1>c, <1>d, <2>1, <2>2, <2>5, NumberedAppend
    <2>7. CASE f.type = "ack"
      BY <1>c, <1>d, <2>1, <2>5, <2>6, <2>7 DEF OrderInv
    <2>8. CASE f.type = "state"
      <3>1. next <= (mid + 1) + 1 /\ mid + 1 <= gseq
        BY <1>c, <1>d, <2>5, <2>8
      <3> QED
        BY <1>c, <2>1, <2>4, <2>5, <2>6, <2>8, <3>1 DEF OrderInv
    <2> QED
      BY <2>3, <2>7, <2>8
  <1>12. CASE StreamBreaks
    <2>1. Gone' /\ down' = <<>> /\ UNCHANGED <<next, gseq>>
      BY <1>12 DEF StreamBreaks, Gone, inbound
    <2>2. Numbered(<<>>, next, next - 1)
      BY <1>c, NumberedEmpty
    <2>3. next - 1 \in Nat /\ next <= (next - 1) + 1 /\ next - 1 <= gseq
      BY <1>c, <1>d
    <2> QED
      BY <1>c, <2>1, <2>2, <2>3 DEF OrderInv
  <1> QED
    BY <1>2, <1>3, <1>4, <1>5, <1>6, <1>7, <1>8, <1>9, <1>10, <1>11, <1>12
    DEF Next, ReaderStep, GatewayStep

-----------------------------------------------------------------------------
(* The results *)

\* The invariant is inductive.
LEMMA DuplexStep == DuplexInv /\ [Next]_vars => DuplexInv'
  BY TypesStep, ClosedStep, OrderStep DEF DuplexInv

\* The frames of the invariant are the frames of the type invariant.
LEMMA DuplexTypeOK == DuplexInv => TypeOK
  <1> SUFFICES ASSUME DuplexInv PROVE TypeOK
    OBVIOUS
  <1>1. DuplexTypes
    BY DEF DuplexInv
  <1>2. 0 .. Copied \subseteq 0 .. MaxClip /\ 1 .. Copied \subseteq Clip
    BY <1>1, Numbers DEF DuplexTypes, DaemonInv, Clip
  <1>3. FrameOf(Copied) \subseteq Frame
    BY <1>2 DEF FrameOf, Frame
  <1>4. Seq(FrameOf(Copied)) \subseteq Seq(Frame)
    BY <1>3, SeqMonotonic
  <1>5. cur \in [Host -> 0 .. MaxClip] /\ origin \in Seq(Host)
    BY <1>1, <1>2 DEF DuplexTypes, DaemonInv
  <1>6. relay \in 0 .. MaxClip
    <2>1. cur["near"] \in 0 .. MaxClip
      BY <1>5 DEF Host
    <2> QED
      BY <1>1, <2>1, SshDuplexAssumption DEF DuplexTypes, RelayInv
  <1>7. /\ mu \in {"free", "reader"} /\ wmu \in {"free", "main", "reader"}
        /\ pend \in 0 .. MaxClip /\ queued \in 0 .. MaxClip /\ mclip \in 0 .. MaxClip
        /\ cancelled \in BOOLEAN
        /\ main \in {"connect", "mark", "lock", "write", "select", "failed"}
        /\ inflight \subseteq Clip
    BY <1>1, <1>2 DEF DuplexTypes, MainInv
  <1>8. /\ reader \in {"read", "lock", "apply", "mutex", "write", "push", "ended"}
        /\ rframe \in Frame \cup {NoFrame} /\ next \in Nat /\ gseq \in Nat
    BY <1>1, <1>3 DEF DuplexTypes, ReaderInv, DuplexInv, OrderInv
  <1>9. /\ up \in Seq(Frame) /\ Len(up) <= Pipe
        /\ down \in Seq(Frame) /\ Len(down) <= Pipe
        /\ writes \in Seq(Frame)
    BY <1>1, <1>4 DEF DuplexTypes, PipeInv
  <1>10. /\ gmain \in {"select", "apply", "ack", "publish", "stalled", "exited"}
         /\ gclip \in 0 .. MaxClip /\ sent \subseteq Clip /\ polls \in 0 .. MaxPoll
         /\ faults \in 0 .. MaxFault /\ refused \subseteq Clip
    BY <1>1, <1>2 DEF DuplexTypes, GatewayInv, CountInv
  <1> QED
    BY <1>5, <1>6, <1>7, <1>8, <1>9, <1>10 DEF TypeOK

\* Whatever breaks, times out or fills up: the pipes never hold more than they
\* can, there are never more relay goroutines than clips, a gateway never counts
\* more than MaxPoll failing polls, and every frame that is written is about a clip.
THEOREM TypeCorrect == Spec => []TypeOK
  BY DuplexInit, DuplexStep, DuplexTypeOK, PTL DEF Spec

\* The near side never meets a state frame out of number: the frames on their way
\* to it, and those whose write the gateway has begun or left behind, carry the
\* numbers from the next one on, without a gap.
THEOREM NumbersNeverSkip == Spec => []FramesInOrder
  <1>1. DuplexInv => FramesInOrder
    <2> SUFFICES ASSUME DuplexInv PROVE FramesInOrder
      OBVIOUS
    <2>1. /\ Copied \in Nat
          /\ down \in Seq(FrameOf(Copied)) /\ writes \in Seq(FrameOf(Copied))
      BY Numbers DEF DuplexInv, DuplexTypes, PipeInv
    <2>2. next \in Nat \ {0} /\ gseq \in Nat
      BY DEF DuplexInv, OrderInv
    <2>3. PICK mid \in Nat : /\ next <= mid + 1 /\ mid <= gseq
                             /\ Numbered(down, next, mid)
                             /\ ~Gone => Numbered(writes, mid + 1, gseq)
      BY DEF DuplexInv, OrderInv
    <2>4. CASE Gone
      <3>1. Coming = down
        BY <2>4 DEF Coming, Gone
      <3>2. mid \in 0 .. gseq
        BY <2>2, <2>3
      <3> QED
        BY <2>3, <3>1, <3>2 DEF FramesInOrder
    <2>5. CASE ~Gone
      <3>1. Coming = down \o writes
        BY <2>5 DEF Coming, Gone
      <3>2. Numbered(down \o writes, next, gseq)
        BY <2>1, <2>2, <2>3, <2>5, NumberedConcat
      <3>3. gseq \in 0 .. gseq
        BY <2>2
      <3> QED
        BY <3>1, <3>2, <3>3 DEF FramesInOrder
    <2> QED
      BY <2>4, <2>5
  <1> QED
    BY <1>1, DuplexInit, DuplexStep, PTL DEF Spec

==============================================================================
