--------------------------- MODULE MeshHeal_proofs ---------------------------
(***************************************************************************)
(* Proofs about MeshHeal: types, ReadyWasProbed and                        *)
(* HealthyEdgeAuthenticates, for every set of hosts, every number of       *)
(* runners and every bound on faults and upsets.                           *)
(*                                                                         *)
(* A key that a runner holds is one its host has made, and a key it has    *)
(* gone past the probes with is one a probe got through with, where the    *)
(* target asks for one.  A key on record is such a key, and an enabled     *)
(* ready peer has both.  The conditions on one runner are operators of its *)
(* record and of the parts of the hosts' state they depend on.             *)
(***************************************************************************)
EXTENDS MeshHeal, WellFoundedInduction, TLAPS

Busy(s) == s.pc \in {"pair", "apply"}

\* The hosts of the pair a runner is at, connector first
One(s) == First(s.edges)[1]
Two(s) == First(s.edges)[2]

\* The host and the peer of the Apply it is at
Target(s) == Commands(First(s.edges))[s.step][2]
Peer(s) == Commands(First(s.edges))[s.step][3]

\* A runner that was started has a fleet key.  Scanned keys and sync keys
\* exist; those of the pair are there in time.
ScanOK(s, host) ==
    /\ s.pc \in {"idle", "ended"} \/ s.fleetKey \in Host
    /\ \A h \in Host : s.scan[h] <= host[h]
    /\ Busy(s) => /\ s.edges # {} /\ s.step # 0
                  /\ \A e \in s.edges : s.scan[e[1]] # 0 /\ s.scan[e[2]] # 0

KeysOK(s, keys) ==
    /\ \A h \in Host : s.keys[h] <= keys[h]
    /\ Busy(s) => /\ s.step > 3 => s.keys[One(s)] # 0
                  /\ s.step > 4 => s.keys[Two(s)] # 0

\* A command after a probe has a key the probe got through with.
ProofOK(s, proven) ==
    Busy(s) => /\ s.step > 7 => <<One(s), Two(s), Shown(Two(s), s.keys[One(s)])>> \in proven
               /\ s.step > 8 => <<Two(s), One(s), Shown(One(s), s.keys[Two(s)])>> \in proven

\* An Apply belongs to one of the last four commands.
ApplyOK(s) == s.pc = "apply" => s.step > 8 /\ s.update # "none"

RunOK(s, host, keys, proven) ==
    ScanOK(s, host) /\ KeysOK(s, keys) /\ ProofOK(s, proven) /\ ApplyOK(s)

RunnerInv == \A r \in Runner : RunOK(run[r], hostKey, made, probed)

\* Keys are made only as long as the bounds allow.
CountInv ==
    \A h \in Host : /\ hostKey[h] <= 1 + upsets /\ made[h] <= 1 + upsets
                    /\ syncKey[h] <= made[h]
                    /\ syncKey[h] = 0 => made[h] <= upsets

\* What is recorded of a key was made by its host.
RecordInv ==
    \A h, p \in Host : /\ pins[h][p] <= hostKey[p] /\ auth[p][h] <= made[h]
                       /\ row[h][p].connect <= made[h] /\ row[h][p].accept <= made[p]

\* Where a probe got through, there is a pin for good, and an authorized key
\* where one is asked for.
ProbeInv ==
    \A s, t \in Host, k \in 0 .. MaxKey :
        <<s, t, k>> \in probed => pins[s][t] # 0 /\ (t \in Direct \/ auth[t][s] # 0)

\* The keys on record for a peer were probed, and an enabled ready peer has both.
RowOK(h, p, peer, proven) ==
    /\ peer.connect # 0 => <<h, p, Shown(p, peer.connect)>> \in proven
    /\ peer.accept # 0 => <<p, h, Shown(h, peer.accept)>> \in proven
    /\ peer.state = "ssh_keys_ready" /\ peer.enabled => Proven(peer)

RowInv == \A h, p \in Host : RowOK(h, p, row[h][p], probed)

MeshInv == TypeOK /\ RunnerInv /\ CountInv /\ RecordInv /\ ProbeInv /\ RowInv

-----------------------------------------------------------------------------
(* Pairs and their commands *)

\* A set of pairs that is not empty has a first one: the order of host ids is
\* well-founded.
LEMMA FirstIn ==
  ASSUME NEW E \in SUBSET Edge, E # {}
  PROVE  First(E) \in E
  <1> DEFINE less == OpToRel(<, Nat)
             lex == LexPairOrdering(less, less, Nat, Nat)
  <1>1. IsWellFoundedOn(lex, Nat \X Nat)
    BY NatLessThanWellFounded, WFLexPairOrdering
  <1>2. E \subseteq Nat \X Nat
    BY MeshHealAssumption DEF Edge
  <1>3. PICK e \in E : \A f \in E : <<f, e>> \notin lex
    <2> HIDE DEF lex
    <2> QED
      BY <1>1, <1>2, WFMin
  <1>4. \A f \in E : <<f, e>> \notin lex => e[1] < f[1] \/ (e[1] = f[1] /\ e[2] <= f[2])
    BY <1>2 DEF LexPairOrdering, OpToRel
  <1> QED
    BY <1>3, <1>4 DEF First

\* The twelve commands of a pair
LEMMA CommandOf ==
  ASSUME NEW e \in Edge, NEW n \in 1 .. 12
  PROVE  LET c == Commands(e)[n]
         IN  /\ n \in {1, 3, 5, 7, 9, 11} => c[2] = e[1]
             /\ n \in {2, 4, 6, 8, 10, 12} => c[2] = e[2]
             /\ n \in {1, 5, 7, 9, 11} => c[3] = e[2]
             /\ n \in {2, 6, 8, 10, 12} => c[3] = e[1]
             /\ c[1] = "pin" => n \in {1, 2}
             /\ c[1] = "key" => n \in {3, 4}
             /\ c[1] = "auth" => n \in {5, 6}
             /\ c[1] = "probe" => n \in {7, 8}
             /\ c[1] \in {"stage", "ready"} => n > 8
  <1>1. CASE n = 1 BY <1>1 DEF Commands
  <1>2. CASE n = 2 BY <1>2 DEF Commands
  <1>3. CASE n = 3 BY <1>3 DEF Commands
  <1>4. CASE n = 4 BY <1>4 DEF Commands
  <1>5. CASE n = 5 BY <1>5 DEF Commands
  <1>6. CASE n = 6 BY <1>6 DEF Commands
  <1>7. CASE n = 7 BY <1>7 DEF Commands
  <1>8. CASE n = 8 BY <1>8 DEF Commands
  <1>9. CASE n = 9 BY <1>9 DEF Commands
  <1>10. CASE n = 10 BY <1>10 DEF Commands
  <1>11. CASE n = 11 BY <1>11 DEF Commands
  <1>12. CASE n = 12 BY <1>12 DEF Commands
  <1> QED
    BY <1>1, <1>2, <1>3, <1>4, <1>5, <1>6, <1>7, <1>8, <1>9, <1>10, <1>11, <1>12

\* Every host that a pair names is one.
LEMMA PairHosts ==
  ASSUME NEW s \in RunState, s.edges # {}
  PROVE  /\ First(s.edges) \in s.edges /\ First(s.edges) \in Edge
         /\ One(s) \in Host /\ Two(s) \in Host
  <1>1. s.edges \in SUBSET Edge
    BY DEF RunState
  <1> QED
    BY <1>1, FirstIn DEF Edge, One, Two

\* The commands from the first on name its hosts.
LEMMA StepHosts ==
  ASSUME NEW s \in RunState, s.edges # {}, s.step # 0
  PROVE  /\ Target(s) \in {One(s), Two(s)} /\ Target(s) \in Host
         /\ s.step \notin {3, 4} =>
              /\ Peer(s) \in Host
              /\ \/ Target(s) = One(s) /\ Peer(s) = Two(s)
                 \/ Target(s) = Two(s) /\ Peer(s) = One(s)
  <1>1. s.step \in 1 .. 12
    BY DEF RunState
  <1>2. First(s.edges) \in Edge /\ One(s) \in Host /\ Two(s) \in Host
    BY PairHosts
  <1> QED
    BY <1>1, <1>2, CommandOf DEF One, Two, Target, Peer

-----------------------------------------------------------------------------
(* The ends of commands *)

\* The places, updates and states of peers that runners go through
LEMMA PlaceTypes ==
  /\ {"idle", "discover", "prepare", "pair", "apply", "restart", "ended"} \subseteq Place
  /\ {"none", "material", "upsert", "proof", "stage", "ready"} \subseteq Update
  /\ {"absent", "loopback_unprovisioned"} \subseteq States
  BY DEF Place, Update, States

\* Zero is a map of keys.
LEMMA ZeroType == Zero \in Keys
  BY MeshHealAssumption DEF Zero, Keys, MaxKey

\* The next pair, or none
LEMMA OverOK ==
  ASSUME NEW s \in RunState, s.edges # {}, NEW ok \in BOOLEAN
  PROVE  LET o == Over(s, ok)
         IN  /\ o \in RunState
             /\ (o.pc = "pair" /\ o.edges # {} /\ o.step = 1) \/ o.pc = "restart"
             /\ o.edges \subseteq s.edges /\ o.scan = s.scan /\ o.keys = Zero
             /\ o.fleetKey = s.fleetKey
  <1> DEFINE pair == First(s.edges)
             left == IF ok \/ s.heal THEN s.edges \ {pair} ELSE {}
             more == IF ok /\ s.heal THEN s.changed \cup {pair[1], pair[2]} ELSE s.changed
             fail == s.failed \/ ~ok
             n == IF left = {} THEN 0 ELSE 1
             place == IF left = {} THEN "restart" ELSE "pair"
  <1>1. pair[1] \in Host /\ pair[2] \in Host
    BY PairHosts DEF One, Two
  <1>2. left \in SUBSET Edge /\ left \subseteq s.edges
    BY DEF RunState
  <1>3. more \in SUBSET Host
    BY <1>1 DEF RunState
  <1>4. fail \in BOOLEAN
    BY DEF RunState
  <1>5. n \in 0 .. 12 /\ place \in Place
    BY DEF Place
  <1>6. Over(s, ok) =
          [s EXCEPT !.edges = left, !.step = n, !.keys = Zero, !.update = "none",
                    !.read = "absent", !.current = FALSE, !.failed = fail,
                    !.changed = more, !.pc = place]
    BY DEF Over, RunState
  <1>7. left # {} => n = 1 /\ place = "pair"
    OBVIOUS
  <1>8. left = {} => place = "restart"
    OBVIOUS
  <1> HIDE DEF left, more, fail, n, place
  <1>9. Over(s, ok) \in RunState
    <2>1. [s EXCEPT !.edges = left, !.step = n, !.keys = Zero, !.update = "none",
                    !.read = "absent", !.current = FALSE, !.failed = fail,
                    !.changed = more, !.pc = place] \in RunState
      BY <1>2, <1>3, <1>4, <1>5, ZeroType, PlaceTypes DEF RunState
    <2> QED
      BY <1>6, <2>1
  <1>10. /\ Over(s, ok).pc = place /\ Over(s, ok).edges = left /\ Over(s, ok).step = n
         /\ Over(s, ok).scan = s.scan /\ Over(s, ok).keys = Zero
         /\ Over(s, ok).fleetKey = s.fleetKey
    BY <1>6 DEF RunState
  <1> QED
    BY <1>2, <1>7, <1>8, <1>9, <1>10

\* The next command of the pair
LEMMA AdvanceOK ==
  ASSUME NEW s \in RunState, s.step < 12
  PROVE  LET o == Advance(s)
         IN  /\ o \in RunState /\ o.pc = "pair" /\ o.step = s.step + 1
             /\ o.edges = s.edges /\ o.scan = s.scan /\ o.keys = s.keys
             /\ o.fleetKey = s.fleetKey
  <1> DEFINE n == s.step + 1
  <1>1. s.step # 12 /\ n \in 0 .. 12
    BY DEF RunState
  <1>2. Advance(s) = [s EXCEPT !.step = n, !.pc = "pair", !.update = "none",
                               !.read = "absent", !.current = FALSE]
    BY <1>1 DEF Advance
  <1> HIDE DEF n
  <1>3. Advance(s) \in RunState
    <2>1. [s EXCEPT !.step = n, !.pc = "pair", !.update = "none", !.read = "absent",
                    !.current = FALSE] \in RunState
      BY <1>1, PlaceTypes DEF RunState
    <2> QED
      BY <1>2, <2>1
  <1>4. /\ Advance(s).pc = "pair" /\ Advance(s).step = n /\ Advance(s).edges = s.edges
        /\ Advance(s).scan = s.scan /\ Advance(s).keys = s.keys
        /\ Advance(s).fleetKey = s.fleetKey
    BY <1>2 DEF RunState
  <1> QED
    BY <1>3, <1>4 DEF n

-----------------------------------------------------------------------------
(* The conditions on one runner *)

\* A runner that is between pairs meets all conditions but those on scans.
LEMMA QuietOK ==
  ASSUME NEW o \in RunState, NEW host \in Keys, NEW keys \in Keys, NEW proven,
         o.keys = Zero, ScanOK(o, host), o.pc = "pair" => o.step = 1, o.pc # "apply"
  PROVE  RunOK(o, host, keys, proven)
  <1>1. KeysOK(o, keys)
    BY DEF KeysOK, Busy, Keys, Zero, MaxKey
  <1>2. ProofOK(o, proven) /\ ApplyOK(o)
    BY DEF ProofOK, ApplyOK, Busy
  <1> QED
    BY <1>1, <1>2 DEF RunOK

\* A pair that is over leaves nothing behind.
LEMMA OverRun ==
  ASSUME NEW s \in RunState, NEW ok \in BOOLEAN, NEW host \in Keys, NEW keys \in Keys,
         NEW proven, Busy(s), ScanOK(s, host)
  PROVE  Over(s, ok) \in RunState /\ RunOK(Over(s, ok), host, keys, proven)
  <1> DEFINE o == Over(s, ok)
  <1>1. s.edges # {}
    BY DEF ScanOK
  <1>2. /\ o \in RunState
        /\ (o.pc = "pair" /\ o.edges # {} /\ o.step = 1) \/ o.pc = "restart"
        /\ o.edges \subseteq s.edges /\ o.scan = s.scan /\ o.keys = Zero
        /\ o.fleetKey = s.fleetKey
    BY <1>1, OverOK
  <1> HIDE DEF o
  <1>3. ScanOK(o, host)
    BY <1>2 DEF ScanOK, Busy
  <1> QED
    BY <1>2, <1>3, QuietOK DEF o

\* The next command, or the next pair: what the command adds must be there.
LEMMA AdvanceRun ==
  ASSUME NEW s \in RunState, NEW host \in Keys, NEW keys \in Keys, NEW proven,
         Busy(s), ScanOK(s, host), KeysOK(s, keys), ProofOK(s, proven),
         s.step = 3 => s.keys[One(s)] # 0,
         s.step = 4 => s.keys[Two(s)] # 0,
         s.step = 7 => <<One(s), Two(s), Shown(Two(s), s.keys[One(s)])>> \in proven,
         s.step = 8 => <<Two(s), One(s), Shown(One(s), s.keys[Two(s)])>> \in proven
  PROVE  Advance(s) \in RunState /\ RunOK(Advance(s), host, keys, proven)
  <1>1. CASE s.step = 12
    BY <1>1, OverRun DEF Advance
  <1>2. CASE s.step # 12
    <2> DEFINE o == Advance(s)
    <2>1. s.step \in 0 .. 11
      BY <1>2 DEF RunState
    <2>2. /\ o \in RunState /\ o.pc = "pair" /\ o.step = s.step + 1
          /\ o.edges = s.edges /\ o.scan = s.scan /\ o.keys = s.keys
          /\ o.fleetKey = s.fleetKey
      BY <2>1, AdvanceOK
    <2> HIDE DEF o
    <2>3. One(o) = One(s) /\ Two(o) = Two(s)
      BY <2>2 DEF One, Two
    <2>4. ScanOK(o, host)
      BY <2>1, <2>2 DEF ScanOK, Busy
    <2>5. KeysOK(o, keys)
      BY <2>1, <2>2, <2>3 DEF KeysOK, Busy
    <2>6. ProofOK(o, proven)
      BY <2>1, <2>2, <2>3 DEF ProofOK, Busy
    <2>7. ApplyOK(o)
      BY <2>2 DEF ApplyOK
    <2> QED
      BY <2>2, <2>4, <2>5, <2>6, <2>7 DEF RunOK, o
  <1> QED
    BY <1>1, <1>2

\* More keys and more probes disturb no runner.
LEMMA RunKeeps ==
  ASSUME NEW s \in RunState, NEW host \in Keys, NEW keys \in Keys, NEW proven,
         NEW host2 \in Keys, NEW keys2 \in Keys, NEW proven2,
         \A h \in Host : host[h] <= host2[h] /\ keys[h] <= keys2[h],
         proven \subseteq proven2, RunOK(s, host, keys, proven)
  PROVE  RunOK(s, host2, keys2, proven2)
  <1>1. s.scan \in Keys /\ s.keys \in Keys
    BY DEF RunState
  <1>2. ScanOK(s, host2)
    BY <1>1 DEF RunOK, ScanOK, Keys, MaxKey
  <1>3. KeysOK(s, keys2)
    BY <1>1 DEF RunOK, KeysOK, Keys, MaxKey
  <1>4. ProofOK(s, proven2)
    BY DEF RunOK, ProofOK
  <1> QED
    BY <1>2, <1>3, <1>4 DEF RunOK

\* A runner after a write of host h
Outdated(s, h) ==
    IF s.pc = "apply" /\ Target(s) = h THEN [s EXCEPT !.current = FALSE] ELSE s

\* A runner whose revision is made old is not disturbed by the write.
LEMMA OutdatedRun ==
  ASSUME NEW s \in RunState, NEW host, NEW keys, NEW proven, NEW h, RunOK(s, host, keys, proven)
  PROVE  Outdated(s, h) \in RunState /\ RunOK(Outdated(s, h), host, keys, proven)
  <1> DEFINE o == Outdated(s, h)
  <1>1. CASE s.pc = "apply" /\ Target(s) = h
    <2>0. o = [s EXCEPT !.current = FALSE]
      BY <1>1 DEF Outdated
    <2> HIDE DEF o
    <2>1. /\ o \in RunState /\ o.pc = s.pc /\ o.step = s.step /\ o.edges = s.edges
          /\ o.scan = s.scan /\ o.keys = s.keys /\ o.update = s.update
          /\ o.fleetKey = s.fleetKey
      BY <2>0 DEF RunState
    <2>2. One(o) = One(s) /\ Two(o) = Two(s)
      BY <2>1 DEF One, Two
    <2>3. ScanOK(o, host) /\ KeysOK(o, keys) /\ ProofOK(o, proven)
      BY <2>1, <2>2 DEF RunOK, ScanOK, KeysOK, ProofOK, Busy
    <2>4. ApplyOK(o)
      BY <2>1 DEF RunOK, ApplyOK
    <2> QED
      BY <2>1, <2>3, <2>4 DEF RunOK, o
  <1>2. CASE ~(s.pc = "apply" /\ Target(s) = h)
    BY <1>2 DEF Outdated
  <1> QED
    BY <1>1, <1>2

-----------------------------------------------------------------------------
(* The hosts *)

HostTypes ==
    /\ hostKey \in [Host -> 1 .. MaxKey] /\ pins \in [Host -> Keys]
    /\ syncKey \in Keys /\ made \in Keys /\ auth \in [Host -> Keys]
    /\ row \in [Host -> [Host -> PeerRow]] /\ fleetKey \in [Host -> Host]
    /\ upsets \in 0 .. MaxUpset
    /\ probed \subseteq Host \X Host \X (0 .. MaxKey)

HostInv == HostTypes /\ CountInv /\ RecordInv /\ ProbeInv /\ RowInv

Runners == run \in [Runner -> RunState] /\ RunnerInv

Fields == stale \in [Host -> BOOLEAN] /\ faults \in 0 .. MaxFault

\* The invariant, part by part
LEMMA Parts == MeshInv <=> HostInv /\ Runners /\ Fields
  BY DEF MeshInv, TypeOK, HostTypes, HostInv, Runners, Fields

\* The same after a step
LEMMA PartsAfter == HostInv' /\ Runners' /\ Fields' => MeshInv'
  BY DEF MeshInv, TypeOK, HostTypes, HostInv, Runners, Fields

\* Nothing the host invariants depend on has changed.
Quiet == UNCHANGED <<hostKey, pins, syncKey, made, auth, row, fleetKey, upsets, probed>>

\* A step that changes none of it keeps them.
LEMMA QuietHosts == ASSUME HostInv, Quiet PROVE HostInv'
  BY DEF HostInv, HostTypes, CountInv, RecordInv, ProbeInv, RowInv, Quiet

\* The keys of the hosts are maps of keys.
LEMMA HostKeys == ASSUME HostTypes PROVE hostKey \in Keys
  BY DEF HostTypes, Keys

\* One runner goes on; keys and probes may be added.
LEMMA SetRun ==
  ASSUME Runners, NEW r \in Runner, NEW s \in RunState, Set(r, s),
         HostTypes, HostTypes',
         \A h \in Host : hostKey[h] <= hostKey'[h] /\ made[h] <= made'[h],
         probed \subseteq probed',
         RunOK(s, hostKey', made', probed')
  PROVE  Runners'
  <1>1. hostKey \in Keys /\ made \in Keys /\ hostKey' \in Keys /\ made' \in Keys
    BY DEF HostTypes, Keys
  <1>2. run' \in [Runner -> RunState] /\ run'[r] = s /\ \A q \in Runner \ {r} : run'[q] = run[q]
    BY DEF Runners, Set
  <1>3. ASSUME NEW q \in Runner PROVE RunOK(run'[q], hostKey', made', probed')
    <2>1. CASE q = r
      BY <1>2, <2>1
    <2>2. CASE q # r
      <3>1. run[q] \in RunState /\ RunOK(run[q], hostKey, made, probed)
        BY DEF Runners, RunnerInv
      <3> QED
        BY <1>1, <1>2, <2>2, <3>1, RunKeeps
    <2> QED
      BY <2>1, <2>2
  <1> QED
    BY <1>2, <1>3 DEF Runners, RunnerInv

\* The same where nothing is added
LEMMA SetQuiet ==
  ASSUME Runners, NEW r \in Runner, NEW s \in RunState, Set(r, s), HostInv, Quiet,
         RunOK(s, hostKey, made, probed)
  PROVE  Runners' /\ HostInv'
  <1>1. HostInv'
    BY QuietHosts
  <1>2. \A h \in Host : hostKey[h] <= hostKey'[h] /\ made[h] <= made'[h]
    BY DEF HostInv, HostTypes, Quiet, Keys, MaxKey
  <1>3. hostKey' = hostKey /\ made' = made /\ probed' = probed
    BY DEF Quiet
  <1> QED
    BY <1>1, <1>2, <1>3, SetRun DEF HostInv

\* The answer of a command arrives or is lost.
LEMMA AnsweredRun ==
  ASSUME Runners, Fields, NEW r \in Runner, NEW next \in RunState, NEW host \in Keys,
         NEW keys \in Keys, NEW proven, RunOK(next, host, keys, proven),
         Busy(run[r]), ScanOK(run[r], host), Answered(r, next)
  PROVE  /\ faults' \in 0 .. MaxFault
         /\ \E s \in RunState : Set(r, s) /\ RunOK(s, host, keys, proven)
  <1>1. CASE Set(r, next) /\ UNCHANGED faults
    BY <1>1 DEF Fields
  <1>2. CASE faults < MaxFault /\ faults' = faults + 1 /\ Set(r, Over(run[r], FALSE))
    <2>1. faults' \in 0 .. MaxFault
      BY <1>2, MeshHealAssumption DEF Fields
    <2>2. run[r] \in RunState
      BY DEF Runners
    <2>3. Over(run[r], FALSE) \in RunState /\ RunOK(Over(run[r], FALSE), host, keys, proven)
      BY <2>2, OverRun
    <2> QED
      BY <1>2, <2>1, <2>3
  <1> QED
    BY <1>1, <1>2 DEF Answered

\* A write of host h as another runner finds it
LEMMA OutdateOther ==
  ASSUME Runners, NEW h \in Host, NEW q \in Runner,
         run'[q] = IF run[q].pc = "apply" /\ Now(q)[2] = h
                   THEN [run[q] EXCEPT !.current = FALSE] ELSE run[q]
  PROVE  run'[q] \in RunState /\ RunOK(run'[q], hostKey, made, probed)
  <1>1. run[q] \in RunState /\ RunOK(run[q], hostKey, made, probed)
    BY DEF Runners, RunnerInv
  <1>2. run'[q] = Outdated(run[q], h)
    BY DEF Outdated, Now, Target
  <1> QED
    BY <1>1, <1>2, OutdatedRun

\* A write of the row of host h, or a part of it, by runner r
LEMMA OutdateRun ==
  ASSUME Runners, NEW r \in Runner, NEW h \in Host, NEW s \in RunState, Outdate(r, h, s),
         UNCHANGED <<hostKey, made, probed>>,
         RunOK(s, hostKey, made, probed)
  PROVE  Runners'
  <1>1. ASSUME NEW q \in Runner
        PROVE  run'[q] \in RunState /\ RunOK(run'[q], hostKey, made, probed)
    <2>1. CASE q = r
      BY <2>1 DEF Outdate
    <2>2. CASE q # r
      <3>1. run'[q] = IF run[q].pc = "apply" /\ Now(q)[2] = h
                      THEN [run[q] EXCEPT !.current = FALSE] ELSE run[q]
        BY <2>2 DEF Outdate
      <3> QED
        BY <3>1, OutdateOther
    <2> QED
      BY <2>1, <2>2
  <1>2. run' \in [Runner -> RunState]
    BY <1>1 DEF Outdate
  <1> QED
    BY <1>1, <1>2 DEF Runners, RunnerInv

-----------------------------------------------------------------------------
(* The way to the pairs *)

\* A runner at rest
LEMMA RestOK ==
  /\ Rest \in RunState /\ Rest.scan = Zero /\ Rest.keys = Zero
  /\ Rest.edges = {} /\ Rest.step = 0 /\ Rest.pc = "idle"
  <1>1. [h \in Host |-> [p \in Host |-> "none"]] \in View
    BY DEF View
  <1> DEFINE view == [h \in Host |-> [p \in Host |-> "none"]]
  <1>2. Rest = [pc |-> "idle", heal |-> FALSE, fleetKey |-> 0, scan |-> Zero, view |-> view,
                reports |-> {}, queue |-> {}, seen |-> {}, edges |-> {}, step |-> 0,
                keys |-> Zero, update |-> "none", read |-> "absent", current |-> FALSE,
                changed |-> {}, failed |-> FALSE]
    BY DEF Rest
  <1> HIDE DEF view
  <1> QED
    BY <1>1, <1>2, ZeroType, PlaceTypes DEF RunState, view

\* A runner that has prepared no host yet, or is done
LEMMA IdleRun ==
  ASSUME NEW o \in RunState, NEW host \in Keys, NEW keys \in Keys, NEW proven,
         o.scan = Zero, o.keys = Zero, ~Busy(o),
         o.pc \in {"idle", "ended"} \/ o.fleetKey \in Host
  PROVE  RunOK(o, host, keys, proven)
  <1>1. ScanOK(o, host)
    BY DEF ScanOK, Zero, Keys, MaxKey
  <1> QED
    BY <1>1, QuietOK DEF Busy

\* Reports of hosts
LEMMA ReportType ==
  ASSUME NEW h \in Host PROVE Report(h) \in [Host -> {"none", "listed", "healthy"}]
  BY DEF Report

\* Both commands start, and are invoked again.
LEMMA StartStep ==
  ASSUME HostInv, Runners, Fields, NEW r \in Runner,
         StartDirect(r) \/ StartHeal(r) \/ RunAgain(r)
  PROVE  HostInv' /\ Runners' /\ Fields'
  <1>0. Fields'
    BY DEF StartDirect, StartHeal, RunAgain, Fields, hosts
  <1>1. Quiet /\ hostKey \in Keys /\ made \in Keys /\ fleetKey[Home[r]] \in Host /\ Home[r] \in Host
    BY MeshHealAssumption, HostKeys
       DEF Quiet, hosts, StartDirect, StartHeal, RunAgain, HostInv, HostTypes
  <1>2. CASE StartDirect(r)
    <2> DEFINE f == fleetKey[Home[r]]
               o == [Rest EXCEPT !.pc = "prepare", !.fleetKey = f, !.reports = Host]
    <2> HIDE DEF f
    <2>1. o \in RunState
      BY <1>1, RestOK, PlaceTypes DEF RunState, f
    <2>2. o.pc = "prepare" /\ o.scan = Zero /\ o.keys = Zero /\ o.fleetKey \in Host
      BY <1>1, RestOK DEF RunState, f
    <2>3. Set(r, o)
      BY <1>2 DEF StartDirect, f
    <2> HIDE DEF o
    <2> QED
      BY <1>0, <1>1, <2>1, <2>2, <2>3, IdleRun, SetQuiet DEF Busy
  <1>3. CASE StartHeal(r)
    <2> DEFINE f == fleetKey[Home[r]]
               local == Report(Home[r])
               views == [Rest.view EXCEPT ![Home[r]] = local]
               found == Listed(local) \ {Home[r]}
               all == Listed(local) \cup {Home[r]}
               o == [Rest EXCEPT !.pc = "discover", !.heal = TRUE, !.fleetKey = f,
                        !.view = views, !.reports = {Home[r]}, !.queue = found, !.seen = all]
    <2>1. Rest.view \in View
      BY RestOK DEF RunState
    <2>2. views \in View /\ found \in SUBSET Host /\ all \in SUBSET Host
      BY <1>1, <2>1, ReportType DEF View, Listed
    <2>3. Set(r, o)
      BY <1>3 DEF StartHeal
    <2> HIDE DEF f, views, found, all
    <2>4. o \in RunState
      BY <1>1, <2>2, RestOK, PlaceTypes DEF RunState, f
    <2>5. o.pc = "discover" /\ o.scan = Zero /\ o.keys = Zero /\ o.fleetKey \in Host
      BY <1>1, RestOK DEF RunState, f
    <2> HIDE DEF o
    <2> QED
      BY <1>0, <1>1, <2>3, <2>4, <2>5, IdleRun, SetQuiet DEF Busy
  <1>4. CASE RunAgain(r)
    BY <1>0, <1>1, <1>4, RestOK, IdleRun, SetQuiet DEF RunAgain, Busy
  <1> QED
    BY <1>0, <1>2, <1>3, <1>4

\* A step that changes neither the keys, the pair nor the place of a runner
\* that is between commands
LEMMA SamePlace ==
  ASSUME NEW s \in RunState, NEW o \in RunState, NEW host, NEW keys, NEW proven,
         RunOK(s, host, keys, proven), ~Busy(o), s.pc \notin {"idle", "ended"},
         o.scan = s.scan, o.keys = s.keys, o.fleetKey = s.fleetKey
  PROVE  RunOK(o, host, keys, proven)
  BY DEF RunOK, ScanOK, KeysOK, ProofOK, ApplyOK, Busy

\* The roster is walked, restarts are done and reports written.
LEMMA RosterStep ==
  ASSUME HostInv, Runners, Fields, NEW r \in Runner,
         (\E t \in Host : Discover(r, t)) \/ Discovered(r) \/ RestartDaemon(r) \/ Ended(r)
  PROVE  HostInv' /\ Runners' /\ Fields'
  <1>1. Quiet /\ hostKey \in Keys /\ made \in Keys
    BY HostKeys
       DEF Quiet, hosts, Discover, Discovered, RestartDaemon, Ended, HostInv, HostTypes
  <1>2. run[r] \in RunState /\ RunOK(run[r], hostKey, made, probed)
    BY DEF Runners, RunnerInv
  <1>3. ASSUME NEW t \in Host, Discover(r, t) PROVE HostInv' /\ Runners' /\ Fields'
    <2> DEFINE s == run[r]
               found == Listed(Report(t)) \ s.seen
               views == [s.view EXCEPT ![t] = Report(t)]
               got == s.reports \cup {t}
               todo == (s.queue \ {t}) \cup found
               all == s.seen \cup found
               rest == s.queue \ {t}
               o == [s EXCEPT !.view = views, !.reports = got, !.queue = todo, !.seen = all]
               u == [s EXCEPT !.queue = rest]
    <2>1. /\ views \in View /\ got \in SUBSET Host /\ todo \in SUBSET Host
          /\ all \in SUBSET Host /\ rest \in SUBSET Host /\ s.pc = "discover"
      BY <1>2, <1>3, ReportType DEF RunState, View, Listed, Discover
    <2>2. \/ Set(r, o) /\ faults' = faults /\ stale' = stale
          \/ Set(r, u) /\ faults < MaxFault /\ faults' = faults + 1 /\ stale' = stale
      BY <1>2, <1>3 DEF Discover, hosts, RunState
    <2>3. Fields'
      BY <2>2, MeshHealAssumption DEF Fields
    <2> HIDE DEF found, views, got, todo, all, rest
    <2>4. o \in RunState /\ u \in RunState
      BY <1>2, <2>1 DEF RunState
    <2>5. /\ o.pc = s.pc /\ o.scan = s.scan /\ o.keys = s.keys
          /\ u.pc = s.pc /\ u.scan = s.scan /\ u.keys = s.keys
          /\ o.fleetKey = s.fleetKey /\ u.fleetKey = s.fleetKey
      BY <1>2 DEF RunState
    <2> HIDE DEF o, u
    <2>6. RunOK(o, hostKey, made, probed) /\ RunOK(u, hostKey, made, probed)
      BY <1>2, <2>1, <2>4, <2>5, SamePlace DEF Busy
    <2> QED
      BY <1>1, <2>2, <2>3, <2>4, <2>6, SetQuiet
  <1>4. CASE Discovered(r)
    <2> DEFINE o == [run[r] EXCEPT !.pc = "prepare"]
    <2>1. /\ o \in RunState /\ o.pc = "prepare" /\ o.scan = run[r].scan
          /\ o.keys = run[r].keys /\ o.fleetKey = run[r].fleetKey
      BY <1>2, PlaceTypes DEF RunState
    <2>2. Set(r, o) /\ Fields' /\ run[r].pc = "discover"
      BY <1>4 DEF Discovered, Fields, hosts
    <2> HIDE DEF o
    <2>3. RunOK(o, hostKey, made, probed)
      BY <1>2, <2>1, <2>2, SamePlace DEF Busy
    <2> QED
      BY <1>1, <2>1, <2>2, <2>3, SetQuiet
  <1>5. CASE RestartDaemon(r)
    <2> DEFINE h == CHOOSE x \in run[r].changed : \A y \in run[r].changed : x <= y
               left == run[r].changed \ {h}
               o == [run[r] EXCEPT !.changed = left]
               u == [o EXCEPT !.failed = TRUE]
    <2>1. left \in SUBSET Host
      BY <1>2 DEF RunState
    <2>2. /\ Set(r, o) \/ Set(r, u)
          /\ run[r].pc = "restart"
      BY <1>5 DEF RestartDaemon
    <2>3. Fields'
      <3>1. faults' = faults \/ (faults < MaxFault /\ faults' = faults + 1)
        BY <1>5 DEF RestartDaemon
      <3>4. stale' = [stale EXCEPT ![h] = FALSE] \/ stale' = stale
        BY <1>5, Zenon DEF RestartDaemon
      <3> HIDE DEF h
      <3>2. faults' \in 0 .. MaxFault
        BY <3>1, MeshHealAssumption DEF Fields
      <3>3. stale' \in [Host -> BOOLEAN]
        BY <3>4 DEF Fields
      <3> QED
        BY <3>2, <3>3 DEF Fields
    <2> HIDE DEF left
    <2>4. /\ o \in RunState /\ o.pc = run[r].pc /\ o.scan = run[r].scan
          /\ o.keys = run[r].keys /\ o.fleetKey = run[r].fleetKey
      BY <1>2, <2>1 DEF RunState
    <2> HIDE DEF o
    <2>5. /\ u \in RunState /\ u.pc = o.pc /\ u.scan = o.scan /\ u.keys = o.keys
          /\ u.fleetKey = o.fleetKey
      BY <2>4 DEF RunState
    <2> HIDE DEF u
    <2>6. RunOK(o, hostKey, made, probed) /\ RunOK(u, hostKey, made, probed)
      BY <1>2, <2>2, <2>4, <2>5, SamePlace DEF Busy
    <2> QED
      BY <1>1, <2>2, <2>3, <2>4, <2>5, <2>6, SetQuiet
  <1>6. CASE Ended(r)
    <2> DEFINE heal == run[r].heal
               fail == run[r].failed
               o == [Rest EXCEPT !.pc = "ended", !.heal = heal, !.failed = fail]
    <2>0. heal \in BOOLEAN /\ fail \in BOOLEAN /\ Rest \in RunState /\ "ended" \in Place
      BY <1>2, RestOK DEF RunState, Place
    <2>1. Set(r, o) /\ Fields'
      BY <1>6 DEF Ended, Fields, hosts
    <2> HIDE DEF heal, fail
    <2>2. o \in RunState
      BY <2>0 DEF RunState
    <2>3. o.pc = "ended" /\ o.scan = Zero /\ o.keys = Zero
      BY RestOK DEF RunState
    <2> HIDE DEF o
    <2> QED
      BY <1>1, <2>1, <2>2, <2>3, IdleRun, SetQuiet DEF Busy
  <1> QED
    BY <1>3, <1>4, <1>5, <1>6

\* The hosts are prepared: the pairs that remain have both their hosts scanned.
LEMMA PrepareStep ==
  ASSUME HostInv, Runners, Fields, NEW r \in Runner, Prepare(r)
  PROVE  HostInv' /\ Runners' /\ Fields'
  <1> DEFINE s == run[r]
  <1>1. /\ Quiet /\ hostKey \in Keys /\ made \in Keys
        /\ \A h \in Host : hostKey[h] # 0 /\ hostKey[h] \in 0 .. MaxKey
    BY HostKeys DEF Quiet, hosts, Prepare, HostInv, HostTypes, Keys
  <1>2. s \in RunState /\ RunOK(s, hostKey, made, probed) /\ s.pc = "prepare"
    BY DEF Runners, RunnerInv, Prepare
  <1>3. PICK lost \in {{}} \cup {{h} : h \in Addressed(r)} :
          LET prepped == Addressed(r) \ lost
              edges == IF ~s.heal /\ lost # {} THEN {}
                       ELSE {e \in ToHeal(s) : {e[1], e[2]} \subseteq prepped}
          IN  /\ faults + (IF lost = {} THEN 0 ELSE 1) <= MaxFault
              /\ faults' = faults + (IF lost = {} THEN 0 ELSE 1)
              /\ Set(r, [s EXCEPT !.pc = IF edges = {} THEN "restart" ELSE "pair",
                            !.edges = edges, !.step = IF edges = {} THEN 0 ELSE 1,
                            !.scan = [h \in Host |-> IF h \in prepped THEN hostKey[h] ELSE 0],
                            !.failed = edges # ToHeal(s),
                            !.view = Rest.view, !.reports = {}, !.queue = {}, !.seen = {}])
    BY DEF Prepare
  <1> DEFINE prepped == Addressed(r) \ lost
             edges == IF ~s.heal /\ lost # {} THEN {}
                      ELSE {e \in ToHeal(s) : {e[1], e[2]} \subseteq prepped}
             place == IF edges = {} THEN "restart" ELSE "pair"
             n == IF edges = {} THEN 0 ELSE 1
             scans == [h \in Host |-> IF h \in prepped THEN hostKey[h] ELSE 0]
             fail == edges # ToHeal(s)
             o == [s EXCEPT !.pc = place, !.edges = edges, !.step = n, !.scan = scans,
                            !.failed = fail, !.view = Rest.view, !.reports = {},
                            !.queue = {}, !.seen = {}]
  <1>4. Fields'
    <2>1. faults' \in 0 .. MaxFault
      BY <1>3, MeshHealAssumption DEF Fields
    <2>2. stale' \in [Host -> BOOLEAN]
      BY DEF Fields, Prepare, hosts
    <2> QED
      BY <2>1, <2>2 DEF Fields
  <1>5. Set(r, o)
    BY <1>3
  <1>6. edges \in SUBSET Edge
    BY <1>2 DEF ToHeal, Edge, RunState
  <1>7. \A e \in edges : scans[e[1]] # 0 /\ scans[e[2]] # 0
    BY <1>1, <1>6 DEF Edge
  <1>8. scans \in Keys /\ \A h \in Host : scans[h] <= hostKey[h]
    BY <1>1, MeshHealAssumption DEF Keys, MaxKey
  <1>9. fail \in BOOLEAN /\ n \in 0 .. 12 /\ place \in Place
    BY PlaceTypes
  <1>10. /\ edges = {} => place = "restart"
         /\ edges # {} => place = "pair" /\ n = 1
    OBVIOUS
  <1> HIDE DEF edges, place, n, scans, fail
  <1>11. o \in RunState
    <2>1. Rest.view \in View
      BY RestOK DEF RunState
    <2> QED
      BY <1>2, <1>6, <1>8, <1>9, <2>1 DEF RunState
  <1>12. /\ o.pc = place /\ o.edges = edges /\ o.step = n /\ o.scan = scans
         /\ o.keys = s.keys /\ o.fleetKey = s.fleetKey
    BY <1>2 DEF RunState
  <1> HIDE DEF o
  <1>13. ScanOK(o, hostKey)
    BY <1>2, <1>7, <1>8, <1>10, <1>12 DEF RunOK, ScanOK, Busy
  <1>14. KeysOK(o, made) /\ ProofOK(o, probed) /\ ApplyOK(o)
    BY <1>2, <1>10, <1>12 DEF RunOK, KeysOK, ProofOK, ApplyOK, Busy
  <1> QED
    BY <1>1, <1>4, <1>5, <1>11, <1>13, <1>14, SetQuiet DEF RunOK

-----------------------------------------------------------------------------
(* The commands of a pair *)

\* A command that is refused or fails
LEMMA RefusedStep ==
  ASSUME HostInv, Runners, NEW r \in Runner, Busy(run[r]), Set(r, Over(run[r], FALSE)), Quiet
  PROVE  HostInv' /\ Runners'
  <1>1. run[r] \in RunState /\ RunOK(run[r], hostKey, made, probed)
    BY DEF Runners, RunnerInv
  <1>2. hostKey \in Keys /\ made \in Keys
    BY HostKeys DEF HostInv, HostTypes
  <1>3. /\ Over(run[r], FALSE) \in RunState
        /\ RunOK(Over(run[r], FALSE), hostKey, made, probed)
    BY <1>1, <1>2, OverRun DEF RunOK
  <1> QED
    BY <1>3, SetQuiet

\* Where a command is
LEMMA CommandAt ==
  ASSUME HostInv, Runners, NEW r \in Runner, Busy(run[r])
  PROVE  /\ run[r] \in RunState /\ RunOK(run[r], hostKey, made, probed)
         /\ run[r].edges # {} /\ run[r].step \in 1 .. 12
         /\ First(run[r].edges) \in run[r].edges /\ First(run[r].edges) \in Edge
         /\ One(run[r]) \in Host /\ Two(run[r]) \in Host
         /\ Now(r) = Commands(First(run[r].edges))[run[r].step]
         /\ Target(run[r]) = Now(r)[2] /\ Peer(run[r]) = Now(r)[3]
  <1>1. run[r] \in RunState /\ RunOK(run[r], hostKey, made, probed)
    BY DEF Runners, RunnerInv
  <1>2. run[r].edges # {} /\ run[r].step # 0
    BY <1>1 DEF RunOK, ScanOK
  <1>3. run[r].step \in 1 .. 12
    BY <1>1, <1>2 DEF RunState
  <1> QED
    BY <1>1, <1>2, <1>3, PairHosts DEF Now, Target, Peer

\* Which hosts it is about
LEMMA CommandHosts ==
  ASSUME HostInv, Runners, NEW r \in Runner, Busy(run[r])
  PROVE  LET s == run[r]  a == One(run[r])  b == Two(run[r])  c == Now(r)
         IN  /\ c[1] = "pin" => s.step \in {1, 2}
             /\ c[1] = "key" => (s.step = 3 /\ c[2] = a) \/ (s.step = 4 /\ c[2] = b)
             /\ c[1] = "auth" => s.step \in {5, 6}
             /\ c[1] = "probe" => \/ s.step = 7 /\ c[2] = a /\ c[3] = b
                                  \/ s.step = 8 /\ c[2] = b /\ c[3] = a
             /\ c[1] \in {"stage", "ready"} => s.step > 8
             /\ s.step \notin {3, 4} => \/ c[2] = a /\ c[3] = b
                                        \/ c[2] = b /\ c[3] = a
  <1>1. PICK e \in Edge : e = First(run[r].edges)
    BY CommandAt
  <1>2. PICK n \in 1 .. 12 : n = run[r].step
    BY CommandAt
  <1>3. One(run[r]) = e[1] /\ Two(run[r]) = e[2] /\ Now(r) = Commands(e)[n]
    BY <1>1, <1>2, CommandAt DEF One, Two
  <1> DEFINE c == Commands(e)[n]
  <1>4. /\ n \in {1, 3, 5, 7, 9, 11} => c[2] = e[1]
        /\ n \in {2, 4, 6, 8, 10, 12} => c[2] = e[2]
        /\ n \in {1, 5, 7, 9, 11} => c[3] = e[2]
        /\ n \in {2, 6, 8, 10, 12} => c[3] = e[1]
        /\ c[1] = "pin" => n \in {1, 2}
        /\ c[1] = "key" => n \in {3, 4}
        /\ c[1] = "auth" => n \in {5, 6}
        /\ c[1] = "probe" => n \in {7, 8}
        /\ c[1] \in {"stage", "ready"} => n > 8
    BY CommandOf
  <1>5. Now(r) = c
    BY <1>3
  <1> HIDE DEF c
  <1>6. n \notin {3, 4} => (c[2] = e[1] /\ c[3] = e[2]) \/ (c[2] = e[2] /\ c[3] = e[1])
    BY <1>4
  <1>7. /\ c[1] = "key" => (n = 3 /\ c[2] = e[1]) \/ (n = 4 /\ c[2] = e[2])
        /\ c[1] = "probe" => \/ n = 7 /\ c[2] = e[1] /\ c[3] = e[2]
                             \/ n = 8 /\ c[2] = e[2] /\ c[3] = e[1]
    BY <1>4
  <1> QED
    BY <1>2, <1>3, <1>4, <1>5, <1>6, <1>7

\* ssh-upsert-known-host-pin: a pin is never taken back or changed.
LEMMA PinStep ==
  ASSUME HostInv, Runners, Fields, NEW r \in Runner, UpsertKnownHostPin(r)
  PROVE  HostInv' /\ Runners' /\ Fields'
  <1> DEFINE s == run[r]  h == Now(r)[2]  t == Now(r)[3]  key == run[r].scan[t]
  <1>0. Busy(s) /\ Now(r)[1] = "pin" /\ s.pc = "pair"
    BY DEF UpsertKnownHostPin, At, Busy
  <1>1. hostKey \in Keys /\ made \in Keys
    BY HostKeys DEF HostInv, HostTypes
  <1>2. CASE Set(r, Over(s, FALSE)) /\ UNCHANGED <<pins, faults>>
    <2>1. Quiet /\ Fields'
      BY <1>2 DEF UpsertKnownHostPin, Quiet, Fields
    <2> QED
      BY <1>0, <1>2, <2>1, RefusedStep
  <1>3. CASE pins[h][t] \in {0, key} /\ pins' = [pins EXCEPT ![h][t] = key]
             /\ Answered(r, Advance(s))
    <2>1. s.step \in {1, 2}
      BY <1>0, CommandHosts
    <2>2. h \in Host /\ t \in {One(s), Two(s)}
      BY <1>0, <2>1, CommandAt, CommandHosts
    <2>3. t \in Host /\ key # 0 /\ key <= hostKey[t] /\ key \in 0 .. MaxKey
      BY <1>0, <2>2, CommandAt DEF RunOK, ScanOK, One, Two, RunState, Keys
    <2> HIDE DEF h, t, key
    <2>4. UNCHANGED <<hostKey, syncKey, made, auth, row, fleetKey, stale, upsets, probed>>
      BY DEF UpsertKnownHostPin
    <2>5. HostTypes'
      BY <1>3, <2>2, <2>3, <2>4 DEF HostInv, HostTypes, Keys
    <2>6. \A a, b \in Host : /\ pins'[a][b] = IF a = h /\ b = t THEN key ELSE pins[a][b]
                             /\ pins[a][b] # 0 => pins'[a][b] # 0
      BY <1>3, <2>2, <2>3 DEF HostInv, HostTypes, Keys
    <2>7. CountInv' /\ RecordInv' /\ ProbeInv' /\ RowInv'
      BY <2>3, <2>4, <2>6 DEF HostInv, CountInv, RecordInv, ProbeInv, RowInv
    <2>8. Advance(s) \in RunState /\ RunOK(Advance(s), hostKey, made, probed)
      <3>1. s \in RunState /\ ScanOK(s, hostKey) /\ KeysOK(s, made) /\ ProofOK(s, probed)
        BY <1>0, CommandAt DEF RunOK
      <3>2. s.step # 3 /\ s.step # 4 /\ s.step # 7 /\ s.step # 8
        BY <2>1
      <3> HIDE DEF s
      <3> QED
        BY <1>0, <1>1, <3>1, <3>2, AdvanceRun
    <2>9. /\ faults' \in 0 .. MaxFault
          /\ \E o \in RunState : Set(r, o) /\ RunOK(o, hostKey, made, probed)
      BY <1>0, <1>1, <1>3, <2>8, CommandAt, AnsweredRun DEF RunOK
    <2>10. \A g \in Host : hostKey[g] <= hostKey'[g] /\ made[g] <= made'[g]
      BY <1>1, <2>4 DEF Keys, MaxKey
    <2>11. Runners'
      BY <2>4, <2>5, <2>9, <2>10, SetRun DEF HostInv
    <2> QED
      BY <2>4, <2>5, <2>7, <2>9, <2>11 DEF HostInv, Fields
  <1> QED
    BY <1>2, <1>3 DEF UpsertKnownHostPin

\* ssh-ensure-sync-key: the key of a host is made at most once before it is lost.
LEMMA KeyStep ==
  ASSUME HostInv, Runners, Fields, NEW r \in Runner, EnsureSyncKey(r)
  PROVE  HostInv' /\ Runners' /\ Fields'
  <1> DEFINE s == run[r]  h == Now(r)[2]  key == SyncKeyOf(h)
             have == [s.keys EXCEPT ![h] = key]
             o == [s EXCEPT !.keys = have]
  <1>0. Busy(s) /\ Now(r)[1] = "key" /\ s.pc = "pair"
    BY DEF EnsureSyncKey, At, Busy
  <1>1. hostKey \in Keys /\ made \in Keys /\ syncKey \in Keys /\ upsets \in 0 .. MaxUpset
    BY HostKeys DEF HostInv, HostTypes
  <1>2. /\ s \in RunState /\ ScanOK(s, hostKey) /\ KeysOK(s, made) /\ s.keys \in Keys
        /\ One(s) \in Host /\ Two(s) \in Host
    BY <1>0, CommandAt DEF RunOK, RunState
  <1>3. (s.step = 3 /\ h = One(s)) \/ (s.step = 4 /\ h = Two(s))
    BY <1>0, CommandHosts
  <1>4. h \in Host
    BY <1>2, <1>3
  <1>5. /\ syncKey' = [syncKey EXCEPT ![h] = key]
        /\ made' = [made EXCEPT ![h] = IF key > made[h] THEN key ELSE made[h]]
        /\ UNCHANGED <<hostKey, pins, auth, row, fleetKey, stale, upsets, probed>>
    BY DEF EnsureSyncKey
  <1>6. Answered(r, Advance(o))
    BY <1>2 DEF EnsureSyncKey, RunState
  <1>7. /\ key # 0 /\ key \in 0 .. MaxKey /\ key <= 1 + upsets
        /\ key > made[h] => key = made[h] + 1
    <2>1. /\ made[h] \in Nat /\ syncKey[h] \in Nat /\ upsets \in 0 .. MaxUpset /\ MaxUpset \in Nat
          /\ made[h] <= 1 + upsets /\ syncKey[h] <= made[h]
          /\ syncKey[h] = 0 => made[h] <= upsets
      <3> HIDE DEF h
      <3> QED
        BY <1>1, <1>4, MeshHealAssumption DEF HostInv, CountInv, Keys
    <2>2. syncKey[h] # 0 => key = syncKey[h]
      BY DEF SyncKeyOf
    <2>3. syncKey[h] = 0 => key = made[h] + 1
      BY DEF SyncKeyOf
    <2> HIDE DEF key
    <2> QED
      BY <2>1, <2>2, <2>3 DEF MaxKey
  <1> HIDE DEF h, key
  <1>8. /\ syncKey' \in Keys /\ made' \in Keys /\ syncKey'[h] = key /\ key <= made'[h]
        /\ \A g \in Host : /\ made[g] <= made'[g] /\ made'[g] <= 1 + upsets
                           /\ g # h => made'[g] = made[g] /\ syncKey'[g] = syncKey[g]
    BY <1>1, <1>4, <1>5, <1>7 DEF Keys, MaxKey, HostInv, CountInv
  <1>9. HostTypes'
    BY <1>5, <1>8 DEF HostInv, HostTypes
  <1>10. CountInv'
    BY <1>5, <1>7, <1>8 DEF HostInv, CountInv
  <1>11. RecordInv'
    <2> SUFFICES ASSUME NEW a \in Host, NEW b \in Host
                 PROVE  /\ pins[a][b] <= hostKey[b] /\ auth[b][a] <= made'[a]
                        /\ row[a][b].connect <= made'[a] /\ row[a][b].accept <= made'[b]
      BY <1>5 DEF RecordInv
    <2>1. /\ pins[a][b] <= hostKey[b] /\ auth[b][a] <= made[a]
          /\ row[a][b].connect <= made[a] /\ row[a][b].accept <= made[b]
      BY DEF HostInv, RecordInv
    <2>2. made[a] \in Nat /\ made[b] \in Nat /\ made'[a] \in Nat /\ made'[b] \in Nat
      BY <1>1, <1>8 DEF Keys
    <2>3. auth[b][a] \in Nat /\ row[a][b].connect \in Nat /\ row[a][b].accept \in Nat
      BY DEF HostInv, HostTypes, Keys, PeerRow
    <2> QED
      BY <1>8, <2>1, <2>2, <2>3
  <1>12. ProbeInv' /\ RowInv'
    BY <1>5 DEF HostInv, ProbeInv, RowInv
  <1>13. have \in Keys /\ have[h] = key /\ \A g \in Host : g # h => have[g] = s.keys[g]
    BY <1>2, <1>4, <1>7 DEF Keys
  <1>14. /\ o \in RunState /\ o.pc = s.pc /\ o.step = s.step /\ o.edges = s.edges
         /\ o.scan = s.scan /\ o.keys = have /\ o.fleetKey = s.fleetKey
    <2> HIDE DEF have
    <2> QED
      BY <1>2, <1>13 DEF RunState
  <1> HIDE DEF have, o
  <1>15. One(o) = One(s) /\ Two(o) = Two(s)
    BY <1>14 DEF One, Two
  <1>16. ScanOK(o, hostKey) /\ ProofOK(o, probed) /\ Busy(o)
    BY <1>0, <1>2, <1>3, <1>14 DEF ScanOK, ProofOK, Busy
  <1>17. KeysOK(o, made')
    <2>1. \A g \in Host : have[g] <= made'[g]
      <3> SUFFICES ASSUME NEW g \in Host, g # h PROVE have[g] <= made'[g]
        BY <1>8, <1>13
      <3>1. have[g] = s.keys[g] /\ s.keys[g] <= made[g] /\ made'[g] = made[g]
        BY <1>2, <1>8, <1>13 DEF KeysOK
      <3> QED
        BY <3>1
    <2>2. s.step = 4 => s.keys[One(s)] # 0
      BY <1>0, <1>2 DEF KeysOK
    <2> QED
      BY <1>2, <1>3, <1>7, <1>13, <1>14, <1>15, <2>1, <2>2 DEF KeysOK
  <1>18. /\ o.step = 3 => o.keys[One(o)] # 0
         /\ o.step = 4 => o.keys[Two(o)] # 0
         /\ o.step # 7 /\ o.step # 8
    BY <1>3, <1>7, <1>13, <1>14, <1>15
  <1>19. Advance(o) \in RunState /\ RunOK(Advance(o), hostKey, made', probed)
    BY <1>1, <1>8, <1>14, <1>16, <1>17, <1>18, AdvanceRun
  <1>20. /\ faults' \in 0 .. MaxFault
         /\ \E u \in RunState : Set(r, u) /\ RunOK(u, hostKey, made', probed)
    BY <1>0, <1>1, <1>2, <1>6, <1>8, <1>19, AnsweredRun
  <1>21. \A g \in Host : hostKey[g] <= hostKey'[g] /\ made[g] <= made'[g]
    BY <1>1, <1>5, <1>8 DEF Keys, MaxKey
  <1>22. Runners'
    BY <1>5, <1>9, <1>20, <1>21, SetRun DEF HostInv
  <1> QED
    BY <1>5, <1>9, <1>10, <1>11, <1>12, <1>20, <1>22 DEF HostInv, Fields

\* ssh-install-authorized-key: the line of a peer always has a key.
LEMMA AuthStep ==
  ASSUME HostInv, Runners, Fields, NEW r \in Runner, InstallAuthorizedKey(r)
  PROVE  HostInv' /\ Runners' /\ Fields'
  <1> DEFINE u == run[r]  s == Now(r)[2]  t == Now(r)[3]  key == u.keys[s]
  <1>0. Busy(u) /\ Now(r)[1] = "auth" /\ u.pc = "pair"
    BY DEF InstallAuthorizedKey, At, Busy
  <1>1. hostKey \in Keys /\ made \in Keys
    BY HostKeys DEF HostInv, HostTypes
  <1>2. /\ u \in RunState /\ ScanOK(u, hostKey) /\ KeysOK(u, made) /\ ProofOK(u, probed)
        /\ One(u) \in Host /\ Two(u) \in Host /\ u.keys \in Keys
    BY <1>0, CommandAt DEF RunOK, RunState
  <1>3. /\ u.step \in {5, 6}
        /\ (s = One(u) /\ t = Two(u)) \/ (s = Two(u) /\ t = One(u))
    <2>1. u.step \in {5, 6}
      BY <1>0, CommandHosts
    <2>2. u.step \notin {3, 4}
      BY <2>1
    <2> QED
      BY <1>0, <2>1, <2>2, CommandHosts
  <1>4. s \in Host /\ t \in Host
    BY <1>2, <1>3
  <1>5. key # 0 /\ key <= made[s] /\ key \in 0 .. MaxKey
    BY <1>0, <1>2, <1>3, <1>4 DEF KeysOK, Keys
  <1>6. /\ auth' = [auth EXCEPT ![t][s] = key] /\ Answered(r, Advance(u))
        /\ UNCHANGED <<hostKey, pins, syncKey, made, row, fleetKey, stale, upsets, probed>>
    BY DEF InstallAuthorizedKey
  <1> HIDE DEF s, t, key
  <1>7. HostTypes'
    BY <1>4, <1>5, <1>6 DEF HostInv, HostTypes, Keys
  <1>8. \A a, b \in Host : /\ auth'[a][b] = IF a = t /\ b = s THEN key ELSE auth[a][b]
                           /\ auth[a][b] # 0 => auth'[a][b] # 0
    BY <1>4, <1>5, <1>6 DEF HostInv, HostTypes, Keys
  <1>9. CountInv' /\ RecordInv' /\ ProbeInv' /\ RowInv'
    BY <1>5, <1>6, <1>8 DEF HostInv, CountInv, RecordInv, ProbeInv, RowInv
  <1>10. Advance(u) \in RunState /\ RunOK(Advance(u), hostKey, made, probed)
    <2>1. u.step # 3 /\ u.step # 4 /\ u.step # 7 /\ u.step # 8
      BY <1>3
    <2> HIDE DEF u
    <2> QED
      BY <1>0, <1>1, <1>2, <2>1, AdvanceRun
  <1>11. /\ faults' \in 0 .. MaxFault
         /\ \E o \in RunState : Set(r, o) /\ RunOK(o, hostKey, made, probed)
    BY <1>0, <1>1, <1>2, <1>6, <1>10, AnsweredRun
  <1>12. \A g \in Host : hostKey[g] <= hostKey'[g] /\ made[g] <= made'[g]
    BY <1>1, <1>6 DEF Keys, MaxKey
  <1>13. Runners'
    BY <1>6, <1>7, <1>11, <1>12, SetRun DEF HostInv
  <1> QED
    BY <1>6, <1>7, <1>9, <1>11, <1>13 DEF HostInv, Fields

\* ssh-run-probe: a probe that gets through is recorded with the key it needed.
LEMMA ProbeStep ==
  ASSUME HostInv, Runners, Fields, NEW r \in Runner, RunProbe(r)
  PROVE  HostInv' /\ Runners' /\ Fields'
  <1> DEFINE u == run[r]  s == Now(r)[2]  t == Now(r)[3]  key == Shown(t, u.keys[s])
  <1>0. Busy(u) /\ Now(r)[1] = "probe" /\ u.pc = "pair"
    BY DEF RunProbe, At, Busy
  <1>1. hostKey \in Keys /\ made \in Keys
    BY HostKeys DEF HostInv, HostTypes
  <1>2. CASE Set(r, Over(u, FALSE)) /\ UNCHANGED <<probed, faults>>
    <2>1. Quiet /\ Fields'
      BY <1>2 DEF RunProbe, Quiet, Fields, hosts
    <2> QED
      BY <1>0, <1>2, <2>1, RefusedStep
  <1>3. CASE ProbeOK(r, s, t) /\ probed' = probed \cup {<<s, t, key>>} /\ Answered(r, Advance(u))
    <2>1. /\ u \in RunState /\ ScanOK(u, hostKey) /\ KeysOK(u, made) /\ ProofOK(u, probed)
          /\ One(u) \in Host /\ Two(u) \in Host /\ u.keys \in Keys
      BY <1>0, CommandAt DEF RunOK, RunState
    <2>2. \/ u.step = 7 /\ s = One(u) /\ t = Two(u)
          \/ u.step = 8 /\ s = Two(u) /\ t = One(u)
      BY <1>0, CommandHosts
    <2>3. s \in Host /\ t \in Host
      BY <2>1, <2>2
    <2>4. u.keys[s] # 0 /\ key \in 0 .. MaxKey
      <3>1. u.keys[s] # 0 /\ u.keys[s] \in 0 .. MaxKey
        BY <1>0, <2>1, <2>2, <2>3 DEF KeysOK, Keys
      <3>2. 0 \in 0 .. MaxKey
        BY MeshHealAssumption DEF MaxKey
      <3> QED
        BY <3>1, <3>2 DEF Shown
    <2>5. pins[s][t] # 0 /\ (t \in Direct \/ auth[t][s] # 0)
      BY <1>3, <2>3, <2>4 DEF ProbeOK, HostInv, HostTypes
    <2>6. UNCHANGED <<hostKey, pins, syncKey, made, auth, row, fleetKey, stale, upsets>>
      BY DEF RunProbe, hosts
    <2>7. probed \subseteq probed' /\ <<s, t, key>> \in probed'
      BY <1>3
    <2>8. ProofOK(u, probed')
      BY <2>1, <2>7 DEF ProofOK
    <2>9. /\ u.step = 7 => <<One(u), Two(u), Shown(Two(u), u.keys[One(u)])>> \in probed'
          /\ u.step = 8 => <<Two(u), One(u), Shown(One(u), u.keys[Two(u)])>> \in probed'
          /\ u.step # 3 /\ u.step # 4
      BY <2>2, <2>7
    <2> HIDE DEF s, t, key
    <2>10. HostTypes'
      BY <1>3, <2>3, <2>4, <2>6 DEF HostInv, HostTypes
    <2>11. CountInv' /\ RecordInv' /\ RowInv'
      BY <2>6, <2>7 DEF HostInv, CountInv, RecordInv, RowInv, RowOK
    <2>12. ProbeInv'
      BY <1>3, <2>4, <2>5, <2>6 DEF HostInv, ProbeInv
    <2>13. Advance(u) \in RunState /\ RunOK(Advance(u), hostKey, made, probed')
      <3> HIDE DEF u
      <3> QED
        BY <1>0, <1>1, <2>1, <2>8, <2>9, AdvanceRun
    <2>14. /\ faults' \in 0 .. MaxFault
           /\ \E o \in RunState : Set(r, o) /\ RunOK(o, hostKey, made, probed')
      BY <1>0, <1>1, <1>3, <2>1, <2>13, AnsweredRun
    <2>15. \A g \in Host : hostKey[g] <= hostKey'[g] /\ made[g] <= made'[g]
      BY <1>1, <2>6 DEF Keys, MaxKey
    <2>16. Runners'
      BY <2>6, <2>7, <2>10, <2>14, <2>15, SetRun DEF HostInv
    <2> QED
      BY <2>6, <2>10, <2>11, <2>12, <2>14, <2>16 DEF HostInv, Fields
  <1> QED
    BY <1>2, <1>3 DEF RunProbe

-----------------------------------------------------------------------------
(* ssh-apply-direct-config *)

\* The hosts an Apply is about, and what it rests on
LEMMA ApplyAt ==
  ASSUME HostInv, Runners, NEW r \in Runner, run[r].pc = "apply"
  PROVE  LET s == run[r]  h == Now(r)[2]  p == Now(r)[3]
         IN  /\ s \in RunState /\ Busy(s) /\ RunOK(s, hostKey, made, probed)
             /\ h = Target(s) /\ p = Peer(s) /\ h \in Host /\ p \in Host
             /\ s.step \in 9 .. 12 /\ s.update # "none"
             /\ s.keys[h] \in 0 .. MaxKey /\ s.keys[h] <= made[h] /\ s.keys[h] # 0
             /\ s.keys[p] \in 0 .. MaxKey /\ s.keys[p] <= made[p] /\ s.keys[p] # 0
             /\ <<h, p, Shown(p, s.keys[h])>> \in probed
             /\ <<p, h, Shown(h, s.keys[p])>> \in probed
  <1> DEFINE s == run[r]
  <1>1. /\ Busy(s) /\ s \in RunState /\ RunOK(s, hostKey, made, probed)
        /\ s.step \in 1 .. 12 /\ Target(s) = Now(r)[2] /\ Peer(s) = Now(r)[3]
        /\ One(s) \in Host /\ Two(s) \in Host
    BY CommandAt DEF Busy
  <1>2. s.step > 8 /\ s.update # "none"
    BY <1>1 DEF RunOK, ApplyOK
  <1>3. s.step \in 9 .. 12 /\ s.step \notin {3, 4} /\ s.step > 7
    BY <1>1, <1>2
  <1>4. \/ Target(s) = One(s) /\ Peer(s) = Two(s)
        \/ Target(s) = Two(s) /\ Peer(s) = One(s)
    BY <1>1, <1>3, CommandHosts
  <1>5. \A g \in Host : s.keys[g] \in 0 .. MaxKey /\ s.keys[g] <= made[g]
    BY <1>1 DEF RunOK, KeysOK, RunState, Keys
  <1>6. /\ <<One(s), Two(s), Shown(Two(s), s.keys[One(s)])>> \in probed
        /\ <<Two(s), One(s), Shown(One(s), s.keys[Two(s)])>> \in probed
    BY <1>1, <1>2, <1>3 DEF RunOK, ProofOK
  <1>7. Target(s) \in Host /\ Peer(s) \in Host
    BY <1>1, <1>4
  <1>8. /\ <<Target(s), Peer(s), Shown(Peer(s), s.keys[Target(s)])>> \in probed
        /\ <<Peer(s), Target(s), Shown(Target(s), s.keys[Peer(s)])>> \in probed
    BY <1>4, <1>6
  <1>9. s.keys[Target(s)] # 0 /\ s.keys[Peer(s)] # 0
    <2>1. s.step > 3 /\ s.step > 4
      BY <1>3
    <2> QED
      BY <1>1, <1>4, <2>1 DEF RunOK, KeysOK
  <1> QED
    BY <1>1, <1>2, <1>3, <1>5, <1>7, <1>8, <1>9

\* Reading and refusing
LEMMA ReadStep ==
  ASSUME HostInv, Runners, Fields, NEW r \in Runner, ApplyRead(r) \/ ApplyRefused(r) \/ Fails(r)
  PROVE  HostInv' /\ Runners' /\ Fields'
  <1>1. Quiet
    BY DEF Quiet, hosts, ApplyRead, ApplyRefused, Fails
  <1>2. Fields'
    <2>1. stale' = stale /\ (faults' = faults \/ (faults < MaxFault /\ faults' = faults + 1))
      BY DEF ApplyRead, ApplyRefused, Fails, hosts
    <2> QED
      BY <2>1, MeshHealAssumption DEF Fields
  <1>3. Busy(run[r])
    BY DEF ApplyRead, ApplyRefused, Fails, Busy
  <1>4. CASE ApplyRefused(r) \/ Fails(r)
    <2>1. Set(r, Over(run[r], FALSE))
      BY <1>4 DEF ApplyRefused, Fails
    <2> QED
      BY <1>1, <1>2, <1>3, <2>1, RefusedStep
  <1>5. CASE ApplyRead(r)
    <2> DEFINE s == run[r]
               state == row[Now(r)[2]][Now(r)[3]].state
               update == IF Now(r)[1] = "stage" THEN "material" ELSE "ready"
               o == [s EXCEPT !.pc = "apply", !.current = TRUE, !.read = state,
                              !.update = update]
    <2>1. Set(r, o) /\ Now(r)[1] \in {"stage", "ready"}
      BY <1>5 DEF ApplyRead
    <2>2. /\ s \in RunState /\ RunOK(s, hostKey, made, probed) /\ s.step > 8
          /\ s.step \in 1 .. 12 /\ s.edges # {}
          /\ Target(s) = Now(r)[2] /\ Peer(s) = Now(r)[3]
      BY <1>3, <2>1, CommandAt, CommandHosts
    <2>3. Target(s) \in Host /\ Peer(s) \in Host
      <3>1. s.step # 0 /\ s.step \notin {3, 4}
        BY <2>2
      <3> QED
        BY <2>2, <3>1, StepHosts
    <2>4. state \in States
      BY <2>2, <2>3 DEF HostInv, HostTypes, PeerRow
    <2>5. update \in Update /\ update # "none"
      BY PlaceTypes
    <2> HIDE DEF state, update
    <2>7. o \in RunState
      BY <2>2, <2>4, <2>5, PlaceTypes DEF RunState
    <2>8. /\ o.pc = "apply" /\ o.step = s.step /\ o.edges = s.edges /\ o.scan = s.scan
          /\ o.keys = s.keys /\ o.fleetKey = s.fleetKey /\ o.update = update
      BY <2>2 DEF RunState
    <2> HIDE DEF o
    <2>9. One(o) = One(s) /\ Two(o) = Two(s)
      BY <2>8 DEF One, Two
    <2>10. ScanOK(o, hostKey) /\ KeysOK(o, made) /\ ProofOK(o, probed)
      BY <1>3, <2>2, <2>8, <2>9 DEF RunOK, ScanOK, KeysOK, ProofOK, Busy
    <2>11. ApplyOK(o)
      BY <2>2, <2>5, <2>8 DEF ApplyOK
    <2> QED
      BY <1>1, <1>2, <2>1, <2>7, <2>10, <2>11, SetQuiet DEF RunOK
  <1> QED
    BY <1>4, <1>5

\* A peer is written: the conditions on the hosts are those on its new row.
LEMMA RowStep ==
  ASSUME HostInv, NEW h \in Host, NEW p \in Host, NEW new \in PeerRow,
         row' = [row EXCEPT ![h][p] = new],
         UNCHANGED <<hostKey, pins, syncKey, made, auth, fleetKey, probed>>,
         upsets' \in 0 .. MaxUpset, upsets <= upsets',
         new.connect <= made[h], new.accept <= made[p], RowOK(h, p, new, probed)
  PROVE  HostInv'
  <1>1. /\ HostTypes'
        /\ \A a, b \in Host : row'[a][b] = IF a = h /\ b = p THEN new ELSE row[a][b]
    BY DEF HostInv, HostTypes
  <1>2. CountInv'
    BY MeshHealAssumption DEF HostInv, CountInv, HostTypes, Keys, MaxKey
  <1>3. RecordInv' /\ ProbeInv'
    BY <1>1 DEF HostInv, RecordInv, ProbeInv
  <1>4. RowInv'
    <2> SUFFICES ASSUME NEW a \in Host, NEW b \in Host PROVE RowOK(a, b, row'[a][b], probed)
      BY DEF RowInv
    <2>1. RowOK(a, b, row[a][b], probed)
      BY DEF HostInv, RowInv
    <2>2. row'[a][b] = IF a = h /\ b = p THEN new ELSE row[a][b]
      BY <1>1
    <2> QED
      BY <2>1, <2>2
  <1> QED
    BY <1>1, <1>2, <1>3, <1>4 DEF HostInv

\* The next update of an Apply: its runner stays where it is.
LEMMA UpdateRun ==
  ASSUME NEW s \in RunState, NEW state \in States, NEW update \in Update,
         NEW host, NEW keys, NEW proven,
         RunOK(s, host, keys, proven), s.pc = "apply", update # "none",
         NEW o, o = [s EXCEPT !.update = update, !.read = state]
  PROVE  o \in RunState /\ RunOK(o, host, keys, proven)
  <1>1. /\ o \in RunState /\ o.pc = s.pc /\ o.step = s.step /\ o.edges = s.edges
        /\ o.scan = s.scan /\ o.keys = s.keys /\ o.fleetKey = s.fleetKey
        /\ o.update = update
    BY DEF RunState
  <1>2. One(o) = One(s) /\ Two(o) = Two(s)
    BY <1>1 DEF One, Two
  <1>3. ScanOK(o, host) /\ KeysOK(o, keys) /\ ProofOK(o, proven)
    BY <1>1, <1>2 DEF RunOK, ScanOK, KeysOK, ProofOK, Busy
  <1>4. ApplyOK(o)
    BY <1>1 DEF RunOK, ApplyOK
  <1> QED
    BY <1>1, <1>3, <1>4 DEF RunOK

\* UpdateSSHLocalMaterial, UpsertSSHPeer, PatchSSHPeerProof
LEMMA UpdateStep ==
  ASSUME HostInv, Runners, Fields, NEW r \in Runner,
         UpdateMaterial(r) \/ UpsertPeer(r) \/ PatchProof(r)
  PROVE  HostInv' /\ Runners' /\ Fields'
  <1> DEFINE s == run[r]  h == Now(r)[2]  p == Now(r)[3]  old == row[h][p]
  <1>0. s.pc = "apply" /\ s.current
    BY DEF UpdateMaterial, UpsertPeer, PatchProof, Updating
  <1>1. /\ s \in RunState /\ Busy(s) /\ RunOK(s, hostKey, made, probed)
        /\ h = Target(s) /\ p = Peer(s) /\ h \in Host /\ p \in Host
        /\ s.keys[h] \in 0 .. MaxKey /\ s.keys[h] <= made[h] /\ s.keys[h] # 0
        /\ s.keys[p] \in 0 .. MaxKey /\ s.keys[p] <= made[p] /\ s.keys[p] # 0
        /\ <<h, p, Shown(p, s.keys[h])>> \in probed
        /\ <<p, h, Shown(h, s.keys[p])>> \in probed
    BY <1>0, ApplyAt
  <1>2. s.read \in States
    BY <1>1 DEF RunState
  <1>3. old \in PeerRow /\ old.connect <= made[h] /\ old.accept <= made[p]
    BY <1>1 DEF HostInv, HostTypes, RecordInv
  <1>4. RowOK(h, p, old, probed)
    BY <1>1 DEF HostInv, RowInv
  <1>5. s.fleetKey \in Host
    BY <1>0, <1>1 DEF RunOK, ScanOK
  <1>6. Fields' /\ upsets' = upsets
    <2>1. stale' = [stale EXCEPT ![h] = TRUE] /\ faults' = faults /\ upsets' = upsets
      BY DEF UpdateMaterial, UpsertPeer, PatchProof, SetRow
    <2> HIDE DEF h
    <2> QED
      BY <2>1 DEF Fields
  <1>7. h \in Host /\ p \in Host /\ upsets' \in 0 .. MaxUpset /\ upsets <= upsets'
    BY <1>1, <1>6, MeshHealAssumption DEF HostInv, HostTypes
  <1>8. CASE UpdateMaterial(r)
    <2> DEFINE o == [s EXCEPT !.update = "upsert", !.read = s.read]
    <2>1. o = [s EXCEPT !.update = "upsert"]
      BY <1>1 DEF RunState
    <2>2. /\ fleetKey' = [fleetKey EXCEPT ![h] = s.fleetKey] /\ Outdate(r, h, o)
          /\ UNCHANGED <<hostKey, pins, syncKey, made, auth, row, upsets, probed>>
      BY <1>8, <2>1 DEF UpdateMaterial
    <2> HIDE DEF h, p
    <2>3. fleetKey' \in [Host -> Host]
      BY <1>1, <1>5, <2>2 DEF HostInv, HostTypes
    <2>4. HostInv'
      BY <2>2, <2>3 DEF HostInv, HostTypes, CountInv, RecordInv, ProbeInv, RowInv
    <2> HIDE DEF s, old
    <2>5. o \in RunState /\ RunOK(o, hostKey, made, probed)
      BY <1>0, <1>1, <1>2, PlaceTypes, UpdateRun
    <2> HIDE DEF o
    <2>6. Runners'
      BY <1>1, <2>2, <2>5, OutdateRun
    <2> QED
      BY <1>6, <2>4, <2>6
  <1>9. CASE UpsertPeer(r)
    <2> DEFINE state == IF s.read = "absent" THEN "loopback_unprovisioned" ELSE s.read
               kept == IF s.read = "absent" THEN "loopback_unprovisioned" ELSE old.state
               new == [old EXCEPT !.enabled = TRUE, !.state = kept]
               o == [s EXCEPT !.update = "proof", !.read = state]
    <2>1. SetRow(h, p, new)
      BY <1>3, <1>9 DEF UpsertPeer, PeerRow
    <2>2. Outdate(r, h, o)
      BY <1>1, <1>9 DEF UpsertPeer, RunState
    <2>3. state \in States /\ kept \in States
      BY <1>2, <1>3 DEF PeerRow, States
    <2>4. kept = "ssh_keys_ready" => old.state = "ssh_keys_ready" /\ Proven(old)
      BY <1>9 DEF UpsertPeer, Invalid, Updating
    <2>5. /\ row' = [row EXCEPT ![h][p] = new]
          /\ UNCHANGED <<hostKey, pins, syncKey, made, auth, fleetKey, probed>>
      BY <2>1 DEF SetRow
    <2> HIDE DEF h, p, old, kept, state
    <2>6. /\ new \in PeerRow /\ new.connect = old.connect /\ new.accept = old.accept
          /\ new.state = kept
      BY <1>3, <2>3 DEF PeerRow
    <2>7. RowOK(h, p, new, probed)
      BY <1>4, <2>4, <2>6 DEF RowOK, Proven
    <2> HIDE DEF new
    <2>8. HostInv'
      BY <1>3, <1>7, <2>5, <2>6, <2>7, RowStep
    <2> HIDE DEF s
    <2>9. o \in RunState /\ RunOK(o, hostKey, made, probed)
      BY <1>0, <1>1, <2>3, PlaceTypes, UpdateRun
    <2> HIDE DEF o
    <2>10. Runners'
      BY <1>1, <2>2, <2>5, <2>9, OutdateRun
    <2> QED
      BY <1>6, <2>8, <2>10
  <1>10. CASE PatchProof(r)
    <2> DEFINE new == [old EXCEPT !.accept = s.keys[p], !.connect = s.keys[h]]
               o == [s EXCEPT !.update = "stage", !.read = s.read]
    <2>1. SetRow(h, p, new)
      BY <1>10 DEF PatchProof
    <2>2. o = [s EXCEPT !.update = "stage"]
      BY <1>1 DEF RunState
    <2>3. Outdate(r, h, o)
      BY <1>10, <2>2 DEF PatchProof
    <2>4. /\ new \in PeerRow /\ new.connect = s.keys[h] /\ new.accept = s.keys[p]
          /\ new.state = old.state
      BY <1>1, <1>3 DEF PeerRow
    <2>5. /\ row' = [row EXCEPT ![h][p] = new]
          /\ UNCHANGED <<hostKey, pins, syncKey, made, auth, fleetKey, probed>>
      BY <2>1 DEF SetRow
    <2> HIDE DEF h, p, new
    <2>6. HostInv'
      <3>1. new.connect <= made[h] /\ new.accept <= made[p] /\ RowOK(h, p, new, probed)
        BY <1>1, <2>4 DEF RowOK, Proven
      <3> QED
        BY <1>7, <2>4, <2>5, <3>1, RowStep
    <2> HIDE DEF s, old
    <2>7. o \in RunState /\ RunOK(o, hostKey, made, probed)
      BY <1>0, <1>1, <1>2, PlaceTypes, UpdateRun
    <2> HIDE DEF o
    <2>8. Runners'
      BY <1>1, <2>3, <2>5, <2>7, OutdateRun
    <2> QED
      BY <1>6, <2>6, <2>8
  <1> QED
    BY <1>8, <1>9, <1>10

\* The transitions that end an Apply: they keep the keys, and ask for them
\* where the peer is enabled.
LEMMA TransitionStep ==
  ASSUME HostInv, Runners, Fields, NEW r \in Runner, StagePeer(r) \/ ReadyPeer(r)
  PROVE  HostInv' /\ Runners' /\ Fields'
  <1> DEFINE s == run[r]  h == Now(r)[2]  p == Now(r)[3]  old == row[h][p]
  <1>0. s.pc = "apply"
    BY DEF StagePeer, ReadyPeer, Updating
  <1>1. /\ s \in RunState /\ Busy(s) /\ RunOK(s, hostKey, made, probed)
        /\ h = Target(s) /\ p = Peer(s) /\ h \in Host /\ p \in Host /\ s.step \in 9 .. 12
    BY <1>0, ApplyAt
  <1>2. hostKey \in Keys /\ made \in Keys
    BY HostKeys DEF HostInv, HostTypes
  <1>3. Advance(s) \in RunState /\ RunOK(Advance(s), hostKey, made, probed)
    <2>1. s.step # 3 /\ s.step # 4 /\ s.step # 7 /\ s.step # 8
      BY <1>1
    <2>2. ScanOK(s, hostKey) /\ KeysOK(s, made) /\ ProofOK(s, probed)
      BY <1>1 DEF RunOK
    <2> HIDE DEF s
    <2> QED
      BY <1>1, <1>2, <2>1, <2>2, AdvanceRun
  <1>4. Over(s, FALSE) \in RunState /\ RunOK(Over(s, FALSE), hostKey, made, probed)
    BY <1>1, <1>2, OverRun DEF RunOK
  <1>5. CASE Answered(r, Advance(s)) /\ UNCHANGED <<hosts, upsets, probed>>
    <2>1. /\ faults' \in 0 .. MaxFault
          /\ \E o \in RunState : Set(r, o) /\ RunOK(o, hostKey, made, probed)
      BY <1>1, <1>2, <1>3, <1>5, AnsweredRun DEF RunOK
    <2>2. Quiet /\ Fields'
      BY <1>5, <2>1 DEF Quiet, Fields, hosts
    <2> QED
      BY <2>1, <2>2, SetQuiet
  <1>6. ASSUME NEW to \in {"ssh_material_staged", "ssh_keys_ready"},
               SetRow(h, p, [old EXCEPT !.state = to]), Finish(r, h),
               old.enabled => Proven(old)
        PROVE  HostInv' /\ Runners' /\ Fields'
    <2> DEFINE new == [old EXCEPT !.state = to]
    <2>1. old \in PeerRow /\ old.connect <= made[h] /\ old.accept <= made[p]
      BY <1>1 DEF HostInv, HostTypes, RecordInv
    <2>2. /\ new \in PeerRow /\ new.connect = old.connect /\ new.accept = old.accept
          /\ new.state = to /\ new.enabled = old.enabled
      BY <2>1 DEF PeerRow, States
    <2>3. /\ row' = [row EXCEPT ![h][p] = new] /\ stale' = [stale EXCEPT ![h] = TRUE]
          /\ UNCHANGED <<hostKey, pins, syncKey, made, auth, fleetKey, probed, upsets>>
      BY <1>6 DEF SetRow
    <2>4. upsets' \in 0 .. MaxUpset /\ upsets <= upsets'
      BY <2>3, MeshHealAssumption DEF HostInv, HostTypes
    <2>5. /\ \/ Outdate(r, h, Advance(s)) /\ faults' = faults
             \/ Outdate(r, h, Over(s, FALSE)) /\ faults < MaxFault /\ faults' = faults + 1
      BY <1>6 DEF Finish
    <2> HIDE DEF h, p, new
    <2>6. Fields'
      <3>1. faults' \in 0 .. MaxFault
        <4>1. faults' = faults \/ (faults < MaxFault /\ faults' = faults + 1)
          BY <2>5
        <4> QED
          BY <4>1, MeshHealAssumption DEF Fields
      <3>2. stale' \in [Host -> BOOLEAN]
        BY <2>3 DEF Fields
      <3> QED
        BY <3>1, <3>2 DEF Fields
    <2>7. HostInv'
      <3>1. RowOK(h, p, old, probed)
        BY <1>1 DEF HostInv, RowInv
      <3>2. RowOK(h, p, new, probed)
        BY <1>6, <2>2, <3>1 DEF RowOK, Proven
      <3>3. h \in Host /\ p \in Host /\ new.connect <= made[h] /\ new.accept <= made[p]
        BY <1>1, <2>1, <2>2
      <3> QED
        BY <2>2, <2>3, <2>4, <3>2, <3>3, RowStep
    <2>8. Runners'
      BY <1>1, <1>3, <1>4, <2>3, <2>5, OutdateRun
    <2> QED
      BY <2>6, <2>7, <2>8
  <1>7. s.update \in {"stage", "ready"} /\ ~Invalid(r) => (old.enabled => Proven(old))
    BY DEF Invalid
  <1>8. CASE StagePeer(r)
    BY <1>5, <1>6, <1>7, <1>8 DEF StagePeer, Transition, Updating
  <1>9. CASE ReadyPeer(r)
    BY <1>5, <1>6, <1>7, <1>9 DEF ReadyPeer, Transition, Updating
  <1> QED
    BY <1>8, <1>9

-----------------------------------------------------------------------------
(* Upsets *)

\* An upset is counted.
LEMMA UpsetCount ==
  ASSUME HostInv, Upset
  PROVE  /\ upsets \in 0 .. MaxUpset /\ upsets' \in 0 .. MaxUpset
         /\ upsets' = upsets + 1 /\ upsets <= upsets'
  BY MeshHealAssumption DEF HostInv, HostTypes, Upset

\* A request keeps a peer's keys or takes them away, and makes an enabled peer
\* ready only with both of them.
LEMMA EditedOK ==
  ASSUME NEW h \in Host, NEW p \in Host, NEW old \in PeerRow, NEW new \in Edited(old),
         NEW mine \in Nat, NEW theirs \in Nat, NEW proven,
         old.connect <= mine, old.accept <= theirs, RowOK(h, p, old, proven)
  PROVE  /\ new \in PeerRow /\ new.connect <= mine /\ new.accept <= theirs
         /\ RowOK(h, p, new, proven)
  <1>0. 0 \in 0 .. MaxKey
    BY MeshHealAssumption DEF MaxKey
  <1>1. CASE new = NoRow
    BY <1>0, <1>1 DEF NoRow, PeerRow, States, RowOK
  <1>2. CASE new = [old EXCEPT !.enabled = FALSE]
    BY <1>2 DEF PeerRow, RowOK, Proven
  <1>3. ASSUME NEW m \in Proving \cup Asked, m[1] = old.state, m \in Proving => Current(old),
               new = Moved(old, m[2])
        PROVE  /\ new \in PeerRow /\ new.connect <= mine /\ new.accept <= theirs
               /\ RowOK(h, p, new, proven)
    <2>1. m[2] \in States /\ (m[2] = "ssh_keys_ready" => m \in Proving)
      <3>1. CASE m \in Proving
        BY <3>1 DEF Proving, States
      <3>2. CASE m \in Asked
        <4>1. m[2] \in {"provision_failed", "loopback_unprovisioned", "ssh_material_staged",
                         "shared_key_written_unverified"}
          BY <3>2 DEF Asked
        <4> QED
          BY <4>1 DEF States
      <3> QED
        BY <3>1, <3>2
    <2>2. CASE m[2] = "loopback_unprovisioned"
      <3>1. new = [old EXCEPT !.state = "loopback_unprovisioned", !.accept = 0, !.connect = 0]
        BY <1>3, <2>2 DEF Moved
      <3>2. new \in PeerRow /\ new.accept = 0 /\ new.connect = 0
        BY <1>0, <2>1, <2>2, <3>1 DEF PeerRow
      <3>3. new.state # "ssh_keys_ready"
        BY <3>1 DEF PeerRow
      <3> QED
        BY <3>2, <3>3 DEF RowOK
    <2>3. CASE m[2] # "loopback_unprovisioned"
      <3>1. new = [old EXCEPT !.state = m[2]]
        BY <1>3, <2>3 DEF Moved
      <3>2. /\ new \in PeerRow /\ new.connect = old.connect /\ new.accept = old.accept
            /\ new.state = m[2] /\ new.enabled = old.enabled
        BY <2>1, <3>1 DEF PeerRow
      <3>3. m[2] = "ssh_keys_ready" /\ old.enabled => Proven(old)
        BY <1>3, <2>1 DEF Current
      <3> QED
        BY <3>2, <3>3 DEF RowOK, Proven
    <2> QED
      BY <2>2, <2>3
  <1> QED
    BY <1>1, <1>2, <1>3 DEF Edited

\* A peer is edited under the runners' hands.
LEMMA EditStep ==
  ASSUME HostInv, Runners, Fields, NEW h \in Host, NEW p \in Host, Edit(h, p)
  PROVE  HostInv' /\ Runners' /\ Fields'
  <1> DEFINE old == row[h][p]
  <1>1. old \in PeerRow /\ old.connect <= made[h] /\ old.accept <= made[p]
        /\ RowOK(h, p, old, probed)
    BY DEF HostInv, HostTypes, RecordInv, RowInv
  <1>2. made[h] \in Nat /\ made[p] \in Nat
    BY DEF HostInv, HostTypes, Keys
  <1>3. PICK new \in Edited(old) : row' = [row EXCEPT ![h][p] = new]
    BY DEF Edit
  <1> HIDE DEF old
  <1>4. /\ new \in PeerRow /\ new.connect <= made[h] /\ new.accept <= made[p]
        /\ RowOK(h, p, new, probed)
    BY <1>1, <1>2, <1>3, EditedOK
  <1>5. /\ UNCHANGED <<hostKey, pins, syncKey, made, auth, fleetKey, probed>>
        /\ stale' = [stale EXCEPT ![h] = FALSE] /\ faults' = faults
    BY DEF Edit, Upset
  <1>6. upsets' \in 0 .. MaxUpset /\ upsets <= upsets'
    BY UpsetCount DEF Edit
  <1>7. HostInv'
    BY <1>3, <1>4, <1>5, <1>6, RowStep DEF old
  <1>8. ASSUME NEW q \in Runner
         PROVE  run'[q] \in RunState /\ RunOK(run'[q], hostKey, made, probed)
    <2>1. run'[q] = IF run[q].pc = "apply" /\ Now(q)[2] = h
                    THEN [run[q] EXCEPT !.current = FALSE] ELSE run[q]
      BY DEF Edit
    <2> QED
      BY <2>1, OutdateOther
  <1>9. run' \in [Runner -> RunState]
    BY <1>8 DEF Edit
  <1>10. Runners'
    BY <1>5, <1>8, <1>9 DEF Runners, RunnerInv
  <1>11. Fields'
    BY <1>5 DEF Fields
  <1> QED
    BY <1>7, <1>10, <1>11

\* A sync key is lost, or a host key replaced by a newer one.
LEMMA KeyLossStep ==
  ASSUME HostInv, Runners, Fields, NEW h \in Host, LoseKey(h) \/ Rekey(h)
  PROVE  HostInv' /\ Runners' /\ Fields'
  <1>1. /\ upsets \in 0 .. MaxUpset /\ upsets' \in 0 .. MaxUpset
        /\ upsets' = upsets + 1 /\ upsets <= upsets' /\ MaxUpset \in Nat
    BY UpsetCount, MeshHealAssumption DEF LoseKey, Rekey
  <1>2. /\ UNCHANGED <<pins, made, auth, row, fleetKey, stale, run, faults, probed>>
    BY DEF LoseKey, Rekey, Upset
  <1>3. \/ syncKey' = [syncKey EXCEPT ![h] = 0] /\ hostKey' = hostKey
        \/ hostKey' = [hostKey EXCEPT ![h] = hostKey[h] + 1] /\ syncKey' = syncKey
    BY DEF LoseKey, Rekey
  <1>4. \A g \in Host : /\ hostKey[g] \in 1 .. MaxKey /\ hostKey[g] <= 1 + upsets
                        /\ made[g] \in Nat /\ made[g] <= 1 + upsets
                        /\ syncKey[g] \in 0 .. MaxKey /\ syncKey[g] <= made[g]
                        /\ syncKey[g] = 0 => made[g] <= upsets
    BY DEF HostInv, HostTypes, Keys, CountInv
  <1>5. \A g \in Host : hostKey'[g] \in {hostKey[g], hostKey[g] + 1} /\ syncKey'[g] \in {0, syncKey[g]}
    BY <1>3 DEF HostInv, HostTypes, Keys
  <1>6. \A g \in Host : /\ hostKey'[g] \in 1 .. MaxKey /\ hostKey'[g] <= 1 + upsets'
                        /\ hostKey[g] <= hostKey'[g]
    BY <1>1, <1>4, <1>5 DEF MaxKey
  <1>7. \A g \in Host : /\ syncKey'[g] \in 0 .. MaxKey /\ syncKey'[g] <= made[g]
                        /\ made[g] <= upsets' /\ made[g] <= 1 + upsets'
    BY <1>1, <1>4, <1>5 DEF MaxKey
  <1>8. hostKey' \in [Host -> 1 .. MaxKey] /\ syncKey' \in Keys
    BY <1>3, <1>6, <1>7 DEF HostInv, HostTypes, Keys
  <1>9. HostTypes'
    BY <1>1, <1>2, <1>8 DEF HostInv, HostTypes
  <1>10. CountInv'
    BY <1>2, <1>6, <1>7 DEF CountInv
  <1>11. RecordInv'
    <2> SUFFICES ASSUME NEW a \in Host, NEW b \in Host
                 PROVE  /\ pins[a][b] <= hostKey'[b] /\ auth[b][a] <= made[a]
                        /\ row[a][b].connect <= made[a] /\ row[a][b].accept <= made[b]
      BY <1>2 DEF RecordInv
    <2>1. /\ pins[a][b] <= hostKey[b] /\ auth[b][a] <= made[a]
          /\ row[a][b].connect <= made[a] /\ row[a][b].accept <= made[b]
      BY DEF HostInv, RecordInv
    <2>2. pins[a][b] \in Nat /\ hostKey[b] \in Nat /\ hostKey'[b] \in Nat
      BY <1>4, <1>6 DEF HostInv, HostTypes, Keys
    <2> QED
      BY <1>6, <2>1, <2>2
  <1>12. ProbeInv' /\ RowInv'
    BY <1>2 DEF HostInv, ProbeInv, RowInv
  <1>13. Runners'
    <2>1. hostKey \in Keys /\ made \in Keys /\ hostKey' \in Keys
      BY <1>8, HostKeys DEF HostInv, HostTypes, Keys
    <2>2. ASSUME NEW q \in Runner PROVE RunOK(run[q], hostKey', made, probed)
      <3>1. run[q] \in RunState /\ RunOK(run[q], hostKey, made, probed)
        BY DEF Runners, RunnerInv
      <3>2. \A g \in Host : hostKey[g] <= hostKey'[g] /\ made[g] <= made[g]
        BY <1>4, <1>6
      <3> QED
        BY <2>1, <3>1, <3>2, RunKeeps
    <2> QED
      BY <1>2, <2>2 DEF Runners, RunnerInv
  <1> QED
    BY <1>2, <1>9, <1>10, <1>11, <1>12, <1>13 DEF HostInv, Fields

-----------------------------------------------------------------------------
(* Theorems *)

\* Nothing is provisioned at first.
LEMMA InitOK == Init => MeshInv
  <1> SUFFICES ASSUME Init PROVE HostInv /\ Runners /\ Fields
    BY Parts
  <1>0. 0 \in 0 .. MaxKey /\ 1 \in 1 .. MaxKey /\ MaxUpset \in Nat /\ MaxFault \in Nat
    BY MeshHealAssumption DEF MaxKey
  <1>1. \A h \in Host : Zero[h] = 0
    BY DEF Zero
  <1>2. NoRow \in PeerRow /\ NoRow.state = "absent" /\ NoRow.accept = 0 /\ NoRow.connect = 0
    BY <1>0 DEF NoRow, PeerRow, States
  <1>3. HostTypes
    BY <1>0, <1>2, ZeroType DEF Init, HostTypes
  <1>4. CountInv /\ RecordInv /\ ProbeInv /\ RowInv
    BY <1>1, <1>2 DEF Init, CountInv, RecordInv, ProbeInv, RowInv, RowOK
  <1>5. ASSUME NEW r \in Runner PROVE run[r] \in RunState /\ RunOK(run[r], hostKey, made, probed)
    <2>1. run[r] = Rest
      BY DEF Init
    <2>2. hostKey \in Keys /\ made \in Keys
      BY <1>3, HostKeys DEF HostTypes
    <2> QED
      BY <2>1, <2>2, RestOK, IdleRun DEF Busy
  <1>6. Runners
    BY <1>5 DEF Init, Runners, RunnerInv
  <1>7. Fields
    BY <1>0 DEF Init, Fields
  <1> QED
    BY <1>3, <1>4, <1>6, <1>7 DEF HostInv

\* Every step keeps the invariant.
LEMMA NextOK == MeshInv /\ [Next]_vars => MeshInv'
  <1> SUFFICES ASSUME HostInv, Runners, Fields, [Next]_vars
               PROVE  HostInv' /\ Runners' /\ Fields'
    BY Parts, PartsAfter
  <1>1. ASSUME NEW r \in Runner, StartDirect(r) \/ StartHeal(r) \/ RunAgain(r)
        PROVE  HostInv' /\ Runners' /\ Fields'
    BY <1>1, StartStep
  <1>2. ASSUME NEW r \in Runner,
               (\E t \in Host : Discover(r, t)) \/ Discovered(r) \/ RestartDaemon(r) \/ Ended(r)
        PROVE  HostInv' /\ Runners' /\ Fields'
    BY <1>2, RosterStep
  <1>3. ASSUME NEW r \in Runner, Prepare(r) PROVE HostInv' /\ Runners' /\ Fields'
    BY <1>3, PrepareStep
  <1>4. ASSUME NEW r \in Runner, UpsertKnownHostPin(r) PROVE HostInv' /\ Runners' /\ Fields'
    BY <1>4, PinStep
  <1>5. ASSUME NEW r \in Runner, EnsureSyncKey(r) PROVE HostInv' /\ Runners' /\ Fields'
    BY <1>5, KeyStep
  <1>6. ASSUME NEW r \in Runner, InstallAuthorizedKey(r) PROVE HostInv' /\ Runners' /\ Fields'
    BY <1>6, AuthStep
  <1>7. ASSUME NEW r \in Runner, RunProbe(r) PROVE HostInv' /\ Runners' /\ Fields'
    BY <1>7, ProbeStep
  <1>8. ASSUME NEW r \in Runner, Apply(r) \/ Fails(r) PROVE HostInv' /\ Runners' /\ Fields'
    BY <1>8, ReadStep, UpdateStep, TransitionStep DEF Apply
  <1>9. ASSUME NEW h \in Host, NEW p \in Host, Edit(h, p) PROVE HostInv' /\ Runners' /\ Fields'
    BY <1>9, EditStep
  <1>10. ASSUME NEW h \in Host, LoseKey(h) \/ Rekey(h) PROVE HostInv' /\ Runners' /\ Fields'
    BY <1>10, KeyLossStep
  <1>11. CASE UNCHANGED vars
    BY <1>11
       DEF vars, HostInv, HostTypes, CountInv, RecordInv, ProbeInv, RowInv, Runners, RunnerInv,
           Fields
  <1> QED
    BY <1>1, <1>2, <1>3, <1>4, <1>5, <1>6, <1>7, <1>8, <1>9, <1>10, <1>11 DEF Next, Work

\* The invariant holds in every state that runners, faults and upsets reach.
LEMMA Invariance == Spec => []MeshInv
  BY InitOK, NextOK, PTL DEF Spec

\* Every variable keeps its type: no host makes more keys than upsets explain.
THEOREM TypeCorrect == Spec => []TypeOK
  <1>1. MeshInv => TypeOK
    BY DEF MeshInv
  <1> QED
    BY <1>1, Invariance, PTL

\* An enabled ready peer has keys on record that a probe got through with, in
\* both directions (a Tailscale host asks for none: there the probe shows that
\* the pinned host answered), for any number of hosts and of runners that
\* provision, heal, fail and are edited at once.
THEOREM ReadyPeersWereProbed == Spec => []ReadyWasProbed
  <1>1. MeshInv => ReadyWasProbed
    BY DEF MeshInv, RowInv, RowOK, ReadyWasProbed, Proven
  <1> QED
    BY <1>1, Invariance, PTL

\* An edge that mesh-heal skips as healthy authenticates both ways, as long as
\* its hosts have their first sync key and their first host key; where the
\* target is a Tailscale host, no key is asked for.
THEOREM SkippedEdgesAuthenticate == Spec => []HealthyEdgeAuthenticates
  <1>1. ASSUME MeshInv PROVE HealthyEdgeAuthenticates
    <2> SUFFICES ASSUME NEW s \in Host, NEW t \in Host,
                        EndIsHealthy(s, t), EndIsHealthy(t, s),
                        made[s] = 1, syncKey[s] # 0, hostKey[t] = 1
                 PROVE  /\ pins[s][t] = hostKey[t]
                        /\ t \in Direct \/ auth[t][s] = syncKey[s]
                        /\ row[s][t].connect = syncKey[s] /\ row[t][s].accept = syncKey[s]
      BY DEF HealthyEdgeAuthenticates
    <2>1. /\ syncKey[s] \in Nat /\ pins[s][t] \in Nat /\ auth[t][s] \in Nat
          /\ row[s][t].connect \in 0 .. MaxKey /\ row[t][s].accept \in 0 .. MaxKey
      BY <1>1 DEF MeshInv, TypeOK, Keys, PeerRow
    <2>2. /\ syncKey[s] <= 1 /\ pins[s][t] <= 1 /\ auth[t][s] <= 1
          /\ row[s][t].connect <= 1 /\ row[t][s].accept <= 1
      BY <1>1 DEF MeshInv, CountInv, RecordInv
    <2>3. row[s][t].connect # 0 /\ row[t][s].accept # 0
      BY DEF EndIsHealthy, Proven
    <2>4. <<s, t, Shown(t, row[s][t].connect)>> \in probed
      BY <1>1, <2>3 DEF MeshInv, RowInv, RowOK
    <2>5. pins[s][t] # 0 /\ (t \in Direct \/ auth[t][s] # 0)
      <3>1. Shown(t, row[s][t].connect) \in 0 .. MaxKey
        BY <2>1, MeshHealAssumption DEF Shown, MaxKey
      <3> QED
        BY <1>1, <2>4, <3>1 DEF MeshInv, ProbeInv
    <2> QED
      BY <2>1, <2>2, <2>3, <2>5
  <1> QED
    BY <1>1, Invariance, PTL

==============================================================================
