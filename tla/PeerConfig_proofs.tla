------------------------- MODULE PeerConfig_proofs -------------------------
(***************************************************************************)
(* Proofs about PeerConfig for any peers, writers, revisions and restarts: *)
(* what a validated update leaves in the file, what a deleted peer leaves  *)
(* behind, and which sessions the daemon runs once it has answered.        *)
(***************************************************************************)
EXTENDS PeerConfig, TLAPS

-----------------------------------------------------------------------------
(* The inductive invariants *)

\* Peer p is on record in document d as one that may hold the fleet's key.
OnRecord(d, p) ==
    \/ d.peers[p] # NoPeer /\ d.peers[p].state \in KeyHeld
    \/ <<p, "post_secret_tombstone">> \in d.remediation

Recorded(d, e) == e \subseteq Peer /\ \A p \in e : OnRecord(d, p)

\* A document without a revision has no peers yet, so none has the key.
KeyInv == Recorded(doc, exposed) /\ (doc.rev = 0 => exposed = {})

PeerInv == TypeOK /\ ReadyIsProven /\ KeyInv

\* A view has the revision it was read at.
ViewInv ==
    /\ answered <= doc.rev
    /\ \A h \in Handler : Reloading(h) =>
          /\ loaded[h].rev <= doc.rev
          /\ loaded[h].rev = doc.rev => loaded[h] = ViewOf(doc)

\* While no reload has crossed another, there is one at a time, no answer is
\* newer than what it has read, and d.cfg is what it has installed.
AloneInv ==
    ~crossed =>
        \A h \in Handler : Reloading(h) =>
            /\ \A g \in Handler : Reloading(g) => g = h
            /\ answered <= loaded[h].rev
            /\ pc[h] = "installed" => cfg = loaded[h]

ForceInv == ViewInv /\ AloneInv /\ UpdatesStayInForce

-----------------------------------------------------------------------------
(* Updates *)

\* One update of the file by w, whatever request it serves.
Updates(w) ==
    \E next \in Document :
        /\ Update(w, next)
        /\ Recorded(next, exposed')
        /\ \E place \in {"idle", "written"} : Goto(w, place)
        /\ expect' = [expect EXCEPT ![w] = 0]
        /\ UNCHANGED <<loaded, cfg, running, safeMode, restarts, answered, crossed>>

\* What SetPeer changes.
LEMMA SetPeerType ==
  ASSUME doc \in Document, NEW p \in Peer, NEW r \in PeerRecord \cup {NoPeer}
  PROVE  /\ SetPeer(p, r) \in Document
         /\ SetPeer(p, r).peers = [doc.peers EXCEPT ![p] = r]
         /\ SetPeer(p, r).remediation = doc.remediation
  BY DEF SetPeer, Document

\* A peer that is there has a record.
LEMMA PeerType ==
  ASSUME doc \in Document, NEW p \in Peer, doc.peers[p] # NoPeer
  PROVE  doc.peers[p] \in PeerRecord
  BY DEF Document

\* A row in a state in which the peer may hold the key keeps the peer on record,
\* and so does any row if the peer was not on record by its old row.
LEMMA RowRecord ==
  ASSUME TypeOK, KeyInv, NEW p \in Peer, NEW r \in PeerRecord, NEW e, e \subseteq Peer,
         \A q \in Peer \ {p} : q \in e => q \in exposed,
         p \in e => \/ r.state \in KeyHeld
                    \/ p \in exposed /\ (doc.peers[p] = NoPeer \/ doc.peers[p].state \notin KeyHeld)
  PROVE  Recorded(SetPeer(p, r), e)
  <1>1. /\ SetPeer(p, r).peers = [doc.peers EXCEPT ![p] = r]
        /\ SetPeer(p, r).remediation = doc.remediation
    BY SetPeerType DEF TypeOK
  <1>2. doc.peers \in [Peer -> PeerRecord \cup {NoPeer}]
    BY DEF TypeOK, Document
  <1> SUFFICES ASSUME NEW q \in e PROVE OnRecord(SetPeer(p, r), q)
    BY DEF Recorded
  <1>3. CASE q # p
    <2>1. OnRecord(doc, q) /\ SetPeer(p, r).peers[q] = doc.peers[q]
      BY <1>1, <1>2, <1>3 DEF KeyInv, Recorded
    <2> QED
      BY <1>1, <2>1 DEF OnRecord
  <1>4. CASE q = p
    <2>1. SetPeer(p, r).peers[p] = r /\ r # NoPeer
      BY <1>1, <1>2, NoPeerAssumption
    <2>2. CASE r.state \in KeyHeld
      BY <1>4, <2>1, <2>2 DEF OnRecord
    <2>3. CASE p \in exposed /\ (doc.peers[p] = NoPeer \/ doc.peers[p].state \notin KeyHeld)
      <3>1. <<p, "post_secret_tombstone">> \in doc.remediation
        BY <2>3 DEF KeyInv, Recorded, OnRecord
      <3> QED
        BY <1>1, <1>4, <3>1 DEF OnRecord
    <2> QED
      BY <1>4, <2>2, <2>3
  <1> QED
    BY <1>3, <1>4

\* What deleting a peer changes.
LEMMA DeleteType ==
  ASSUME TypeOK, KeyInv, NEW p \in Peer, doc.peers[p] # NoPeer
  PROVE  /\ Without(doc, p) \in Document
         /\ Without(doc, p).peers = [doc.peers EXCEPT ![p] = NoPeer]
         /\ Without(doc, p).remediation = Remediation(doc, p)
         /\ Recorded(Without(doc, p), exposed)
  <1>1. CleanupOf(doc.peers[p]) \subseteq Cleanup
    BY DEF CleanupOf, Cleanup
  <1>2. Remediation(doc, p) \subseteq Peer \X Cleanup
    BY <1>1 DEF Remediation, TypeOK, Document
  <1>3. /\ Without(doc, p) \in Document
        /\ Without(doc, p).peers = [doc.peers EXCEPT ![p] = NoPeer]
        /\ Without(doc, p).remediation = Remediation(doc, p)
    BY <1>2 DEF Without, TypeOK, Document
  <1>4. doc.peers \in [Peer -> PeerRecord \cup {NoPeer}]
    BY DEF TypeOK, Document
  <1>5. ASSUME NEW q \in exposed PROVE OnRecord(Without(doc, p), q)
    <2>0. OnRecord(doc, q) /\ q \in Peer
      BY DEF KeyInv, Recorded
    <2>1. doc.remediation \subseteq Without(doc, p).remediation
      BY <1>3 DEF Remediation
    <2>2. CASE q # p
      <3>1. Without(doc, p).peers[q] = doc.peers[q]
        BY <1>3, <1>4, <2>0, <2>2
      <3> QED
        BY <2>0, <2>1, <3>1 DEF OnRecord
    <2>3. CASE q = p /\ doc.peers[p].state \in KeyHeld
      <3>1. "post_secret_tombstone" \in CleanupOf(doc.peers[p])
        BY <2>3 DEF CleanupOf, KeyHeld
      <3>2. <<p, "post_secret_tombstone">> \in Remediation(doc, p)
        BY <3>1 DEF Remediation
      <3> QED
        BY <1>3, <2>3, <3>2 DEF OnRecord
    <2>4. CASE q = p /\ doc.peers[p].state \notin KeyHeld
      BY <2>0, <2>1, <2>4 DEF OnRecord
    <2> QED
      BY <2>2, <2>3, <2>4
  <1> QED
    BY <1>3, <1>5 DEF Recorded, KeyInv

\* The writer after its update.
LEMMA WrittenPlace ==
  ASSUME NEW w \in Writer, Written(w)
  PROVE  /\ \E place \in {"idle", "written"} : Goto(w, place)
         /\ expect' = [expect EXCEPT ![w] = 0]
         /\ UNCHANGED <<loaded, cfg, running, safeMode, restarts, answered, crossed>>
  BY DEF Written

\* The row of a peer is written, and every peer with the key is still on record.
RowUpdate(w, p) ==
    \E r \in PeerRecord :
        /\ Update(w, SetPeer(p, r)) /\ Written(w)
        /\ Recorded(SetPeer(p, r), exposed')

\* A request about a peer writes its row, unless it deletes the peer.
LEMMA RowUpdates ==
  ASSUME TypeOK, KeyInv, NEW w \in Writer, NEW p \in Peer, UpdatePeer(w, p)
  PROVE  RowUpdate(w, p) \/ Delete(w, p) \/ RemoveHost(w, p)
  <1>0. doc \in Document /\ exposed \subseteq Peer
    BY DEF TypeOK
  <1>1. ASSUME NEW row \in NewRow, Create(w, p, row) PROVE RowUpdate(w, p)
    <2>1. row \in PeerRecord /\ row.failures = <<>>
      <3>1. <<>> \in Seq(BOOLEAN) /\ {} \in SUBSET Direction
        OBVIOUS
      <3>2. "loopback_unprovisioned" \in MigrationState
        BY DEF MigrationState
      <3>3. /\ row = [state |-> row.state, enabled |-> row.enabled, dirs |-> row.dirs,
                      proof |-> row.proof, failures |-> row.failures]
            /\ row.state = "loopback_unprovisioned" /\ row.enabled \in BOOLEAN
            /\ row.dirs \in SUBSET Direction /\ row.proof = {} /\ row.failures = <<>>
        BY DEF NewRow
      <3> QED
        BY <3>1, <3>2, <3>3 DEF PeerRecord
    <2>2. exposed' = exposed /\ doc.peers[p] = NoPeer
      BY <1>1 DEF Create
    <2>3. Recorded(SetPeer(p, row), exposed')
      BY <1>0, <2>1, <2>2, RowRecord
    <2> QED
      BY <1>0, <1>1, <2>1, <2>3 DEF Create, RowUpdate
  <1>2. ASSUME NEW dirs \in SUBSET Direction, NEW enabled \in BOOLEAN,
               Upsert(w, p, dirs, enabled)
        PROVE  RowUpdate(w, p)
    <2> DEFINE r == [doc.peers[p] EXCEPT !.dirs = dirs, !.enabled = enabled]
    <2>1. r \in PeerRecord /\ r.state = doc.peers[p].state
      BY <1>0, <1>2, PeerType DEF Upsert, PeerRecord
    <2>2. Update(w, SetPeer(p, r)) /\ Written(w) /\ exposed' = exposed /\ doc.peers[p] # NoPeer
      BY <1>2 DEF Upsert
    <2> QED
      BY <1>0, <2>1, <2>2, RowRecord DEF RowUpdate
  <1>3. ASSUME NEW proofs \in SUBSET Direction, PatchProof(w, p, proofs) PROVE RowUpdate(w, p)
    <2> DEFINE r == WithProofs(doc.peers[p], proofs)
    <2>1. r \in PeerRecord /\ r.state = doc.peers[p].state
      BY <1>0, <1>3, PeerType DEF PatchProof, PeerRecord, WithProofs
    <2>2. Update(w, SetPeer(p, r)) /\ Written(w) /\ exposed' = exposed /\ doc.peers[p] # NoPeer
      BY <1>3 DEF PatchProof
    <2> QED
      BY <1>0, <2>1, <2>2, RowRecord DEF RowUpdate
  <1>4. ASSUME NEW to \in MigrationState, Transition(w, p, to) PROVE RowUpdate(w, p)
    <2> DEFINE r == [doc.peers[p] EXCEPT !.state = to,
                        !.proof = IF to = "loopback_unprovisioned" THEN {} ELSE @]
    <2>1. r \in PeerRecord /\ r.state = to
      BY <1>0, <1>4, PeerType DEF Transition, PeerRecord
    <2>2. /\ Update(w, SetPeer(p, r)) /\ Written(w)
          /\ exposed' = IF to \in KeyHeld THEN exposed \cup {p}
                        ELSE IF doc.peers[p].state \in KeyHeld THEN exposed \ {p} ELSE exposed
      BY <1>4 DEF Transition
    <2> HIDE DEF r
    <2>3. Recorded(SetPeer(p, r), exposed')
      BY <1>0, <2>1, <2>2, RowRecord
    <2> QED
      BY <2>1, <2>2, <2>3 DEF RowUpdate
  <1>5. ASSUME NEW spawn \in BOOLEAN, Fail(w, p, spawn) PROVE RowUpdate(w, p)
    <2> DEFINE log == Append(doc.peers[p].failures, spawn)
               r == [Logged(doc.peers[p], spawn) EXCEPT !.state = "provision_failed"]
    <2>1. doc.peers[p] \in PeerRecord
      BY <1>0, <1>5, PeerType DEF Fail
    <2>2. log \in Seq(BOOLEAN)
      BY <2>1 DEF PeerRecord
    <2>3. r \in PeerRecord
      BY <2>1, <2>2 DEF Logged, PeerRecord, MigrationState
    <2>4. Update(w, SetPeer(p, r)) /\ Written(w) /\ exposed' = exposed
      BY <1>5 DEF Fail
    <2>5. doc.peers[p].state \notin KeyHeld
      BY <1>5 DEF Fail, KeyHeld
    <2> HIDE DEF r
    <2>6. Recorded(SetPeer(p, r), exposed')
      BY <1>0, <2>3, <2>4, <2>5, RowRecord
    <2> QED
      BY <2>3, <2>4, <2>6 DEF RowUpdate
  <1>6. CASE Disable(w, p)
    <2> DEFINE r == [doc.peers[p] EXCEPT !.enabled = FALSE]
    <2>1. r \in PeerRecord /\ r.state = doc.peers[p].state
      BY <1>0, <1>6, PeerType DEF Disable, PeerRecord
    <2>2. Update(w, SetPeer(p, r)) /\ Written(w) /\ exposed' = exposed /\ doc.peers[p] # NoPeer
      BY <1>6 DEF Disable
    <2> QED
      BY <1>0, <2>1, <2>2, RowRecord DEF RowUpdate
  <1> QED
    BY <1>1, <1>2, <1>3, <1>4, <1>5, <1>6 DEF UpdatePeer

\* Every request about a peer is an update.
LEMMA PeerUpdates ==
  ASSUME TypeOK, KeyInv, NEW w \in Writer, NEW p \in Peer, UpdatePeer(w, p)
  PROVE  Updates(w)
  <1>0. doc \in Document /\ exposed \subseteq Peer
    BY DEF TypeOK
  <1>1. CASE RowUpdate(w, p)
    BY <1>0, <1>1, SetPeerType, WrittenPlace DEF RowUpdate, Updates
  <1>2. CASE Delete(w, p)
    BY <1>0, <1>2, DeleteType, WrittenPlace DEF Delete, Updates
  <1>3. CASE RemoveHost(w, p)
    <2> DEFINE d == IF doc.peers[p] = NoPeer THEN doc ELSE Without(doc, p)
               next == [d EXCEPT !.static = @ \ {p}]
    <2>1. d \in Document /\ Recorded(d, exposed)
      BY <1>0, DeleteType DEF KeyInv
    <2>2. next \in Document /\ next.peers = d.peers /\ next.remediation = d.remediation
      BY <2>1 DEF Document
    <2>3. Update(w, next) /\ Written(w) /\ UNCHANGED exposed
      BY <1>3 DEF RemoveHost
    <2> HIDE DEF d
    <2>4. Recorded(next, exposed)
      BY <2>1, <2>2 DEF Recorded, OnRecord
    <2> HIDE DEF next
    <2> QED
      BY <1>0, <2>2, <2>3, <2>4, WrittenPlace DEF Updates
  <1> QED
    BY <1>1, <1>2, <1>3, RowUpdates

\* So are the requests about the whole file.
LEMMA FileUpdates ==
  ASSUME TypeOK, KeyInv, NEW w \in Writer,
         EnsureRevision(w) \/ EnableSSH(w) \/ RepairListener(w)
  PROVE  Updates(w)
  <1>0. doc \in Document /\ exposed \subseteq Peer
    BY DEF TypeOK
  <1>1. CASE EnsureRevision(w)
    BY <1>0, <1>1, WrittenPlace DEF EnsureRevision, Updates, KeyInv
  <1>2. CASE EnableSSH(w)
    <2> DEFINE next == [doc EXCEPT !.ssh = TRUE, !.static = {}]
    <2>1. next \in Document /\ next.peers = doc.peers /\ next.remediation = doc.remediation
      BY <1>0 DEF Document
    <2>2. Update(w, next) /\ Written(w) /\ UNCHANGED exposed
      BY <1>2 DEF EnableSSH
    <2> HIDE DEF next
    <2>3. Recorded(next, exposed')
      BY <2>1, <2>2 DEF KeyInv, Recorded, OnRecord
    <2> QED
      BY <1>0, <2>1, <2>2, <2>3, WrittenPlace DEF Updates
  <1>3. CASE RepairListener(w)
    <2> DEFINE kept == [doc EXCEPT !.safe = TRUE]
               old == [doc EXCEPT !.safe = TRUE, !.ssh = FALSE, !.remediation = {},
                                  !.peers = [p \in Peer |-> NoPeer]]
               next == IF doc.rev > 0 THEN kept ELSE old
    <2>1. kept \in Document /\ kept.peers = doc.peers /\ kept.remediation = doc.remediation
      BY <1>0 DEF Document
    <2>2. old \in Document
      BY <1>0 DEF Document
    <2>3. next \in Document /\ Recorded(next, exposed)
      <3>1. CASE doc.rev > 0
        BY <2>1, <3>1 DEF KeyInv, Recorded, OnRecord
      <3>2. CASE ~(doc.rev > 0)
        <4>1. doc.rev = 0
          BY <1>0, <3>2, PeerConfigAssumption DEF Document
        <4> QED
          BY <2>2, <3>2, <4>1 DEF KeyInv, Recorded
      <3> QED
        BY <3>1, <3>2
    <2>4. /\ Update(w, next) /\ UNCHANGED exposed /\ Goto(w, "idle")
          /\ expect' = [expect EXCEPT ![w] = 0]
          /\ UNCHANGED <<loaded, cfg, running, safeMode, restarts, answered, crossed>>
      BY <1>3 DEF RepairListener
    <2> QED
      BY <1>0, <2>3, <2>4 DEF Updates
  <1> QED
    BY <1>1, <1>2, <1>3

\* What an update does to the file: the next revision of a document that
\* ValidateSSHTransportConfig accepts.
LEMMA UpdateEffect ==
  ASSUME doc \in Document, NEW w \in Writer, NEW next \in Document, Update(w, next)
  PROVE  /\ doc' \in Document /\ doc'.rev = doc.rev + 1 /\ doc'.ssh = next.ssh
         /\ doc'.peers = next.peers /\ doc'.remediation = next.remediation
         /\ Valid(next)
  <1>1. doc.rev \in 0 .. MaxRevision /\ doc.rev + 1 \in 0 .. MaxRevision
    BY PeerConfigAssumption DEF Update, Increments, Document
  <1>2. doc' = [next EXCEPT !.rev = doc.rev + 1] /\ Valid(next)
    BY DEF Update
  <1> QED
    BY <1>1, <1>2 DEF Document

-----------------------------------------------------------------------------
(* Types *)

\* The documents a daemon may start with satisfy the invariants.
LEMMA FirstDocument ==
  ASSUME NEW d \in {Old, Underway, Promoted}
  PROVE  /\ d \in Document
         /\ d.ssh => \A p \in Peer : d.peers[p].state = "ssh_material_staged"
         /\ d.rev = 0 => Present(d) = {}
  <1> USE PeerConfigAssumption
  <1>0. <<>> \in Seq(BOOLEAN) /\ <<FALSE>> \in Seq(BOOLEAN)
    OBVIOUS
  <1>1. CASE d = Old
    BY <1>1 DEF Old, Document, Present
  <1>2. CASE d = Underway
    <2> DEFINE row(p) == Row("ssh_material_staged", p = CHOOSE q \in Peer : TRUE,
                             Direction, <<FALSE>>)
    <2>1. \A p \in Peer : /\ row(p) \in PeerRecord /\ row(p).failures = <<FALSE>>
                          /\ row(p).state = "ssh_material_staged"
      BY <1>0 DEF Row, PeerRecord, MigrationState
    <2>2. d = [rev |-> 1, ssh |-> TRUE, safe |-> TRUE, static |-> {}, remediation |-> {},
               peers |-> [p \in Peer |-> row(p)]]
      BY <1>2 DEF Underway
    <2> HIDE DEF row
    <2>3. /\ d.rev = 1 /\ d.ssh = TRUE /\ d.safe = TRUE /\ d.static = {} /\ d.remediation = {}
          /\ d.peers = [p \in Peer |-> row(p)]
      BY <2>2
    <2>4. d.peers \in [Peer -> PeerRecord \cup {NoPeer}]
      BY <2>1, <2>3
    <2>5. d \in Document
      BY <2>2, <2>4 DEF Document
    <2>7. \A p \in Peer : d.peers[p] = row(p)
      BY <2>3
    <2>8. \A p \in Peer : d.peers[p].state = "ssh_material_staged"
      BY <2>1, <2>7
    <2>9. d.rev # 0
      BY <2>3
    <2> QED
      BY <2>5, <2>8, <2>9
  <1>3. CASE d = Promoted
    <2> DEFINE row == Row("ssh_keys_ready", FALSE, {}, <<>>)
    <2>1. row \in PeerRecord /\ row.failures = <<>>
      BY <1>0 DEF Row, PeerRecord, MigrationState
    <2>2. d = [rev |-> 1, ssh |-> FALSE, safe |-> TRUE, static |-> {}, remediation |-> {},
               peers |-> [p \in Peer |-> row]]
      BY <1>3 DEF Promoted
    <2> HIDE DEF row
    <2>3. /\ d.rev = 1 /\ d.ssh = FALSE /\ d.safe = TRUE /\ d.static = {} /\ d.remediation = {}
          /\ d.peers = [p \in Peer |-> row]
      BY <2>2
    <2>4. d.peers \in [Peer -> PeerRecord \cup {NoPeer}]
      BY <2>1, <2>3
    <2>5. d \in Document
      BY <2>2, <2>4 DEF Document
    <2> QED
      BY <2>1, <2>3, <2>5
  <1> QED
    BY <1>1, <1>2, <1>3

\* A view of a document is one.
LEMMA ViewType == ASSUME NEW d \in Document PROVE ViewOf(d) \in View
  BY DEF Document, View, ViewOf, Sessions, Present

\* The invariants hold at first.
LEMMA PeerInit == Init => PeerInv /\ ForceInv
  <1> SUFFICES ASSUME Init PROVE PeerInv /\ ForceInv
    OBVIOUS
  <1> USE PeerConfigAssumption
  <1>1. /\ doc \in Document /\ (doc.rev = 0 => Present(doc) = {})
        /\ doc.ssh => \A p \in Peer : doc.peers[p].state = "ssh_material_staged"
    BY FirstDocument DEF Init
  <1>2. Nothing \in View /\ ViewOf(doc) \in View
    BY <1>1, ViewType DEF Nothing, View
  <1>3. TypeOK
    <2>1. safeMode \in BOOLEAN /\ crossed \in BOOLEAN /\ exposed \subseteq Peer
      BY DEF Init, Present
    <2>2. /\ pc \in [Writer -> {"idle", "sent", "written", "loaded", "installed"}]
          /\ expect \in [Writer -> 0 .. MaxRevision] /\ loaded \in [Writer -> View]
          /\ cfg \in View /\ running \in View /\ restarts \in 0 .. MaxRestart
          /\ answered \in 0 .. MaxRevision
      BY <1>2 DEF Init
    <2> QED
      BY <1>1, <2>1, <2>2 DEF TypeOK
  <1>4. ReadyIsProven
    BY <1>1 DEF ReadyIsProven, Present
  <1>5. ViewInv /\ AloneInv
    <2>1. \A h \in Handler : ~Reloading(h)
      BY DEF Init, Reloading, Writer
    <2> QED
      BY <1>1, <2>1 DEF Init, ViewInv, AloneInv, Document
  <1>6. UpdatesStayInForce
    BY DEF Init, UpdatesStayInForce
  <1>7. KeyInv
    BY <1>1 DEF Init, KeyInv, Recorded, OnRecord, Present
  <1> QED
    BY <1>3, <1>4, <1>5, <1>6, <1>7 DEF PeerInv, ForceInv

\* Every step keeps the types.
LEMMA TypeStep == PeerInv /\ [Next]_vars => TypeOK'
  <1> SUFFICES ASSUME PeerInv, [Next]_vars PROVE TypeOK'
    OBVIOUS
  <1> USE PeerConfigAssumption DEF PeerInv, TypeOK, Goto, Writer
  <1>0. Nothing \in View /\ ViewOf(doc) \in View
    BY ViewType DEF Nothing, View
  <1>1. ASSUME NEW w \in Writer, Updates(w) PROVE TypeOK'
    <2>1. doc' \in Document
      BY <1>1, UpdateEffect DEF Updates
    <2>2. exposed' \subseteq Peer /\ safeMode' \in BOOLEAN /\ crossed' \in BOOLEAN
      BY <1>1 DEF Updates, Recorded
    <2> QED
      BY <1>1, <2>1, <2>2 DEF Updates
  <1>2. ASSUME NEW w \in Writer, Send(w) PROVE TypeOK'
    BY <1>2 DEF Send, Document
  <1>3. ASSUME NEW w \in Writer, Refused(w) PROVE TypeOK'
    BY <1>3 DEF Refused
  <1>4. ASSUME NEW h \in Handler, Load(h) PROVE TypeOK'
    BY <1>0, <1>4 DEF Load
  <1>5. ASSUME NEW h \in Handler, Install(h) PROVE TypeOK'
    BY <1>5 DEF Install
  <1>6. ASSUME NEW h \in Handler, Refresh(h) PROVE TypeOK'
    BY <1>0, <1>6 DEF Refresh, Refreshed, View
  <1>7. CASE Restart
    <2>1. safeMode' \in BOOLEAN /\ crossed' \in BOOLEAN
      BY <1>7 DEF Restart
    <2>2. /\ doc' \in Document /\ exposed' \subseteq Peer /\ cfg' \in View
          /\ restarts' \in 0 .. MaxRestart /\ answered' \in 0 .. MaxRevision
      BY <1>0, <1>7 DEF Restart
    <2>3. running' \in View
      BY <1>0, <1>7 DEF Restart, View
    <2>4. /\ pc' \in [Writer -> {"idle", "sent", "written", "loaded", "installed"}]
          /\ expect' \in [Writer -> 0 .. MaxRevision] /\ loaded' \in [Writer -> View]
      BY <1>0, <1>7 DEF Restart
    <2> QED
      BY <2>1, <2>2, <2>3, <2>4
  <1>8. CASE UNCHANGED vars
    BY <1>8 DEF vars
  <1> QED
    BY <1>1, <1>2, <1>3, <1>4, <1>5, <1>6, <1>7, <1>8, PeerUpdates, FileUpdates DEF Next

\* Validation and the records: every step keeps the first invariant.
LEMMA PeerStep == PeerInv /\ [Next]_vars => PeerInv'
  <1> SUFFICES ASSUME PeerInv, [Next]_vars PROVE PeerInv'
    OBVIOUS
  <1> USE DEF PeerInv
  <1>1. TypeOK'
    BY TypeStep
  <1>2. ASSUME NEW w \in Writer, Updates(w) PROVE ReadyIsProven' /\ KeyInv'
    <2>1. PICK next \in Document : Update(w, next) /\ Recorded(next, exposed')
      BY <1>2 DEF Updates
    <2>2. /\ doc'.ssh = next.ssh /\ doc'.peers = next.peers /\ Valid(next)
          /\ doc'.remediation = next.remediation /\ doc'.rev = doc.rev + 1
      BY <2>1, UpdateEffect DEF TypeOK
    <2>3. ReadyIsProven'
      BY <2>2 DEF ReadyIsProven, Valid, ValidPeer, Present
    <2>4. doc'.rev # 0
      BY <2>2, PeerConfigAssumption DEF TypeOK, Document
    <2>5. Recorded(doc', exposed')
      BY <2>1, <2>2 DEF Recorded, OnRecord
    <2> QED
      BY <2>3, <2>4, <2>5 DEF KeyInv
  <1>3. ASSUME UNCHANGED <<doc, exposed>> PROVE ReadyIsProven' /\ KeyInv'
    BY <1>3 DEF ReadyIsProven, Present, KeyInv
  <1>4. \/ \E w \in Writer : Updates(w)
        \/ UNCHANGED <<doc, exposed>>
    BY PeerUpdates, FileUpdates
       DEF Next, Send, Refused, Load, Install, Refresh, Restart, vars
  <1> QED
    BY <1>1, <1>2, <1>3, <1>4

\* The invariant is one of the specification.
LEMMA PeerInvariant == Spec => []PeerInv
  BY PeerInit, PeerStep, PTL DEF Spec

-----------------------------------------------------------------------------
(* What it shows *)

\* The file, the writers and the daemon stay within their types.
THEOREM TypeCorrect == Spec => []TypeOK
  BY PeerInvariant, PTL DEF PeerInv

\* A ready peer of an enabled transport has every proof: each update is
\* validated as a whole, the rows it does not touch included.
THEOREM ReadyPeersAreProven == Spec => []ReadyIsProven
  BY PeerInvariant, PTL DEF PeerInv

\* applySSHPeerDelete, RemoveHost and repairListener keep every peer that was
\* given the fleet's key on record, for any peers and any number of updates.
THEOREM KeysStayOnRecord == Spec => []SecretIsRecorded
  <1>1. PeerInv => SecretIsRecorded
    BY DEF PeerInv, KeyInv, Recorded, OnRecord, SecretIsRecorded, Present
  <1> QED
    BY <1>1, PeerInvariant, PTL

-----------------------------------------------------------------------------
(* What is in force *)

\* Sessions of a view.
LEMMA ViewFields ==
  ASSUME NEW d
  PROVE  ViewOf(d).rev = d.rev /\ ViewOf(d).ssh = d.ssh /\ ViewOf(d).sessions = Sessions(d)
  BY DEF ViewOf

\* An update makes every view and every answer older than the file.
LEMMA ForceUpdate ==
  ASSUME TypeOK, ForceInv, NEW w \in Writer, Updates(w)
  PROVE  ForceInv'
  <1>1. doc'.rev = doc.rev + 1 /\ doc.rev \in Nat /\ answered \in Nat
    BY UpdateEffect, PeerConfigAssumption DEF Updates, TypeOK, Document
  <1>2. \A h \in Handler : Reloading(h)' => /\ Reloading(h) /\ loaded'[h] = loaded[h]
                                            /\ pc'[h] = pc[h]
    BY DEF Updates, Reloading, Goto, TypeOK, Writer
  <1>3. \A h \in Handler : loaded[h].rev \in Nat
    BY PeerConfigAssumption DEF TypeOK, Writer, View
  <1>4. answered' = answered /\ answered < doc'.rev /\ UNCHANGED <<crossed, cfg>>
    BY <1>1 DEF Updates, ForceInv, ViewInv
  <1>5. UpdatesStayInForce'
    BY <1>1, <1>4 DEF UpdatesStayInForce
  <1>6. ViewInv'
    BY <1>1, <1>2, <1>3, <1>4 DEF ForceInv, ViewInv
  <1>7. AloneInv'
    BY <1>2, <1>4 DEF ForceInv, AloneInv
  <1> QED
    BY <1>5, <1>6, <1>7 DEF ForceInv

\* A handler reads the file.
LEMMA ForceLoad ==
  ASSUME TypeOK, ForceInv, NEW h \in Handler, Load(h)
  PROVE  ForceInv'
  <1>0. doc.rev \in Nat /\ answered \in Nat
    BY PeerConfigAssumption DEF TypeOK, Document
  <1>1. /\ doc' = doc /\ answered' = answered /\ cfg' = cfg
        /\ pc' = [pc EXCEPT ![h] = "loaded"] /\ loaded' = [loaded EXCEPT ![h] = ViewOf(doc)]
        /\ crossed' = \E g \in Handler \ {h} : Reloading(g)
    BY DEF Load, Goto
  <1>2. h \in Writer /\ pc'[h] = "loaded" /\ loaded'[h] = ViewOf(doc) /\ Reloading(h)'
    BY <1>1 DEF TypeOK, Writer, Reloading
  <1>3. \A g \in Handler \ {h} : pc'[g] = pc[g] /\ loaded'[g] = loaded[g]
    BY <1>1 DEF TypeOK, Writer
  <1>4. ViewInv'
    BY <1>0, <1>1, <1>2, <1>3, ViewFields DEF ForceInv, ViewInv, Reloading
  <1>5. AloneInv'
    <2>1. answered <= ViewOf(doc).rev
      BY ViewFields DEF ForceInv, ViewInv
    <2> QED
      BY <1>1, <1>2, <1>3, <2>1 DEF AloneInv, Reloading
  <1>6. UpdatesStayInForce'
    BY <1>2 DEF UpdatesStayInForce
  <1> QED
    BY <1>4, <1>5, <1>6 DEF ForceInv

\* A handler installs what it has read.
LEMMA ForceInstall ==
  ASSUME TypeOK, ForceInv, NEW h \in Handler, Install(h)
  PROVE  ForceInv'
  <1>1. /\ UNCHANGED <<doc, answered, loaded, crossed>> /\ cfg' = loaded[h]
        /\ pc[h] = "loaded" /\ pc' = [pc EXCEPT ![h] = "installed"]
    BY DEF Install, Goto
  <1>2. h \in Writer /\ pc'[h] = "installed" /\ Reloading(h) /\ Reloading(h)'
    BY <1>1 DEF TypeOK, Writer, Reloading
  <1>3. \A g \in Handler : Reloading(g)' <=> Reloading(g)
    BY <1>1, <1>2 DEF TypeOK, Writer, Reloading
  <1>4. ViewInv'
    BY <1>1, <1>3 DEF ForceInv, ViewInv
  <1>5. AloneInv'
    <2> SUFFICES ASSUME ~crossed, NEW g \in Handler, Reloading(g)
                 PROVE  /\ \A k \in Handler : Reloading(k) => k = g
                        /\ answered <= loaded[g].rev
                        /\ pc'[g] = "installed" => cfg' = loaded[g]
      BY <1>1, <1>3 DEF AloneInv
    <2>1. /\ \A k \in Handler : Reloading(k) => k = g
          /\ answered <= loaded[g].rev
      BY DEF ForceInv, AloneInv
    <2> QED
      BY <1>1, <1>2, <2>1
  <1>6. UpdatesStayInForce'
    BY <1>2 DEF UpdatesStayInForce
  <1> QED
    BY <1>4, <1>5, <1>6 DEF ForceInv

\* A handler refreshes the sessions and answers.
LEMMA ForceRefresh ==
  ASSUME TypeOK, ForceInv, NEW h \in Handler, Refresh(h)
  PROVE  ForceInv'
  <1>0. doc.rev \in Nat /\ answered \in Nat /\ loaded[h].rev \in Nat
    BY PeerConfigAssumption DEF TypeOK, Document, Writer, View
  <1>1. /\ UNCHANGED <<doc, safeMode, cfg, crossed>> /\ pc[h] = "installed"
        /\ pc' = [pc EXCEPT ![h] = "idle"] /\ loaded' = [loaded EXCEPT ![h] = Nothing]
        /\ answered' = IF loaded[h].rev > answered THEN loaded[h].rev ELSE answered
    BY DEF Refresh, Goto
  <1>2. \A g \in Handler : Reloading(g)' =>
            g # h /\ Reloading(g) /\ loaded'[g] = loaded[g] /\ pc'[g] = pc[g]
    BY <1>1 DEF TypeOK, Writer, Reloading
  <1>3. /\ Reloading(h) /\ loaded[h].rev <= doc.rev /\ answered <= doc.rev
        /\ loaded[h].rev = doc.rev => loaded[h] = ViewOf(doc)
    BY <1>1 DEF ForceInv, ViewInv, Reloading
  <1>4. ViewInv'
    BY <1>0, <1>1, <1>2, <1>3 DEF ForceInv, ViewInv
  <1>5. AloneInv'
    <2>1. ~crossed => \A g \in Handler : ~Reloading(g)'
      BY <1>2, <1>3 DEF ForceInv, AloneInv
    <2> QED
      BY <1>1, <2>1 DEF AloneInv
  <1>6. UpdatesStayInForce'
    <2> SUFFICES ASSUME answered' = doc.rev, ~crossed
                 PROVE  /\ cfg = ViewOf(doc)
                        /\ doc.ssh /\ ~safeMode => running'.sessions = Sessions(doc)
      BY <1>1 DEF UpdatesStayInForce, ViewOf, Sessions, Present
    <2>1. answered <= loaded[h].rev /\ cfg = loaded[h]
      BY <1>1, <1>3 DEF ForceInv, AloneInv
    <2>2. loaded[h].rev = doc.rev
      BY <1>0, <1>1, <2>1
    <2>3. loaded[h] = ViewOf(doc)
      BY <1>3, <2>2
    <2>4. doc.ssh /\ ~safeMode => running' = loaded[h]
      BY <2>3, ViewFields DEF Refresh, Refreshed
    <2> QED
      BY <2>1, <2>3, <2>4, ViewFields
  <1> QED
    BY <1>4, <1>5, <1>6 DEF ForceInv

\* Every step keeps the second invariant.
LEMMA ForceStep ==
  ASSUME TypeOK, KeyInv, ForceInv, [Next]_vars
  PROVE  ForceInv'
  <1>1. ASSUME NEW w \in Writer, Updates(w) PROVE ForceInv'
    BY <1>1, ForceUpdate
  <1>2. ASSUME NEW w \in Writer, Send(w) \/ Refused(w) PROVE ForceInv'
    <2>1. /\ UNCHANGED <<doc, loaded, cfg, running, safeMode, answered, crossed>>
          /\ pc[w] \in {"idle", "sent"}
          /\ \E place \in {"idle", "sent"} : pc' = [pc EXCEPT ![w] = place]
      BY <1>2 DEF Send, Refused, Goto
    <2>2. \A h \in Handler :
             /\ Reloading(h)' <=> Reloading(h)
             /\ Reloading(h) => pc'[h] = pc[h]
             /\ pc'[h] \in {"idle", "sent"} <=> pc[h] \in {"idle", "sent"}
      BY <2>1 DEF Reloading, TypeOK, Writer
    <2>3. ViewInv' /\ AloneInv'
      BY <2>1, <2>2 DEF ForceInv, ViewInv, AloneInv
    <2>4. UpdatesStayInForce'
      BY <2>1, <2>2 DEF ForceInv, UpdatesStayInForce
    <2> QED
      BY <2>3, <2>4 DEF ForceInv
  <1>3. ASSUME NEW h \in Handler, Load(h) \/ Install(h) \/ Refresh(h) PROVE ForceInv'
    BY <1>3, ForceLoad, ForceInstall, ForceRefresh
  <1>4. CASE Restart
    <2>1. /\ answered' = 0 /\ doc' = doc /\ doc.rev \in Nat
          /\ \A h \in Handler : ~Reloading(h)'
      BY <1>4, PeerConfigAssumption DEF Restart, Reloading, Writer, TypeOK, Document
    <2> QED
      BY <2>1 DEF ForceInv, ViewInv, AloneInv, UpdatesStayInForce
  <1>5. CASE UNCHANGED vars
    BY <1>5 DEF vars, ForceInv, ViewInv, AloneInv, Reloading, UpdatesStayInForce
  <1> QED
    BY <1>1, <1>2, <1>3, <1>4, <1>5, PeerUpdates, FileUpdates DEF Next

\* Whatever handlers run at the same time: when the last reload to begin ran
\* alone and the daemon has answered for the latest revision, its configuration
\* and its sessions are those of that revision.
THEOREM AnsweredIsInForce == Spec => []UpdatesStayInForce
  <1>1. Init => ForceInv
    BY PeerInit
  <1>2. PeerInv /\ ForceInv /\ [Next]_vars => ForceInv'
    BY ForceStep DEF PeerInv
  <1>3. ForceInv => UpdatesStayInForce
    BY DEF ForceInv
  <1> QED
    BY <1>1, <1>2, <1>3, PeerInvariant, PTL DEF Spec
==============================================================================
