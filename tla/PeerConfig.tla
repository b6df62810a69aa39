----------------------------- MODULE PeerConfig -----------------------------
(***************************************************************************)
(* The SSH peers of config.json, the requests that change them and the     *)
(* daemon that runs them (internal/config/ssh_peer_config.go, ssh.go,      *)
(* ssh_local_material.go, remove_host.go, listener_repair.go, hostid.go    *)
(* and internal/daemon/ssh_config.go).                                     *)
(*                                                                         *)
(* A request names the revision its client has read.  The whole update,    *)
(* from the revision check to the rename, runs under the lock of the       *)
(* configuration file and is one step here (ConfigFile has its parts).     *)
(* What follows it is not under that lock: a handler of the daemon reads   *)
(* the file again, replaces the daemon's configuration and then refreshes  *)
(* its SSH sessions.  A command writes the file and leaves the daemon      *)
(* alone.  Malformed requests change nothing and are Refused.              *)
(***************************************************************************)
EXTENDS Naturals, Sequences, SequencesExt

CONSTANTS Peer,         \* host ids of peers
          Target,       \* the ssh locator each peer is configured with
          Handler,      \* HTTP handlers of the daemon
          Command,      \* clipfan commands that write the file themselves
          NoPeer,       \* no entry in ssh.peers
          MaxRevision,  \* the greatest revision, 2^64 - 1 in the code
          MaxRestart    \* bound on restarts of the daemon

ASSUME PeerConfigAssumption ==
    /\ Handler \cap Command = {}
    /\ DOMAIN Target = Peer
    /\ MaxRevision \in Nat \ {0} /\ MaxRestart \in Nat

VARIABLES
    doc,       \* config.json
    pc,        \* where each writer is
    expect,    \* the revision its request expects
    loaded,    \* what reloadConfigAfterSSHPeerMutation has read
    cfg,       \* d.cfg of the running daemon
    running,   \* the configuration its session manager was given
    safeMode,  \* d.listenerPlan.SafeMode, fixed when the daemon starts
    restarts,
    \* history of the run
    exposed,   \* peers that were given the fleet's key and not cleaned of it since
    answered,  \* the latest revision a handler has answered for
    crossed    \* did the last handler to read the file read it during another's reload?

vars == <<doc, pc, expect, loaded, cfg, running, safeMode, restarts,
          exposed, answered, crossed>>

Writer == Handler \cup Command

MigrationState == {"loopback_unprovisioned", "ssh_material_staged",
    "shared_key_written_unverified", "ssh_keys_ready", "provision_failed"}
Direction == {"accept", "connect"}

\* The states of a peer that has, or may have, the fleet's shared_key.
KeyHeld == {"shared_key_written_unverified", "ssh_keys_ready"}

\* failures: the remote secret absence proofs in migration_log, oldest first,
\* each by its secret_write_command_spawned.
PeerRecord == [state : MigrationState, enabled : BOOLEAN, dirs : SUBSET Direction,
               proof : SUBSET Direction, failures : Seq(BOOLEAN)]

ASSUME NoPeerAssumption == NoPeer \notin PeerRecord

Cleanup == {"ssh_material_cleanup", "post_secret_tombstone"}

\* rev = 0: the document has no revision yet (pre_v2 or missing_revision).
Document == [rev : 0 .. MaxRevision, ssh : BOOLEAN, safe : BOOLEAN,
             static : SUBSET Peer, peers : [Peer -> PeerRecord \cup {NoPeer}],
             remediation : SUBSET (Peer \X Cleanup)]

View == [rev : 0 .. MaxRevision, ssh : BOOLEAN, sessions : SUBSET Peer]
Nothing == [rev |-> 0, ssh |-> FALSE, sessions |-> {}]

TypeOK ==
    /\ doc \in Document
    /\ pc \in [Writer -> {"idle", "sent", "written", "loaded", "installed"}]
    /\ expect \in [Writer -> 0 .. MaxRevision]
    /\ loaded \in [Writer -> View]
    /\ cfg \in View /\ running \in View
    /\ safeMode \in BOOLEAN /\ restarts \in 0 .. MaxRestart
    /\ exposed \subseteq Peer
    /\ answered \in 0 .. MaxRevision
    /\ crossed \in BOOLEAN

-----------------------------------------------------------------------------
(* What the configuration says *)

Present(d) == {p \in Peer : d.peers[p] # NoPeer}

\* sshSyncPeersFromConfig
Sessions(d) ==
    {p \in Present(d) : /\ d.ssh /\ d.peers[p].enabled
                        /\ "connect" \in d.peers[p].dirs
                        /\ d.peers[p].state = "ssh_keys_ready"}

ViewOf(d) == [rev |-> d.rev, ssh |-> d.ssh, sessions |-> Sessions(d)]

\* ValidateDirectionalProof, both directions
Proven(r) == r.enabled => r.dirs \subseteq r.proof

\* Variant: a proof is only looked at when the peer is promoted.
ValidPeerUnproven(d, p) == TRUE

\* validateSSHPeer
ValidPeer(d, p) ==
    d.ssh /\ d.peers[p].state = "ssh_keys_ready" => Proven(d.peers[p])

\* the targets map of ValidateSSHTransportConfig
DistinctTargets(d) ==
    LET connecting == {p \in Present(d) : d.ssh /\ d.peers[p].enabled
                                          /\ "connect" \in d.peers[p].dirs}
    IN  \A p, q \in connecting : Target[p] = Target[q] => p = q

\* ValidateSSHTransportConfig
Valid(d) == DistinctTargets(d) /\ \A p \in Present(d) : ValidPeer(d, p)

-----------------------------------------------------------------------------
(* Requests *)

Goto(w, place) == pc' = [pc EXCEPT ![w] = place]

\* A client reads the revision and sends a request that expects it.
Send(w) ==
    /\ pc[w] = "idle"
    /\ expect' = [expect EXCEPT ![w] = doc.rev]
    /\ Goto(w, "sent")
    /\ UNCHANGED <<doc, loaded, cfg, running, safeMode, restarts,
                   exposed, answered, crossed>>

\* A revision conflict, a malformed request or an update that is not valid.
Refused(w) ==
    /\ pc[w] = "sent"
    /\ Goto(w, "idle")
    /\ expect' = [expect EXCEPT ![w] = 0]
    /\ UNCHANGED <<doc, loaded, cfg, running, safeMode, restarts,
                   exposed, answered, crossed>>

\* Variant: the revision wraps around.
IncrementsAny(d) == TRUE

\* nextConfigRevision
Increments(d) == d.rev < MaxRevision

\* withSSHPeerConfigUpdate: check, validate, write the next revision.
Update(w, next) ==
    /\ pc[w] = "sent"
    /\ expect[w] = doc.rev /\ Increments(doc)
    /\ Valid(next)
    /\ doc' = [next EXCEPT !.rev = doc.rev + 1]

\* What becomes of the writer after its update.
Written(w) ==
    /\ Goto(w, IF w \in Handler THEN "written" ELSE "idle")
    /\ expect' = [expect EXCEPT ![w] = 0]
    /\ UNCHANGED <<loaded, cfg, running, safeMode, restarts, answered, crossed>>

SetPeer(p, r) == [doc EXCEPT !.peers[p] = r]

\* validateSSHPeerCreateFields: the rows a peer may start with
NewRow == [state : {"loopback_unprovisioned"}, enabled : BOOLEAN,
           dirs : SUBSET Direction \ {{}}, proof : {{}}, failures : {<<>>}]

\* applySSHPeerUpsert of a peer that is not there
Create(w, p, row) ==
    /\ doc.rev > 0 /\ doc.peers[p] = NoPeer
    /\ Update(w, SetPeer(p, row))
    /\ Written(w)
    /\ UNCHANGED exposed

\* applySSHPeerUpsert of a peer that is there; its state stays
Upsert(w, p, dirs, enabled) ==
    /\ doc.rev > 0 /\ doc.peers[p] # NoPeer
    /\ Update(w, SetPeer(p, [doc.peers[p] EXCEPT !.dirs = dirs, !.enabled = enabled]))
    /\ Written(w)
    /\ UNCHANGED exposed

\* setDirectionalProofRaw, for each proof of the request
WithProofs(r, proofs) == [r EXCEPT !.proof = @ \cup proofs]

\* applySSHPeerProofPatch
PatchProof(w, p, proofs) ==
    /\ doc.rev > 0 /\ doc.peers[p] # NoPeer /\ proofs # {}
    /\ doc.peers[p].enabled /\ proofs \subseteq doc.peers[p].dirs
    /\ Update(w, SetPeer(p, WithProofs(doc.peers[p], proofs)))
    /\ Written(w)
    /\ UNCHANGED exposed

\* The table of validateSSHPeerTransitionRequest; the reasons are free.
Allowed(r, to) ==
    \/ r.state \in {"loopback_unprovisioned", "provision_failed"}
          /\ to = "ssh_material_staged" /\ Proven(r)
    \/ r.state = "provision_failed" /\ to = "loopback_unprovisioned"
    \/ r.state = "ssh_material_staged" /\ to = "shared_key_written_unverified"
    \/ r.state \in {"ssh_material_staged", "shared_key_written_unverified"}
          /\ to = "ssh_keys_ready" /\ Proven(r)
    \/ r.state \in {"shared_key_written_unverified", "ssh_keys_ready"}
          /\ to = "ssh_material_staged"
    \/ r.state = "ssh_keys_ready" /\ to = "loopback_unprovisioned"

\* applySSHPeerTransition; a peer sent back to the start loses its proofs.  The
\* reasons for leaving a state in which the peer holds the key say that it was
\* removed there, or that the peer's identity is.
Transition(w, p, to) ==
    /\ doc.rev > 0 /\ doc.peers[p] # NoPeer /\ Allowed(doc.peers[p], to)
    /\ Update(w, SetPeer(p, [doc.peers[p] EXCEPT !.state = to,
                    !.proof = IF to = "loopback_unprovisioned" THEN {} ELSE @]))
    /\ Written(w)
    /\ exposed' = IF to \in KeyHeld THEN exposed \cup {p}
                  ELSE IF doc.peers[p].state \in KeyHeld THEN exposed \ {p} ELSE exposed

\* appendSSHPeerMigrationLog: of an entry only its absence proof is kept here.
Logged(r, spawn) == [r EXCEPT !.failures = Append(@, spawn)]

\* applySSHPeerTransition to provision_failed, with its absence proof
Fail(w, p, spawn) ==
    /\ doc.rev > 0 /\ doc.peers[p] # NoPeer
    /\ doc.peers[p].state \in {"loopback_unprovisioned", "ssh_material_staged"}
    /\ Update(w, SetPeer(p, [Logged(doc.peers[p], spawn) EXCEPT !.state = "provision_failed"]))
    /\ Written(w)
    /\ UNCHANGED exposed

\* applySSHPeerDisable
Disable(w, p) ==
    /\ doc.rev > 0 /\ doc.peers[p] # NoPeer
    /\ Update(w, SetPeer(p, [doc.peers[p] EXCEPT !.enabled = FALSE]))
    /\ Written(w)
    /\ UNCHANGED exposed

\* ~ provisionFailedHasRemoteSecretAbsenceProof: the latest proof decides.
LastProofSpawned(r) == r.failures = <<>> \/ Last(r.failures)

\* sshPeerDeleteCleanupStatus: the remediation a deleted peer leaves
CleanupOf(r) ==
    CASE r.state = "loopback_unprovisioned" -> {}
      [] r.state = "ssh_material_staged" -> {"ssh_material_cleanup"}
      [] r.state = "provision_failed" ->
            {IF LastProofSpawned(r) THEN "post_secret_tombstone" ELSE "ssh_material_cleanup"}
      [] OTHER -> {"post_secret_tombstone"}

\* Variant: the record of a deleted peer takes the place of those before it.
OnlyLastRemediation(d, p) == {p} \X CleanupOf(d.peers[p])

\* sshPeerCleanupRecord, appendSSHRemediation
Remediation(d, p) == d.remediation \cup ({p} \X CleanupOf(d.peers[p]))

\* applySSHPeerDelete
Without(d, p) == [d EXCEPT !.peers[p] = NoPeer, !.remediation = Remediation(d, p)]

Delete(w, p) ==
    /\ doc.rev > 0 /\ doc.peers[p] # NoPeer
    /\ Update(w, Without(doc, p))
    /\ Written(w)
    /\ UNCHANGED exposed

\* RemoveHost: the static peer and the SSH peer of that name
RemoveHost(w, p) ==
    /\ p \in doc.static \/ doc.peers[p] # NoPeer
    /\ Update(w, [IF doc.peers[p] = NoPeer THEN doc ELSE Without(doc, p)
                    EXCEPT !.static = @ \ {p}])
    /\ Written(w)
    /\ UNCHANGED exposed

\* EnsureConfigV2Revision; only commands call it
EnsureRevision(w) ==
    /\ w \in Command /\ doc.rev = 0
    /\ Update(w, doc)
    /\ Written(w)
    /\ UNCHANGED exposed

\* UpdateSSHLocalMaterial with a transport; only commands call it
EnableSSH(w) ==
    /\ w \in Command /\ doc.rev > 0
    /\ Update(w, [doc EXCEPT !.ssh = TRUE, !.static = {}])
    /\ Written(w)
    /\ UNCHANGED exposed

\* repairListenerWithBackupAndGate; a document without a revision loses its
\* SSH part.  The daemon's handler reloads nothing.
RepairListener(w) ==
    /\ ~doc.safe
    /\ Update(w, IF doc.rev > 0
                 THEN [doc EXCEPT !.safe = TRUE]
                 ELSE [doc EXCEPT !.safe = TRUE, !.ssh = FALSE, !.remediation = {},
                                  !.peers = [p \in Peer |-> NoPeer]])
    /\ Goto(w, "idle")
    /\ expect' = [expect EXCEPT ![w] = 0]
    /\ UNCHANGED <<loaded, cfg, running, safeMode, restarts,
                   exposed, answered, crossed>>

-----------------------------------------------------------------------------
(* reloadConfigAfterSSHPeerMutation; nothing keeps two handlers apart *)

\* Handler g has read the file and not yet given it to the session manager.
Reloading(g) == pc[g] \in {"loaded", "installed"}

Load(h) ==
    /\ pc[h] = "written"
    /\ loaded' = [loaded EXCEPT ![h] = ViewOf(doc)]
    /\ crossed' = \E g \in Handler \ {h} : Reloading(g)
    /\ Goto(h, "loaded")
    /\ UNCHANGED <<doc, expect, cfg, running, safeMode, restarts,
                   exposed, answered>>

Install(h) ==
    /\ pc[h] = "loaded"
    /\ cfg' = loaded[h]
    /\ Goto(h, "installed")
    /\ UNCHANGED <<doc, expect, loaded, running, safeMode, restarts,
                   exposed, answered, crossed>>

\* Variant: a reload keeps the sessions there are.
RefreshAdds(v) == [v EXCEPT !.sessions = @ \cup running.sessions]

\* sshSyncManager.Refresh, or a new manager
Refreshed(v) == v

\* refreshSSHSyncAfterConfigReload, and the answer
Refresh(h) ==
    /\ pc[h] = "installed"
    /\ running' = IF safeMode \/ ~loaded[h].ssh THEN running ELSE Refreshed(loaded[h])
    /\ answered' = IF loaded[h].rev > answered THEN loaded[h].rev ELSE answered
    /\ loaded' = [loaded EXCEPT ![h] = Nothing]
    /\ Goto(h, "idle")
    /\ UNCHANGED <<doc, expect, cfg, safeMode, restarts, exposed, crossed>>

\* The daemon stops, or crashes, and starts with what the file says.
Restart ==
    /\ restarts < MaxRestart
    /\ restarts' = restarts + 1
    /\ pc' = [w \in Writer |-> IF w \in Handler THEN "idle" ELSE pc[w]]
    /\ cfg' = ViewOf(doc)
    /\ safeMode' = ~doc.safe
    /\ running' = [ViewOf(doc) EXCEPT !.sessions = IF doc.safe THEN @ ELSE {}]
    /\ answered' = 0
    /\ expect' = [w \in Writer |-> IF w \in Handler THEN 0 ELSE expect[w]]
    /\ loaded' = [w \in Writer |-> Nothing]
    /\ crossed' = FALSE
    /\ UNCHANGED <<doc, exposed>>

-----------------------------------------------------------------------------

\* Documents a daemon may start with: one of an earlier release, whose
\* listener is open; one with the SSH transport and peers on their way; one
\* without it, whose peers were promoted while they were disabled.
Row(state, enabled, proof, failures) ==
    [state |-> state, enabled |-> enabled, dirs |-> Direction, proof |-> proof,
     failures |-> failures]

Old == [rev |-> 0, ssh |-> FALSE, safe |-> FALSE, static |-> Peer,
        peers |-> [p \in Peer |-> NoPeer], remediation |-> {}]
Underway == [rev |-> 1, ssh |-> TRUE, safe |-> TRUE, static |-> {}, remediation |-> {},
             peers |-> [p \in Peer |->
                Row("ssh_material_staged", p = CHOOSE q \in Peer : TRUE,
                    Direction, <<FALSE>>)]]
Promoted == [rev |-> 1, ssh |-> FALSE, safe |-> TRUE, static |-> {}, remediation |-> {},
             peers |-> [p \in Peer |-> Row("ssh_keys_ready", FALSE, {}, <<>>)]]

Init ==
    /\ doc \in {Old, Underway, Promoted}
    /\ pc = [w \in Writer |-> "idle"]
    /\ expect = [w \in Writer |-> 0]
    /\ loaded = [w \in Writer |-> Nothing]
    /\ cfg = ViewOf(doc) /\ running = ViewOf(doc)
    /\ safeMode = ~doc.safe
    /\ restarts = 0
    /\ exposed = {p \in Present(doc) : doc.peers[p].state \in KeyHeld}
    /\ answered = 0 /\ crossed = FALSE

UpdatePeer(w, p) ==
    \/ \E row \in NewRow : Create(w, p, row)
    \/ \E dirs \in SUBSET Direction, enabled \in BOOLEAN : Upsert(w, p, dirs, enabled)
    \/ \E proofs \in SUBSET Direction : PatchProof(w, p, proofs)
    \/ \E to \in MigrationState : Transition(w, p, to)
    \/ \E spawn \in BOOLEAN : Fail(w, p, spawn)
    \/ Disable(w, p)
    \/ Delete(w, p)
    \/ RemoveHost(w, p)

Next ==
    \/ \E w \in Writer :
          Send(w) \/ Refused(w) \/ EnsureRevision(w) \/ EnableSSH(w) \/ RepairListener(w)
    \/ \E w \in Writer, p \in Peer : UpdatePeer(w, p)
    \/ \E h \in Handler : Load(h) \/ Install(h) \/ Refresh(h)
    \/ Restart

Spec == Init /\ [][Next]_vars

-----------------------------------------------------------------------------

\* A peer the transport would use has a proof for every enabled direction,
\* however it became ready: it may have been promoted while it was disabled,
\* or enabled before the ssh transport was.
ReadyIsProven ==
    doc.ssh => \A p \in Present(doc) :
        doc.peers[p].state = "ssh_keys_ready" => Proven(doc.peers[p])

\* The fleet's key is never out of sight: a peer that was given it, and was not
\* said to be cleaned of it since, has a row that says so or a tombstone, however
\* often it has been deleted, removed as a host and created again, and whatever
\* else has been deleted or repaired since.  (A transition out of these states is
\* the client's word for it: a ready peer sent back to loopback_unprovisioned to
\* prepare its removal leaves nothing when it is then deleted.)
SecretIsRecorded ==
    \A p \in exposed : \/ p \in Present(doc) /\ doc.peers[p].state \in KeyHeld
                       \/ <<p, "post_secret_tombstone">> \in doc.remediation

\* Once the daemon has answered for the latest revision and no handler is at
\* work, d.cfg is that revision and the sessions are the ones it asks for: a
\* disabled or deleted peer is stopped before the answer and stays stopped,
\* unless two handlers reloaded at the same time, which nothing prevents and
\* only the next reload that runs alone makes good.
UpdatesStayInForce ==
    /\ answered > 0 /\ answered = doc.rev /\ ~crossed
    /\ \A h \in Handler : pc[h] \in {"idle", "sent"}
    => /\ cfg = ViewOf(doc)
       /\ doc.ssh /\ ~safeMode => running.sessions = Sessions(doc)

==============================================================================
