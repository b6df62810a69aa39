------------------------------ MODULE MeshHeal ------------------------------
(***************************************************************************)
(* Provisioning of host pairs over regular ssh: clipfan                    *)
(* ssh-provision-direct and clipfan mesh-heal                              *)
(* (internal/sshprovision/pair_executor.go, pair_plan.go,                  *)
(* regular_ssh_driver.go, config_applicator.go, authorized_keys.go,        *)
(* known_hosts.go and internal/cli/ssh_provision_direct.go, mesh_heal*.go).*)
(*                                                                         *)
(* A runner prepares the hosts, then works through pairs of them.  Every   *)
(* command it runs on a host may fail before it does anything, or do its   *)
(* work and lose its answer; either ends the pair.  Files other than       *)
(* config.json change under a lock of their own in one step; a             *)
(* configuration is applied in several updates, each of which expects the  *)
(* revision of the one before.  Addresses, gateway paths and the contents  *)
(* of keys are left out: a key is a number, 0 is none.  Accept, Connect    *)
(* and Persistent are always set: the plan sets them and no request of     *)
(* these clears them.                                                      *)
(***************************************************************************)
EXTENDS Naturals, Sequences

CONSTANTS Host,       \* host ids, ordered as the code orders its strings
          Direct,     \* hosts whose ssh server is Tailscale's, which asks for no key
          Runner,     \* invocations of a command by a user, one after another
          Home,       \* the host each runner works on
          Again,      \* runners that are invoked again for ever
          MaxFault,   \* bound on failing commands and lost answers
          MaxUpset    \* bound on edits of peers, lost sync keys and changed host keys

ASSUME MeshHealAssumption ==
    /\ Host \subseteq Nat \ {0} /\ Direct \subseteq Host /\ Home \in [Runner -> Host] /\ Again \subseteq Runner
    /\ MaxFault \in Nat /\ MaxUpset \in Nat

VARIABLES
    hostKey,   \* the key each host's sshd shows
    pins,      \* clipfan's known_hosts of each host
    syncKey,   \* the sync key of each host
    made,      \* how many sync keys each host has made
    auth,      \* the key id of each peer's line in authorized_keys
    row,       \* ssh.peers of each host
    fleetKey,  \* shared_key of each host
    stale,     \* does the daemon run an older configuration than the file's?
    run,       \* each runner
    faults, upsets,
    \* history of the run
    probed     \* <<source, target, key>> of the probes that succeeded, with
               \* the key the target's ssh server asked for, 0 if it asks for none

hosts == <<hostKey, pins, syncKey, made, auth, row, fleetKey, stale>>
vars == <<hostKey, pins, syncKey, made, auth, row, fleetKey, stale, run,
          faults, upsets, probed>>

MaxKey == 1 + MaxUpset
States == {"absent", "loopback_unprovisioned", "ssh_material_staged",
           "shared_key_written_unverified", "ssh_keys_ready", "provision_failed"}
PeerRow == [state : States, enabled : BOOLEAN, accept : 0 .. MaxKey, connect : 0 .. MaxKey]
NoRow == [state |-> "absent", enabled |-> FALSE, accept |-> 0, connect |-> 0]
Edge == {e \in Host \X Host : e[1] < e[2]}

\* What a runner remembers: the host keys and fleet key it works with, the
\* sync keys of the current pair, roster reports (view), and, on its way
\* through an Apply, the state it read and whether its revision is current.
Place == {"idle", "discover", "prepare", "pair", "apply", "restart", "ended"}
Keys == [Host -> 0 .. MaxKey]
View == [Host -> [Host -> {"none", "listed", "healthy"}]]
Update == {"none", "material", "upsert", "proof", "stage", "ready"}
RunState == [pc : Place, heal : BOOLEAN, fleetKey : {0} \cup Host, scan : Keys, view : View,
             reports : SUBSET Host, queue : SUBSET Host, seen : SUBSET Host,
             edges : SUBSET Edge, step : 0 .. 12, keys : Keys, update : Update,
             read : States, current : BOOLEAN, changed : SUBSET Host, failed : BOOLEAN]

Zero == [h \in Host |-> 0]
Rest == [pc |-> "idle", heal |-> FALSE, fleetKey |-> 0, scan |-> Zero,
         view |-> [h \in Host |-> [p \in Host |-> "none"]],
         reports |-> {}, queue |-> {}, seen |-> {}, edges |-> {}, step |-> 0,
         keys |-> Zero, update |-> "none", read |-> "absent", current |-> FALSE,
         changed |-> {}, failed |-> FALSE]

TypeOK ==
    /\ hostKey \in [Host -> 1 .. MaxKey]
    /\ pins \in [Host -> Keys]
    /\ syncKey \in Keys /\ made \in Keys
    /\ auth \in [Host -> Keys]
    /\ row \in [Host -> [Host -> PeerRow]]
    /\ fleetKey \in [Host -> Host]
    /\ stale \in [Host -> BOOLEAN]
    /\ run \in [Runner -> RunState]
    /\ faults \in 0 .. MaxFault /\ upsets \in 0 .. MaxUpset
    /\ probed \subseteq Host \X Host \X (0 .. MaxKey)

-----------------------------------------------------------------------------
(* What the files say *)

Proven(peer) == peer.accept # 0 /\ peer.connect # 0

\* ValidateDirectionalProof, both directions: a disabled peer needs no proof.
Current(peer) == peer.enabled => Proven(peer)

\* endIsHealthy, of host h about peer p
EndIsHealthy(h, p) ==
    row[h][p].state = "ssh_keys_ready" /\ row[h][p].enabled /\ Proven(row[h][p])

\* buildRosterReadReport
Report(h) ==
    [p \in Host |-> IF EndIsHealthy(h, p) THEN "healthy"
                    ELSE IF row[h][p].state # "absent" THEN "listed" ELSE "none"]

Listed(view) == {p \in Host : view[p] # "none"}

\* sshSyncPeersFromConfig
Dialled(peer) == peer.state = "ssh_keys_ready" /\ peer.enabled

\* The key id that a gateway at t gets: sshd's forced command names that of
\* the key s came in with; a direct command names the one s has on record.
Presented(s, t) ==
    IF t \in Direct THEN row[s][t].connect
    ELSE IF syncKey[s] = auth[t][s] THEN auth[t][s] ELSE 0

\* validateSSHGatewaySyncPeer, sshd and the authenticated hello: a stream
\* from s to t gets through.
Carries(s, t) ==
    /\ pins[s][t] = hostKey[t]
    /\ Dialled(row[s][t]) /\ Dialled(row[t][s])
    /\ Presented(s, t) # 0 /\ row[t][s].accept = Presented(s, t)
    /\ fleetKey[s] = fleetKey[t]

-----------------------------------------------------------------------------
(* A runner *)

Set(r, s) == run' = [run EXCEPT ![r] = s]

\* The pairs are worked through in the order of their host ids.
First(edges) ==
    CHOOSE e \in edges : \A f \in edges : e[1] < f[1] \/ (e[1] = f[1] /\ e[2] <= f[2])

\* A pair is over: an error ends ssh-provision-direct; mesh-heal notes it
\* and goes on with the next pair.
Over(s, ok) ==
    LET pair == First(s.edges)
        left == IF ok \/ s.heal THEN s.edges \ {pair} ELSE {}
    IN  [s EXCEPT !.edges = left, !.step = IF left = {} THEN 0 ELSE 1,
                  !.keys = Zero, !.update = "none", !.read = "absent", !.current = FALSE,
                  !.failed = @ \/ ~ok,
                  !.changed = IF ok /\ s.heal THEN @ \cup {pair[1], pair[2]} ELSE @,
                  !.pc = IF left = {} THEN "restart" ELSE "pair"]

\* After the last command of the pair, or the next one
Advance(s) ==
    IF s.step = 12 THEN Over(s, TRUE)
    ELSE [s EXCEPT !.step = @ + 1, !.pc = "pair", !.update = "none",
                   !.read = "absent", !.current = FALSE]

\* The commands of a pair, connector first: kind, source or host, target or peer
Commands(e) ==
    LET a == e[1]  b == e[2]
    IN  << <<"pin", a, b>>, <<"pin", b, a>>, <<"key", a, a>>, <<"key", b, b>>,
           <<"auth", a, b>>, <<"auth", b, a>>, <<"probe", a, b>>, <<"probe", b, a>>,
           <<"stage", a, b>>, <<"stage", b, a>>, <<"ready", a, b>>, <<"ready", b, a>> >>

Now(r) == Commands(First(run[r].edges))[run[r].step]

\* runJSON: the command has done its work; its answer arrives or is lost.
Answered(r, next) ==
    \/ Set(r, next) /\ UNCHANGED faults
    \/ faults < MaxFault /\ faults' = faults + 1 /\ Set(r, Over(run[r], FALSE))

\* RunSSHProvisionDirect: all hosts, scanned before the first pair
StartDirect(r) ==
    /\ run[r].pc = "idle"
    /\ Set(r, [Rest EXCEPT !.pc = "prepare", !.fleetKey = fleetKey[Home[r]], !.reports = Host])
    /\ UNCHANGED <<hosts, faults, upsets, probed>>

\* runMeshHeal: the local report and the peers it lists
StartHeal(r) ==
    LET local == Report(Home[r])
    IN  /\ run[r].pc = "idle"
        /\ Set(r, [Rest EXCEPT !.pc = "discover", !.heal = TRUE, !.fleetKey = fleetKey[Home[r]],
                      !.view[Home[r]] = local, !.reports = {Home[r]},
                      !.queue = Listed(local) \ {Home[r]},
                      !.seen = Listed(local) \cup {Home[r]}])
        /\ UNCHANGED <<hosts, faults, upsets, probed>>

\* discoverRoster: trust and read one host, or leave it out as unreachable
Discover(r, t) ==
    LET s == run[r]
        found == Listed(Report(t)) \ s.seen
    IN  /\ s.pc = "discover" /\ t \in s.queue
        /\ \/ /\ Set(r, [s EXCEPT !.view[t] = Report(t), !.reports = @ \cup {t},
                                  !.queue = (@ \ {t}) \cup found, !.seen = @ \cup found])
              /\ UNCHANGED faults
           \/ /\ faults < MaxFault /\ faults' = faults + 1
              /\ Set(r, [s EXCEPT !.queue = @ \ {t}])
        /\ UNCHANGED <<hosts, upsets, probed>>

Discovered(r) ==
    /\ run[r].pc = "discover" /\ run[r].queue = {}
    /\ Set(r, [run[r] EXCEPT !.pc = "prepare"])
    /\ UNCHANGED <<hosts, faults, upsets, probed>>

\* edgeHealthyFromReports
EdgeHealthy(s, e) == s.view[e[1]][e[2]] = "healthy" /\ s.view[e[2]][e[1]] = "healthy"

\* enumerateMeshEdges, without the healthy ones
ToHeal(s) ==
    {e \in s.reports \X s.reports : e[1] < e[2] /\ ~EdgeHealthy(s, e)}

\* The hosts that can be addressed: the local one only if a peer lists it
Addressed(r) ==
    {h \in run[r].reports : run[r].heal /\ h = Home[r] =>
        \E t \in run[r].reports \ {h} : run[r].view[t][h] # "none"}

\* prepHosts and scanSSHProvisionDirectHostKeys: the scan of one host may fail
Prepare(r) ==
    /\ run[r].pc = "prepare"
    /\ \E lost \in {{}} \cup {{h} : h \in Addressed(r)} :
          LET s == run[r]
              prepped == Addressed(r) \ lost
              edges == IF ~s.heal /\ lost # {} THEN {}
                       ELSE {e \in ToHeal(s) : {e[1], e[2]} \subseteq prepped}
          IN  /\ faults + (IF lost = {} THEN 0 ELSE 1) <= MaxFault
              /\ faults' = faults + (IF lost = {} THEN 0 ELSE 1)
              /\ Set(r, [s EXCEPT !.pc = IF edges = {} THEN "restart" ELSE "pair",
                            !.edges = edges, !.step = IF edges = {} THEN 0 ELSE 1,
                            !.scan = [h \in Host |-> IF h \in prepped THEN hostKey[h] ELSE 0],
                            !.failed = edges # ToHeal(s),
                            !.view = Rest.view, !.reports = {}, !.queue = {}, !.seen = {}])
    /\ UNCHANGED <<hosts, upsets, probed>>

\* A command that fails before it does anything, or half way through an Apply
Fails(r) ==
    /\ run[r].pc \in {"pair", "apply"} /\ faults < MaxFault
    /\ faults' = faults + 1
    /\ Set(r, Over(run[r], FALSE))
    /\ UNCHANGED <<hosts, upsets, probed>>

At(r, kind) == run[r].pc = "pair" /\ Now(r)[1] = kind

\* UpsertKnownHostPin: another key for the same host is refused.
UpsertKnownHostPin(r) ==
    LET h == Now(r)[2]  t == Now(r)[3]  key == run[r].scan[t]
    IN  /\ At(r, "pin")
        /\ \/ /\ pins[h][t] \in {0, key}
              /\ pins' = [pins EXCEPT ![h][t] = key]
              /\ Answered(r, Advance(run[r]))
           \/ /\ pins[h][t] \notin {0, key}
              /\ Set(r, Over(run[r], FALSE))
              /\ UNCHANGED <<pins, faults>>
        /\ UNCHANGED <<hostKey, syncKey, made, auth, row, fleetKey, stale, upsets, probed>>

\* Variant: a host gets a new key every time.
NewKeyOf(h) == made[h] + 1

\* loadOrCreateSyncKey
SyncKeyOf(h) == IF syncKey[h] # 0 THEN syncKey[h] ELSE made[h] + 1

EnsureSyncKey(r) ==
    LET h == Now(r)[2]  key == SyncKeyOf(h)
    IN  /\ At(r, "key")
        /\ syncKey' = [syncKey EXCEPT ![h] = key]
        /\ made' = [made EXCEPT ![h] = IF key > @ THEN key ELSE @]
        /\ Answered(r, Advance([run[r] EXCEPT !.keys[h] = key]))
        /\ UNCHANGED <<hostKey, pins, auth, row, fleetKey, stale, upsets, probed>>

\* UpsertManagedAuthorizedKeyFile: one line per peer, the latest
InstallAuthorizedKey(r) ==
    LET s == Now(r)[2]  t == Now(r)[3]
    IN  /\ At(r, "auth")
        /\ auth' = [auth EXCEPT ![t][s] = run[r].keys[s]]
        /\ Answered(r, Advance(run[r]))
        /\ UNCHANGED <<hostKey, pins, syncKey, made, row, fleetKey, stale, upsets, probed>>

\* The pinned ssh of ssh-run-probe gets through to the forced command, and
\* that command names the key the runner expects.  A direct command uses no
\* key and gives back the key id it was given.
ProbeOK(r, s, t) ==
    /\ pins[s][t] = hostKey[t]
    /\ t \in Direct \/ (syncKey[s] = auth[t][s] /\ auth[t][s] = run[r].keys[s])

\* The key that a probe of t shows to work
Shown(t, key) == IF t \in Direct THEN 0 ELSE key

\* Variant: only the connector's direction is probed.
ProbeConnector(r) ==
    LET s == Now(r)[2]  t == Now(r)[3]
    IN  /\ At(r, "probe")
        /\ ProbeOK(r, s, t) \/ s > t
        /\ probed' = IF s > t THEN probed ELSE probed \cup {<<s, t, Shown(t, run[r].keys[s])>>}
        /\ Set(r, Advance(run[r]))
        /\ UNCHANGED <<hosts, faults, upsets>>

\* RunProbe
RunProbe(r) ==
    LET s == Now(r)[2]  t == Now(r)[3]
    IN  /\ At(r, "probe")
        /\ \/ /\ ProbeOK(r, s, t)
              /\ probed' = probed \cup {<<s, t, Shown(t, run[r].keys[s])>>}
              /\ Answered(r, Advance(run[r]))
           \/ /\ ~ProbeOK(r, s, t)
              /\ Set(r, Over(run[r], FALSE))
              /\ UNCHANGED <<probed, faults>>
        /\ UNCHANGED <<hosts, upsets>>

-----------------------------------------------------------------------------
(* ssh-apply-direct-config: the updates of one phase on one host *)

\* A write of h's configuration makes the revisions others have read old.
Outdate(r, h, s) ==
    run' = [q \in Runner |->
              IF q = r THEN s
              ELSE IF run[q].pc = "apply" /\ Now(q)[2] = h THEN [run[q] EXCEPT !.current = FALSE]
              ELSE run[q]]

\* readRevisions, readPeerApplyStates
ApplyRead(r) ==
    LET phase == Now(r)[1]
    IN  /\ run[r].pc = "pair" /\ phase \in {"stage", "ready"}
        /\ Set(r, [run[r] EXCEPT !.pc = "apply", !.current = TRUE,
                      !.read = row[Now(r)[2]][Now(r)[3]].state,
                      !.update = IF phase = "stage" THEN "material" ELSE "ready"])
        /\ UNCHANGED <<hosts, faults, upsets, probed>>

Updating(r, update) == run[r].pc = "apply" /\ run[r].update = update

\* supportedStagePeerApplyState, or no such peer yet; readySSHPeerIfNeeded
Supported(update) ==
    IF update = "ready" THEN {"ssh_material_staged", "ssh_keys_ready"}
    ELSE States \ {"shared_key_written_unverified"}

\* What the validation of the update's outcome refuses: an enabled ready peer,
\* or a transition of an enabled peer, without proofs
Invalid(r) ==
    LET peer == row[Now(r)[2]][Now(r)[3]]
    IN  /\ ~Proven(peer)
        /\ \/ run[r].update = "upsert" /\ peer.state = "ssh_keys_ready"
           \/ run[r].update \in {"stage", "ready"} /\ peer.enabled

\* validateStagePeerApplyStates, ErrConfigRevisionConflict, a state the ready
\* phase does not support, an update that is not valid
ApplyRefused(r) ==
    /\ run[r].pc = "apply"
    /\ ~run[r].current \/ run[r].read \notin Supported(run[r].update) \/ Invalid(r)
    /\ Set(r, Over(run[r], FALSE))
    /\ UNCHANGED <<hosts, faults, upsets, probed>>

\* UpdateSSHLocalMaterial: the runner's fleet key becomes the host's.
UpdateMaterial(r) ==
    LET h == Now(r)[2]
    IN  /\ Updating(r, "material") /\ run[r].current /\ run[r].read \in Supported("material")
        /\ fleetKey' = [fleetKey EXCEPT ![h] = run[r].fleetKey]
        /\ stale' = [stale EXCEPT ![h] = TRUE]
        /\ Outdate(r, h, [run[r] EXCEPT !.update = "upsert"])
        /\ UNCHANGED <<hostKey, pins, syncKey, made, auth, row, faults, upsets, probed>>

SetRow(h, p, new) ==
    /\ row' = [row EXCEPT ![h][p] = new]
    /\ stale' = [stale EXCEPT ![h] = TRUE]
    /\ UNCHANGED <<hostKey, pins, syncKey, made, auth, fleetKey, upsets, probed>>

\* UpsertSSHPeer: a new peer starts unprovisioned, an old one keeps its state
\* and its proofs and is enabled.
UpsertPeer(r) ==
    LET h == Now(r)[2]  p == Now(r)[3]
    IN  /\ Updating(r, "upsert") /\ run[r].current /\ ~Invalid(r)
        /\ SetRow(h, p, [row[h][p] EXCEPT !.enabled = TRUE,
                            !.state = IF run[r].read = "absent" THEN "loopback_unprovisioned" ELSE @])
        /\ Outdate(r, h, [run[r] EXCEPT !.update = "proof",
                             !.read = IF @ = "absent" THEN "loopback_unprovisioned" ELSE @])
        /\ UNCHANGED faults

\* Variant: both proofs record the host's own key.
PatchOwnKey(r) ==
    LET h == Now(r)[2]  p == Now(r)[3]
    IN  /\ Updating(r, "proof") /\ run[r].current
        /\ SetRow(h, p, [row[h][p] EXCEPT !.accept = run[r].keys[h], !.connect = run[r].keys[h]])
        /\ Outdate(r, h, [run[r] EXCEPT !.update = "stage"])
        /\ UNCHANGED faults

\* PatchSSHPeerProof: the peer's key is accepted, the host's own one connects.
PatchProof(r) ==
    LET h == Now(r)[2]  p == Now(r)[3]
    IN  /\ Updating(r, "proof") /\ run[r].current
        /\ SetRow(h, p, [row[h][p] EXCEPT !.accept = run[r].keys[p], !.connect = run[r].keys[h]])
        /\ Outdate(r, h, [run[r] EXCEPT !.update = "stage"])
        /\ UNCHANGED faults

\* The end of an Apply; its answer arrives or is lost.
Finish(r, h) ==
    \/ Outdate(r, h, Advance(run[r])) /\ UNCHANGED faults
    \/ /\ faults < MaxFault /\ faults' = faults + 1
       /\ Outdate(r, h, Over(run[r], FALSE))

\* stageSSHPeerIfNeeded and readySSHPeerIfNeeded: a transition, unless the
\* peer is there already
Transition(r, from, to) ==
    LET h == Now(r)[2]  p == Now(r)[3]
    IN  IF run[r].read \in from
        THEN /\ run[r].current /\ ~Invalid(r)
             /\ SetRow(h, p, [row[h][p] EXCEPT !.state = to]) /\ Finish(r, h)
        ELSE Answered(r, Advance(run[r])) /\ UNCHANGED <<hosts, upsets, probed>>

\* Variant: a failed peer is not tried again.
StageLoopbackOnly(r) ==
    /\ Updating(r, "stage")
    /\ Transition(r, {"loopback_unprovisioned"}, "ssh_material_staged")

StagePeer(r) ==
    /\ Updating(r, "stage")
    /\ Transition(r, {"loopback_unprovisioned", "provision_failed"}, "ssh_material_staged")

ReadyPeer(r) ==
    /\ Updating(r, "ready") /\ run[r].read \in Supported("ready")
    /\ Transition(r, {"ssh_material_staged"}, "ssh_keys_ready")

-----------------------------------------------------------------------------
(* The end of a run *)

\* restartDaemon on each host of a healed pair, in order
RestartDaemon(r) ==
    LET h == CHOOSE x \in run[r].changed : \A y \in run[r].changed : x <= y
        s == [run[r] EXCEPT !.changed = @ \ {h}]
    IN  /\ run[r].pc = "restart" /\ run[r].changed # {}
        /\ \/ stale' = [stale EXCEPT ![h] = FALSE] /\ Set(r, s) /\ UNCHANGED faults
           \/ /\ faults < MaxFault /\ faults' = faults + 1
              /\ Set(r, [s EXCEPT !.failed = TRUE]) /\ UNCHANGED stale
        /\ UNCHANGED <<hostKey, pins, syncKey, made, auth, row, fleetKey, upsets, probed>>

\* The report is written.
Ended(r) ==
    /\ run[r].pc = "restart" /\ run[r].changed = {}
    /\ Set(r, [Rest EXCEPT !.pc = "ended", !.heal = run[r].heal, !.failed = run[r].failed])
    /\ UNCHANGED <<hosts, faults, upsets, probed>>

RunAgain(r) ==
    /\ run[r].pc = "ended" /\ r \in Again
    /\ Set(r, Rest)
    /\ UNCHANGED <<hosts, faults, upsets, probed>>

-----------------------------------------------------------------------------
(* What happens on the hosts meanwhile *)

Upset == upsets < MaxUpset /\ upsets' = upsets + 1 /\ UNCHANGED <<faults, probed>>

\* validateSSHPeerTransitionRequest: the transitions that ask for the proofs of
\* an enabled peer, and the others
Proving ==
    {<<"loopback_unprovisioned", "ssh_material_staged">>,
     <<"provision_failed", "ssh_material_staged">>,
     <<"ssh_material_staged", "ssh_keys_ready">>,
     <<"shared_key_written_unverified", "ssh_keys_ready">>}
Asked ==
    {<<"loopback_unprovisioned", "provision_failed">>,
     <<"ssh_material_staged", "provision_failed">>,
     <<"provision_failed", "loopback_unprovisioned">>,
     <<"ssh_material_staged", "shared_key_written_unverified">>,
     <<"shared_key_written_unverified", "ssh_material_staged">>,
     <<"ssh_keys_ready", "ssh_material_staged">>,
     <<"ssh_keys_ready", "loopback_unprovisioned">>}

\* applySSHPeerTransition: back at the start, a peer has no proofs.
Moved(peer, to) ==
    IF to = "loopback_unprovisioned" THEN [peer EXCEPT !.state = to, !.accept = 0, !.connect = 0]
    ELSE [peer EXCEPT !.state = to]

\* What a transition, disable or delete request of a user makes of a peer
Edited(peer) ==
    {Moved(peer, move[2]) : move \in
        {m \in Proving \cup Asked : m[1] = peer.state /\ (m \in Proving => Current(peer))}}
    \cup {[peer EXCEPT !.enabled = FALSE], NoRow}

\* The daemon that serves the request reloads the file.
Edit(h, p) ==
    /\ Upset
    /\ row[h][p].state # "absent"
    /\ \E new \in Edited(row[h][p]) : row' = [row EXCEPT ![h][p] = new]
    /\ stale' = [stale EXCEPT ![h] = FALSE]
    /\ run' = [q \in Runner |-> IF run[q].pc = "apply" /\ Now(q)[2] = h
                                THEN [run[q] EXCEPT !.current = FALSE] ELSE run[q]]
    /\ UNCHANGED <<hostKey, pins, syncKey, made, auth, fleetKey>>

\* The sync key's files are deleted.
LoseKey(h) ==
    /\ Upset /\ syncKey[h] # 0
    /\ syncKey' = [syncKey EXCEPT ![h] = 0]
    /\ UNCHANGED <<hostKey, pins, made, auth, row, fleetKey, stale, run>>

\* A host's sshd gets another key; users accept it for their own ssh.
Rekey(h) ==
    /\ Upset
    /\ hostKey' = [hostKey EXCEPT ![h] = @ + 1]
    /\ UNCHANGED <<pins, syncKey, made, auth, row, fleetKey, stale, run>>

-----------------------------------------------------------------------------

Init ==
    /\ hostKey = [h \in Host |-> 1]
    /\ pins = [h \in Host |-> Zero] /\ syncKey = Zero /\ made = Zero
    /\ auth = [h \in Host |-> Zero]
    /\ row = [h \in Host |-> [p \in Host |-> NoRow]]
    /\ fleetKey = [h \in Host |-> h]
    /\ stale = [h \in Host |-> FALSE]
    /\ run = [r \in Runner |-> Rest]
    /\ faults = 0 /\ upsets = 0
    /\ probed = {}

Apply(r) ==
    \/ ApplyRead(r) \/ ApplyRefused(r) \/ UpdateMaterial(r) \/ UpsertPeer(r)
    \/ PatchProof(r) \/ StagePeer(r) \/ ReadyPeer(r)

Work(r) ==
    \/ \E t \in Host : Discover(r, t)
    \/ Discovered(r) \/ Prepare(r)
    \/ UpsertKnownHostPin(r) \/ EnsureSyncKey(r) \/ InstallAuthorizedKey(r) \/ RunProbe(r)
    \/ Apply(r)
    \/ RestartDaemon(r) \/ Ended(r) \/ RunAgain(r)

Next ==
    \/ \E r \in Runner : StartDirect(r) \/ StartHeal(r) \/ Work(r) \/ Fails(r)
    \/ \E h, p \in Host : Edit(h, p)
    \/ \E h \in Host : LoseKey(h) \/ Rekey(h)

\* A runner that was started goes on, and users who are invoked again come
\* back to ssh-provision-direct, whatever else they try in between.
Fairness ==
    /\ \A r \in Runner : WF_vars(Work(r))
    /\ \A r \in Again : SF_vars(StartDirect(r))

Spec == Init /\ [][Next]_vars /\ Fairness

-----------------------------------------------------------------------------

\* An enabled ready peer has a key on record for each direction, and a probe
\* got through with it, however often the pair was provisioned, edited,
\* disabled or left half way, and by whom.  Towards a Tailscale host no probe
\* shows that: there it only shows that the pinned host answered.
ReadyWasProbed ==
    \A h, p \in Host : row[h][p].state = "ssh_keys_ready" /\ row[h][p].enabled =>
        /\ Proven(row[h][p])
        /\ <<h, p, Shown(p, row[h][p].connect)>> \in probed
        /\ <<p, h, Shown(h, row[h][p].accept)>> \in probed

\* An edge mesh-heal skips as healthy authenticates both ways, as long as no
\* host lost its sync key or changed its host key: the key a host connects
\* with is the one its peer's gateway expects and the one its peer authorizes
\* (a Tailscale host asks for none).
HealthyEdgeAuthenticates ==
    \A s, t \in Host :
        /\ EndIsHealthy(s, t) /\ EndIsHealthy(t, s)
        /\ made[s] = 1 /\ syncKey[s] # 0 /\ hostKey[t] = 1
        => /\ pins[s][t] = hostKey[t]
           /\ t \in Direct \/ auth[t][s] = syncKey[s]
           /\ row[s][t].connect = syncKey[s] /\ row[t][s].accept = syncKey[s]

\* A peer that no provisioning gets past: the stage phase does not support its
\* state, or it was made ready while disabled and without proofs, and cannot
\* be enabled.  Only a user's transition or delete request helps.
Wedged(peer) ==
    \/ peer.state = "shared_key_written_unverified"
    \/ peer.state = "ssh_keys_ready" /\ ~Proven(peer)

\* Whatever commands failed, answers were lost, keys vanished and peers were
\* edited or disabled on the way, repeating ssh-provision-direct makes every
\* pair carry streams both ways for good, unless a host key changed or a user
\* has left a peer in a state that provisioning does not support.
Converges ==
    <>[](\/ \E h \in Host : hostKey[h] # 1
         \/ \E h, p \in Host : Wedged(row[h][p])
         \/ \A s, t \in Host : s # t => Carries(s, t))
====
