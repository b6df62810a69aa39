# Formal model of clipfan

TLA+ specifications of the parts of clipfan that decide where a clip goes, what
survives on disk and how hosts are connected, TLC configurations that check them
on small instances, and TLAPS proofs, for instances of any size, of every
invariant and action property that the passing runs check.

## 1. The system

clipfan keeps the clipboards of a fleet of hosts in step. Every host runs a
daemon. A daemon polls its clipboard, turns a change into a clip with a random
ID and a timestamp, and publishes it to every peer over a persistent ssh stream.
At the other end of the stream the peer runs `clipfan ssh-gateway`, which hands
the clip to the peer's daemon over loopback HTTP; that daemon writes its
clipboard and relays the clip in turn. There is no coordinator: the newest
timestamp wins and clip IDs stop loops.

| Component | State | Operations | Talks to |
|---|---|---|---|
| Session manager (`daemon/ssh_session.go`) | `m.sessions`, `m.pending`, `m.peerRuntime`, one one-place channel and one goroutine per session, sequence number and in-flight map per attempt | Start, Refresh, Publish, runPeer, runPeerOnce, handleSSHStreamAck | daemon (calls), gateway (frames) |
| Gateway (`cli/ssh_gateway.go`) | next sequence number, IDs sent | handleSSHGatewayState, publishSSHGatewayCurrent | session manager (frames), local daemon (HTTP) |
| Stream (`transport/ssh_stream.go`) | next inbound sequence number, hello nonces | hello, state, ack frames | both |
| Clip handling (`daemon/daemon.go`, `seen.go`) | `d.current`, `d.lastTS`, `d.seen` under `d.mu`; the OS clipboard | pollOnce, onReceive, Restore, the read at start-up | store, clipboard, session manager |
| Store (`store/history.go`, `store.go`) | `history.json` under `historyMu`, the image directory under no lock | SaveImage, AppendHistory, gc, pin, delete, clear, Recap | clip handling, menubar app |
| State files (`store/state.go`) | `state.json`, `current.txt` | SaveState, LoadState, LoadText | clip handling, commands |
| Configuration (`config/v2.go`, `config.go`) | `config.json` with a revision, its lock file, temporary files | scoped update, Load, Save | daemon, commands, menubar app |
| Peer configuration, host removal, listener repair (`config/ssh_peer_config.go`, `ssh.go`, `remove_host.go`, `listener_repair.go`, `daemon/ssh_config.go`) | peer records with migration state, proofs and failures inside `config.json`; `d.cfg` and the sessions of the running daemon | one scoped update per request, then load, install, refresh | configuration, session manager |
| Fleet reset, sync key, daemon lock (`config/sync_key.go`, `fleet_reset.go`, `daemon/daemon_lock.go`) | three key files, staged and backed-up copies, two locks | stage, install, commit, roll back; load or create | configuration, provisioning, daemon start |
| Provisioning and mesh heal (`sshprovision/*`, `cli/ssh_provision*`, `cli/mesh_heal*`) | `authorized_keys`, `known_hosts`, sync keys and peer records on every host | twelve commands per pair over regular ssh, discovery, restarts | remote hosts, peer configuration |
| HTTP server, authentication (`transport/*`) | nonce cache | signed requests | everything local |

What is hard here, and what makes each part correct:

- **Session manager.** Refresh replaces a session while its goroutine is
  anywhere in its loop; Publish and the goroutine share the channel without a
  lock; writes, acks and streams fail at any point and every new stream numbers
  its frames from one. Correct means: exactly one live session per configured
  peer, the newest clip is pending until the peer has it or refuses it, nothing
  counts as delivered that was not, and no clip is retried for ever.
- **Clip handling.** `d.mu` is released around every I/O call, and any number of
  receivers run next to the poll loop and Restore. Correct means: a clip is
  applied and relayed once, concealed clips never leave the host, the newest
  clip wins, and a daemon that reads its own writes back stops broadcasting.
- **Store.** The collection runs concurrently with recording and editing.
  Correct means: images of recorded clips exist, pins hold, the cap holds.
- **Configuration.** Several processes write one file. Correct means: no
  committed change is lost, a crash leaves a whole document and a free lock.
- **A stream's two directions.** Each end writes before it reads, over bounded
  pipes; the near end writes from two goroutines and applies clips under the
  manager's lock; the gateway gives up writes and goes on. Correct means: nobody
  waits for ever, numbers stay in order, both daemons end with the same clip.
- **Peer configuration.** Records pass through migration states by requests in
  any order, from clients with old revisions, while the daemon reloads in steps.
  Correct means: the transport uses proven peers only, a peer that may hold the
  secret is not forgotten, and the daemon runs what it has answered for.
- **Fleet reset.** Nine file moves and a configuration write, each of which may
  fail or be the last. Correct means: the sync key is always one pair or refused,
  a failure restores it, no private key is left lying about, no daemon runs.
- **Provisioning.** Commands on several hosts that fail, or succeed without an
  answer, while users edit. Correct means: what is recorded was probed, and
  repeating the command connects every pair.

`PROJECT.json` lists the hazards at their source lines with the properties that
would catch them.

## 2. Modules

| Module | Models | One action is |
|---|---|---|
| `SshSession` | session manager, gateway and stream towards one peer | one stretch under `m.mu`, one channel operation, one frame written, read or lost |
| `ClipDaemon`, `MCClipDaemon` | poll loop, onReceive, Restore, seen set, echo check | one stretch under `d.mu`, or the I/O between two of them |
| `ClipStore`, `MCClipStore` | history and image store | one operation under `historyMu`, one look at or change of the image directory |
| `SshDuplex` | both directions of one stream, session and gateway, and the two daemons | one frame written, read or taken, one lock, one timer |
| `ConfigFile` | `config.json` and its writers | one file operation or lock operation |
| `ConfigRegister` | what a scoped update promises: an abstract compare-and-swap register | one look, one update |
| `PeerConfig`, `MCPeerConfig` | peer records, the requests on them, the daemon's reload | one scoped update, one step of the reload |
| `LocalReset` | fleet reset, sync key files, daemon lock, creators of the key | one file moved or removed, one lock |
| `MeshHeal`, `MCMeshHeal` | ssh-provision-direct, mesh-heal, the files of all hosts | one remote command, or one update of an apply |
| `SshSession_proofs`, `SshDuplex_proofs`, `ClipDaemon_proofs`, `ClipStore_proofs`, `ConfigFile_proofs`, `PeerConfig_proofs`, `LocalReset_proofs`, `MeshHeal_proofs` | theorems about the module each is named after | |

The modules overlap where parts interact. `ConfigFile` has the parts of a scoped
update and is shown to implement `ConfigRegister`; `PeerConfig` and `MeshHeal`
take an update as the one step it is there. `SshSession` has the sender with its
overlapping sessions in full, `SshDuplex` one stream with both its directions.
`PeerConfig`'s sessions are the peers `SshSession.Refresh` is given, and its
requests are `MeshHeal`'s Edit.

**SshSession.** The manager treats its peers alike and they share only `m.mu`,
so one peer is modelled. A clip is the number of its Publish call. `pc[s]` is the
place of the goroutine of session `s`; sessions are numbered in the order
`startPeerLocked` starts them and `cur` is the one in `m.sessions`. A Publish
holds `m.mu` over the three channel operations of `enqueueLatestSSHState`
(`mu` names the one it does next), so steps that need `m.mu` wait, and the
session goroutine's own channel operations do not. A stream is the queue of
frames `wire`, the queue of acks and the gateway's `gwNext`; `AttemptFailed`
ends the ssh process and drops all three. `latest`, `handed`, `acked` and
`rejected` are history of the run. The reader goroutine of a stream is modelled
for acks only. `DrainRaces = FALSE` keeps Publish out of the window between the
two channel operations of `drainQueuedDuplicateSSHState`; it is used to show
that this window is the only thing between the code and `NewestOnItsWay` and
`PendingResolves`, and the latter names it as its condition.

**ClipDaemon.** Contents are texts and images; a `path` body is the text of an
image's file name, which a text-only clipboard gives back after an image was
written. The three backends are the macOS clipboard (`image`), the Linux tools,
which read images and write their paths (`path`), and no clipboard (`headless`).
On macOS an image is read through pngpaste, which may give other bytes than were
written (`ReadBack`, with any function `Reencoded`): such an image does not pass
for an echo and is broadcast once more under a new ID and hash.
Timestamps are numbers; peers stamp what they like. The history is the set of
what it records: its order, cap and files are `ClipStore`'s subject. A Restore
of an entry whose file is gone fails without a trace and is no step. On macOS a
read is two steps, the content and then the concealment probe with its cache, so
the flag of a clip may be that of a later copy; `ConcealedStaysPut` is about the
flag the read yields, and does not say that the flag is right. `Settles` is about
one daemon; what two macOS hosts make of each other's re-encoded images is not
its subject.

**ClipStore.** Contents are named by their hash, as in the code. `gc` is four
actions: the directory listing, the references, the sizes against the bound, and
each removal. The loops of the code that copy part of a list are `Pick`, the
entries at a set of indices in their order. Reads, writes and removals may fail
at every place where the code goes on or returns. Two history variables account
for images that are lost: `overtaken` marks those that a collection or an edit
removed while a goroutine held their path and had not recorded it, or under an
entry newer than the history the collection had read; `blinded` those that a
collection removed whose `ReferencedImages` had failed, an error that `gc` drops
(`store.go:59`). `DanglingIsExplained` says that there is no third way.

**ConfigFile.** A document is its revision state, its revision and, per writer,
the number of changes that writer has made. The lock is `flock`: it disappears
with its process, the temporary file does not. `setMaxHistory` is the unlocked
writer. It writes `config.json.tmp` (`tmp`, which every save replaces) and renames
it, and may fail or die in between; no scoped update removes that file, since
`removeStaleConfigV2Temps` looks for other names. At most one save runs at a time
in the model: two of them would share the one temporary file. `ImplementsRegister` is the refinement: `seen` of a
writer is the document it has looked at, and an unlocked save that overlaps
another write (`overlapped`) ends the promise.

**SshDuplex.** `main` and `reader` are the two goroutines of `runPeerOnce`,
`wmu` the mutex of their writes, `mu` the manager's lock, `gmain` the gateway's
loop. `up` and `down` are the pipes; the pipe to the far host includes the
channel its reader fills. `writes` are the frames the gateway has begun to
write, the ones it gave up included: their goroutines go on, and writes to one
file are serialised. `Jammed` is the state in which each end waits for the other
to read. A timer fires freely where its wait has no end; firing while the other
side is merely slow counts as a fault. `StreamBreaks` also stalls a connection
without a sign, since ssh runs without keepalives. The operations on the channel
of queued states, and with them the race of `ssh_drain_race`, are part of single
steps here.

**PeerConfig.** A record is its migration state, `enabled`, its directions, the
directions with a proof and the absence proofs of its failures. `Update` is
`withSSHPeerConfigUpdate`: revision, validation of the whole document, next
revision. Handlers belong to the daemon and reload after it in three steps;
commands write the file alone. Handlers run next to each other, and nothing
orders their reloads: `crossed` says that the last handler to read the file did
so while another had read it and not yet refreshed. `exposed` is history too: the
peers that a request has recorded as having the fleet key, less those that a
request has since declared clean of it. All peers have one locator in the run, so
that the check for distinct targets decides. `max_sessions` and a reload whose
read fails, which is answered with an error and changes nothing, are left out.

**LocalReset.** A file is the number of its key pair. `rpc` and `part` are the
place of the reset and of its loop over the three files. `before` is what it
found, `lost` says that moving back failed or that the last reset crashed,
`raced` that a command created a key while a roll-back ran, which the code does
without the key lock. Every `os.Remove` may fail (`Left`, and the second
disjuncts of `Commit` and `Remove`). Only `removeStaleSyncKeyResetScratch`
reports that (`StageFails`); everywhere else the code goes on. `stuck` says that
a roll-back has left a new file it could not remove, until a reset succeeds;
`kept` that the last reset has left a staged or moved file behind.

**MeshHeal.** Keys are numbers, hosts are ordered. A runner keeps what the code
keeps: scanned host keys, the pair's sync keys, reports, and the revision an
apply goes on (`current`). `Commands` is the order of `Provision`. `Answered`
lets every command do its work and lose its answer. The pairs still to heal are a
set, worked through in the order of the host ids as `enumerateMeshEdges` lists
them (`First`). `Carries` is what sshd and
the gateway check. Hosts in `Direct` are behind Tailscale SSH: a probe or a stream
to them uses no sync key and no line of `authorized_keys`, and passes the peer and
the key id on record as arguments, so a probe there shows only that the pinned
host answers (`Shown`). `Edit` is any transition, disable or delete request of a
user that the daemon grants; a user's own upserts and proof patches are
`PeerConfig`'s. `probed` is history.

An apply may first give the file its first revision (`EnsureConfigV2Revision`,
`config_applicator.go:270`) and its host id (`ssh_apply_direct_config.go:139`).
Neither is a step here: no runner holds a revision before them and neither
touches what the properties mention. A peer that a user has disabled is enabled
again by the next provisioning run, as the upsert of an apply always enables.

## 3. Runs

| Run | Shows | States |
|---|---|---|
| `ssh_session` | six safety properties with every interleaving of the channel operations | 1.7 M |
| `ssh_delivery` | liveness and the queue invariants, without the drain window | 0.21 M |
| `ssh_drain_race` | *violation*: the newest clip can be in `m.pending` only, neither queued nor in flight | |
| `ssh_duplex` | frames stay in order and both daemons agree in the end, although both ends can wait for each other | 2.2 M |
| `clip_daemon` | concealment, at-most-once acceptance, relay and quiescence for all backends, one of which re-encodes images | 0.33 M |
| `clip_daemon_race` | *violation*: the older of two clips handled at once stays current | |
| `clip_store` | images and pins under concurrent recording, editing and collection, with failing reads, writes and removals | 2.6 M |
| `config_file` | locked updates by two processes with crashes, next to an unlocked save that may fail or die, implement a compare-and-swap register | 0.51 M |
| `config_lost_update` | *violation*: the unlocked save undoes a locked update | |
| `peer_config` | only proven peers are used, the fleet key stays on record, answered updates are in force, with two concurrent handlers | 1.2 M |
| `local_reset` | the sync key survives failures and crashes of a reset at every file, unnoticed failures to remove one included | 1.2 M |
| `mesh_heal` | recorded keys were probed, healthy edges authenticate, repetition connects every pair, one host behind Tailscale SSH | 0.61 M |

The violating runs state what a document or a comment of the repository says;
`findings` in `PROJECT.json` quotes the lines.

**Bounds.** Three clips are one sent, one queued and one newer than both; two
sessions are one stale and one current; two failures let a retry fail again. One
clip of `Poison` is one the peer always refuses. In `clip_daemon` the seen set
holds one ID, so it forgets within two clips, `MaxMint` is never reached, and the
host's clock starts behind the timestamps of the peers; in `clip_daemon_race` it
starts level with them. `clip_store` has two images and room for one, and caps of
one and two, so every trim and collection decides something. `config_file`
starts in each of the three revision states and reaches the greatest revision.

In `ssh_duplex` a pipe holds one frame and there are four clips: two in one
direction fill a pipe and the write behind it, which both directions need for
each end to wait for the other; two faults are one that leaves a write behind
and one after it. `peer_config` has two peers of one locator, two handlers and a
command, and two or three updates from a document with or without a revision: a
peer with the key may be deleted and created again, or both may be deleted, two
handlers may cross in every order, and the greatest revision is reached. Longer
histories of a peer are the proof's. `local_reset` has
three key pairs and two crashes: the one it starts with or a creator's, and two
resets that die, fail or leave files they cannot remove, the later one finding
what the earlier one has left. `mesh_heal` has three hosts, since a pair that
fails must not keep mesh-heal from the next ones; the last of them is behind
Tailscale SSH, so there are pairs of both kinds. It has one runner, whose `Again`
never ends, so the number of repetitions is not bounded, and one upset, after
which the runner goes on. Two runners at once are covered by the proofs of its
safety properties only.

**Fairness.** Goroutines that can run do run (weak fairness of the steps of a
session, a gateway, a receiver, a relay and the poll loop, whose ticker never
stops). A cancelled context ends the `select` or the ssh process it governs: weak
fairness of the interrupt of a cancelled session. A remote daemon that is down
comes back, because launchd or systemd restarts it. An updater that has started
goes on or dies. Timers whose wait has no other end fire. The reset waits in
`flock`, which queues its waiters: strong fairness of its steps. `Converges` is
about a user who comes back to ssh-provision-direct again and again (strong
fairness of `StartDirect`, since other commands may be tried in between); it says
nothing of a user who gives up. Nothing else is assumed of users, callers, peers
and failures. `Settles` needs no assumption that users stop: stimuli are bounded.

Deadlock is checked in `peer_config`, `local_reset` and `mesh_heal`, where some
process can always go on. The other models are quiet once their bounded stimuli
are used up, and so is the program.

**What is known not to hold**, next to the three violating runs. Each of these
is in the models, and the property named leaves it out:

- A gateway reports a rejection for any failed request to its daemon, and the
  sender drops the clip, although the comment at `ssh_session.go:704` calls a
  rejection final (`DaemonsAgree`).
- An idle session does not notice a stalled connection (`DaemonsAgree`).
- A clip that is published in the drain window may stay in `m.pending`
  (`PendingResolves`, `NewestOnItsWay`; the run `ssh_drain_race`).
- The collection started by a new image can delete it before it is recorded, and
  a collection that cannot read the history deletes images by age alone, although
  the comment at `store.go:52-53` says it is "never deleting an image still
  referenced by a history entry" (`DanglingIsExplained`).
- The design of 2026-06-01 says of temporary files that they are "cleaned on the
  next successful write" (lines 1031-1032). A `config.json.tmp` of a crashed
  `Save` is removed by the next `Save` only (`WritesLeaveNoTemps`).
- The same document says that disable and delete "stop local outbound sessions
  ... before the write response is returned" (lines 637-638). Two handlers that
  overlap can install and refresh in the other order than they loaded; then the
  sessions of the older configuration run on after both have answered, until the
  next reload (`UpdatesStayInForce`, whose exception is exactly `crossed`;
  without it TLC finds this in ten steps).
- A ready peer sent back to `loopback_unprovisioned` to prepare its removal, and a
  failure that may have written the secret and was then retried, leave nothing
  behind when the peer is deleted (`SecretIsRecorded` follows peers while they
  are recorded as having the key). Where the last failure may have written it, a
  deleted `provision_failed` peer leaves a `post_secret_tombstone`; the document
  (lines 645-650) knows only `ssh_material_cleanup` for that state.
- A command that creates a key during the unlocked roll-back of a reset, and a
  roll-back that cannot remove a new private key and ignores that, can leave
  files of two pairs that load (`KeyIsWhole`); a reset that succeeds can leave the
  old private key aside if it cannot remove it (`NoScratchLeft`); a reset whose
  directory sync fails after the rename leaves the new shared key.
- A healthy edge may be one whose sync key was lost or whose host key changed
  (`HealthyEdgeAuthenticates`), a changed host key is never replaced in the pins
  (`Converges`), and a pair whose last answer was lost leaves daemons that are
  not restarted. Edges are compared by their ssh keys: one whose hosts have
  different fleet keys passes for healthy.
- A user's request can leave a peer where every later apply is refused: in
  `shared_key_written_unverified`, which the stage phase does not support, or
  ready while disabled and without proofs, so that it cannot be enabled
  (`Wedged`, left out by `Converges`). Another request of a user is needed.

## 4. Proofs

Each `_proofs` module has one inductive invariant per question, a lemma for its
initial states, one per action or group of actions, and the theorems that follow
from it. All constants are arbitrary: any number of clips, sessions, hosts,
writers, failures, crashes and revisions, any capacity and cap. The proofs use
the assumption of the module they are about, which says that counters are
natural numbers and that names of different kinds of processes differ, and
nothing else unless stated below.

**SshSession** (`BoundsAssumption`).

- `TypeCorrect`: `TypeOK`, with the strengthening that a session about to write
  has a clip (`TypeInv`).
- `LatestIsNeverLost`, `AckedIsDelivered`: `NeverLoseLatest` and
  `AckedWasHanded` from `DeliveryInv`, which adds that every "applied" ack under
  way is about a clip the remote daemon was handed. It is what a `HandleAck`
  step needs to know of an ack that was sent many steps earlier.
- `OneSessionPerPeer`: `SessionOwnership` from `OwnershipInv`, which adds that
  sessions are started in order, that unstarted ones have no goroutine, and that
  `m.sessions` holds one only while the manager runs and lists the peer.
- `StaleSessionsAreInert`: the action property `StaleSessionInert`, from
  `TypeInv` and `OwnershipInv`, action by action.
- `SequenceIsGapless`: `NoSequenceGap` from `SequenceInv`, which ties the
  sender's count to the wire and the gateway at every place of the goroutine: a
  session that has not dialled has an empty, fresh stream, one that may send is
  exactly one number behind, one that is writing is level.
- `PendingStaysNewest`: `PendingIsNewest` under the hypothesis
  `DrainRaces = FALSE`. `NewestInv` says at each place of the current session
  what its hand, its channel and a clip taken out of it hold: the newest clip or
  nothing, unless a newer one is pending.
- `PendingIsOnItsWay`: `NewestOnItsWay` under the same hypothesis. `MatchInv`
  says that a frame or an ack with the number of a state in flight is about the
  same clip, so that an ack takes only its own clip out of flight; `WayInv` says
  where a pending clip is at every place of the session. With
  `DrainRaces = TRUE` the statement is false (`ssh_drain_race`); the proof shows
  that the window between two channel operations is the only cause.

**SshDuplex** (`SshDuplexAssumption`).

- `TypeCorrect`: `TypeOK`, the bounds of the pipes, of failing polls and of relay
  goroutines included. Clips are bounded by the number copied so far, and each
  goroutine has a clip or a frame wherever it works on one.
- `NumbersNeverSkip`: `FramesInOrder` from `OrderInv`: there is a number up to
  which the pipe carries the states and from which on the begun writes do. A
  write that times out stays in `writes`, so the next one continues its number
  and not the pipe's. `ClosedInv` says that nothing of an attempt outlives it.

**ClipDaemon** (`DaemonAssumption`). `DaemonInv` says what each goroutine has in
hand at every place, since `d.mu` is released in between: after its check no
goroutine carries a concealed clip, and a clip that has passed onReceive is in
the seen set or was evicted from it.

- `TypeCorrect`, `ProcessedOnce` (`AcceptedOnce`), `ConcealedLeavesNoTrace`
  (`ConcealedStaysPut`).

**ClipStore** (`StoreAssumption`). `Pick` selects by a count of indices; the first
lemmas show, with the library's facts on cardinality and least elements, that it
enumerates what is kept in order, without loss and without repetition.

- `TypeCorrect`: `TypeOK`; in particular no content is recorded twice.
- `ImagesSurvive`: `DanglingIsExplained` from `StoreInv`, which adds the same for
  the path a writer has in hand: it becomes an entry many steps later. Any step
  may fail, the reading of the references included.
- `TrimmingIsFair`: the action property `PinsAndNewestSurvive`. If capTrim keeps
  an unpinned entry it keeps everything newer (`TrimKeeps`), and recording a clip
  keeps the order of all others (`NewListOrder`).

**ConfigFile** (`ConfigAssumption`). Whoever is between taking and releasing the
lock owns it; what it has read has the revision its caller expects; and as long
as no unlocked save overlaps a write, the copy is what the file still says, but
for the field of the saver.

- `TypeCorrect`, `UpdatesKeepAll` (`ScopedUpdatesKeepAll`),
  `SuccessLeavesNoTemps` (the action property `WritesLeaveNoTemps`, for scoped
  updates and for saves, each about its own temporary files).
- `ConfigFileIsRegister`: `ImplementsRegister`. The initial states map to initial
  states of `ConfigRegister`; a step of an update before its rename maps to a look
  or a stutter, the rename to the compare-and-swap, an unlocked save to a `Save`
  or to the end of the promise.

**PeerConfig** (`PeerConfigAssumption`, `NoPeerAssumption`).

- `TypeCorrect`, `ReadyPeersAreProven` (`ReadyIsProven`), `KeysStayOnRecord`
  (`SecretIsRecorded`). `PeerInv` adds that a document without a revision has no
  peer with the key, since a repair may drop the whole SSH part of such a one.
  Every request is shown to be one validated `Update`, and no `Update` takes a
  tombstone away.
- `AnsweredIsInForce`: `UpdatesStayInForce`, for any number of handlers. `ViewInv`
  says that a view has the revision it was read at; `AloneInv` that, as long as
  the last reader did not cross another, one handler reloads at a time, no answer
  is newer than what it has read, and `d.cfg` is what it has installed. Without
  `crossed` the statement is false (section 3).

**LocalReset** (`LocalResetAssumption`). `ResetInv` says at every place of the
reset, and of its loop over the three files, which files are in place, staged and
moved aside. Creators are excluded by the key lock while files are staged and
moved, and after that by the files that are there; `raced` ends this. What a
failing removal leaves is in it too: with `stuck`, files of the new pair may be
anywhere a roll-back has passed, but a file that there was is aside or back.

- `TypeCorrect`, `NoDaemonMeanwhile` (`ResetRunsAlone`), `NothingLeftBehind`
  (`NoScratchLeft`), `RollBackIsExact` (`FailureRestoresKey`), `LoadedKeyIsWhole`
  (`KeyIsWhole`).

**MeshHeal** (`MeshHealAssumption`). `MeshInv` has conditions on every runner: a
key it holds was made by its host; past the probes, the keys of its pair were
probed. The hosts' part says that no file has a key its host has not made, that
where a probe got through there is a pin for good, and an authorized key unless
the host is in `Direct`, that every key on record for a peer was probed, and that
an enabled ready peer has both. The last two make requests of users harmless in
any order: what they move, disable or enable again has been probed already.

- `TypeCorrect`, `ReadyPeersWereProbed` (`ReadyWasProbed`),
  `SkippedEdgesAuthenticate` (`HealthyEdgeAuthenticates`).

**Only model-checked.** The liveness properties: `PendingResolves`,
`CancelledSessionsEnd`, `AcceptedIsRelayed`, `Settles`, `LockIsReleased`,
`ResetReturns`, `Converges` and `DaemonsAgree`. Fairness and `ENABLED` are outside
what the prover can do. The three violating runs are counterexamples and need no
proof.

## 5. Plan

1. The safety half of the liveness properties as invariants that can be proved:
   that an accepted clip which no goroutine works on was relayed
   (`AcceptedIsRelayed`), and that a clip that is pending while its session is
   idle is in flight under a running timer (`PendingResolves`).
2. If the models grow: the order of two relays (`daemon.go:770`) in a composition
   of `ClipDaemon` and `SshSession`, and the state files.

## 6. Not modelled

- The menubar app, the commands' argument parsing, discovery, tmux, storage
  probes, fleet status: user interface, display and calls of external tools. The
  app's edits of the history are actions of `ClipStore`.
- Encryption, signatures, encodings, nonces and request syntax: data and checks
  without control of their own. A malformed request is `Refused`.
- Safe mode of the daemon's clip handling, which then returns at once.
- State files, backups of the configuration, file modes, owners and symbolic
  links.
- In provisioning: the selection of addresses, the reconcile of the user's own
  known_hosts, and a remote command that goes on after its runner gave up.
  Accept, connect and persistent are always set there, as the plan sets them; a
  host does not change between sshd and Tailscale SSH.
- In the store: the default cap that is used when the configuration cannot be
  loaded. In the configuration: two saves at the same time, which share one
  temporary file name.
