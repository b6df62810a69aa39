----------------------------- MODULE LocalReset -----------------------------
(***************************************************************************)
(* The local fleet reset: a new shared key in config.json and a new sync   *)
(* key beside it (internal/config/sync_key.go, fleet_reset.go, internal/   *)
(* daemon/offline_fleet_reset.go, daemon_lock.go).                         *)
(*                                                                         *)
(* The sync key is three files: the private key, the public key and a      *)
(* sidecar with the identity of the public key.  A reset generates three   *)
(* new ones under temporary names, moves the old ones aside, moves the new *)
(* ones in, writes the configuration and only then removes the old ones;   *)
(* every step may fail, and then the earlier ones are undone, and the      *)
(* process may crash before any step.  Any removal of a file may fail, and *)
(* all but those of removeStaleSyncKeyResetScratch are best effort.        *)
(* Meanwhile provisioning commands load or create the sync key, and a      *)
(* daemon may start.                                                       *)
(*                                                                         *)
(* Files are numbered by the key pair they belong to, 0 when absent.  The  *)
(* shared key has the number of the reset that wrote it, 0 while it is not *)
(* a valid one.  Symbolic links, file modes and owners are left out.       *)
(***************************************************************************)
EXTENDS Naturals

CONSTANTS Creator,   \* commands that load or create the sync key
          NoOne,     \* the owner of a free lock
          MaxKey,    \* bound on the key pairs generated
          MaxCrash   \* bound on crashes of the reset and of creators

ASSUME LocalResetAssumption ==
    /\ MaxKey \in Nat \ {0} /\ MaxCrash \in Nat
    /\ NoOne \notin Creator \cup {"reset", "daemon"}
    /\ {"reset", "daemon"} \cap Creator = {}

VARIABLES
    file, temp, backup,  \* the three files: in place, staged, moved aside
    shared,              \* shared_key of config.json
    rpc, part,           \* where the reset is, and at which of the three files
    keyLock, daemonLock, \* owners of <sync key>.create.lock and daemon.lock
    daemon,              \* does a daemon run?
    cpc, read,           \* where each creator is, the public key it has read
    used,                \* key pairs generated so far
    crashes,
    \* history of the run
    before,              \* the files when the reset began to change them
    lost,                \* was a file not moved back, or did the last reset crash?
    stuck,               \* has a roll-back left a file it could not remove?
    kept,                \* has the last reset left a staged or moved file it could not remove?
    raced                \* has a creator created during a roll-back?

vars == <<file, temp, backup, shared, rpc, part, keyLock, daemonLock, daemon, cpc, read,
          used, crashes, before, lost, stuck, kept, raced>>

Part == 1 .. 3           \* private key, public key, sidecar
Trio == [Part -> 0 .. MaxKey]
None == [i \in Part |-> 0]
Pair(n) == [i \in Part |-> n]

\* What may be left of the files t when each is removed and errors are ignored.
Left(t) == {[i \in Part |-> IF i \in stay THEN t[i] ELSE 0] : stay \in SUBSET Part}

TypeOK ==
    /\ file \in Trio /\ temp \in Trio /\ backup \in Trio /\ before \in Trio
    /\ shared \in 0 .. MaxKey /\ used \in 0 .. MaxKey
    /\ rpc \in {"idle", "waiting", "locked", "keylock", "generate", "move", "install",
                "write", "commit", "remove", "restore", "undone"}
    /\ part \in Part
    /\ keyLock \in Creator \cup {NoOne, "reset"}
    /\ daemonLock \in {NoOne, "reset", "daemon"}
    /\ cpc \in [Creator -> {"idle", "lock", "generate", "read", "sidecar"}]
    /\ read \in [Creator -> 0 .. MaxKey]
    /\ daemon \in BOOLEAN
    /\ crashes \in 0 .. MaxCrash /\ lost \in BOOLEAN /\ raced \in BOOLEAN
    /\ stuck \in BOOLEAN /\ kept \in BOOLEAN

creatorVars == <<cpc, read>>
resetVars == <<temp, backup, shared, rpc, part, before, lost, stuck, kept>>
lockVars == <<keyLock, daemonLock, daemon>>

-----------------------------------------------------------------------------
(* OfflineLocalFleetReset *)

\* RunLocalFleetReset: the status is read, then the daemon lock awaited.
Begin ==
    /\ rpc = "idle"
    /\ rpc' = "waiting"
    /\ UNCHANGED <<file, temp, backup, shared, part, lockVars, creatorVars,
                   used, crashes, before, lost, stuck, kept, raced>>

\* Variant: the reset only waits for the time-out.
NoWait == TRUE

\* acquireDaemonLock: a flock, gone with its owner
DaemonLockFree == daemonLock = NoOne

\* waitForDaemonLock: one try, or the time-out
TakeDaemonLock ==
    /\ rpc = "waiting" /\ DaemonLockFree
    /\ daemonLock' = "reset"
    /\ rpc' = "locked"
    /\ UNCHANGED <<file, temp, backup, shared, part, keyLock, daemon, creatorVars,
                   used, crashes, before, lost, stuck, kept, raced>>

\* Variant: there is no deadline.
NoDeadline == FALSE

Deadline == ~DaemonLockFree

Timeout ==
    /\ rpc = "waiting" /\ Deadline
    /\ rpc' = "idle"
    /\ UNCHANGED <<file, temp, backup, shared, part, lockVars, creatorVars,
                   used, crashes, before, lost, stuck, kept, raced>>

\* resetLocalFleetWithGateAndDeps returns before it has changed anything: the
\* configuration is locked or has changed, its listener is open, it has SSH
\* peers or its shared key is valid.
Refuse ==
    /\ rpc = "locked"
    /\ rpc' = "idle" /\ daemonLock' = NoOne
    /\ UNCHANGED <<file, temp, backup, shared, part, keyLock, daemon, creatorVars,
                   used, crashes, before, lost, stuck, kept, raced>>

\* The guards hold.
Admit ==
    /\ rpc = "locked" /\ shared = 0
    /\ rpc' = "keylock"
    /\ UNCHANGED <<file, temp, backup, shared, part, lockVars, creatorVars,
                   used, crashes, before, lost, stuck, kept, raced>>

\* acquireSyncKeyCreateLock waits; removeStaleSyncKeyResetScratch removes what
\* an earlier reset has left, the files it had moved aside included.
StageLock ==
    /\ rpc = "keylock" /\ keyLock = NoOne
    /\ keyLock' = "reset"
    /\ temp' = None /\ backup' = None
    /\ before' = file /\ lost' = FALSE /\ kept' = FALSE
    /\ rpc' = "generate" /\ part' = 1
    /\ UNCHANGED <<file, shared, daemonLock, daemon, creatorVars, used, crashes, stuck, raced>>

\* One of them cannot be removed: the reset returns and releases both locks.
StageFails ==
    /\ rpc = "keylock" /\ keyLock = NoOne
    /\ temp' \in Left(temp) /\ backup' \in Left(backup)
    /\ rpc' = "idle" /\ daemonLock' = NoOne
    /\ UNCHANGED <<file, shared, part, keyLock, daemon, creatorVars, used, crashes,
                   before, lost, stuck, kept, raced>>

\* createLocalSyncKeyLocked under the temporary name
Generate ==
    /\ rpc = "generate" /\ used < MaxKey
    /\ used' = used + 1 /\ temp' = Pair(used + 1)
    /\ rpc' = "move" /\ part' = 1
    /\ UNCHANGED <<file, backup, shared, lockVars, creatorVars, crashes,
                   before, lost, stuck, kept, raced>>

\* It fails, and its deferred clean-up may leave some of the new files.
GenerateFails ==
    /\ rpc = "generate"
    /\ rpc' = "undone"
    /\ \/ UNCHANGED <<temp, used>>
       \/ used < MaxKey /\ used' = used + 1 /\ temp' \in Left(Pair(used + 1))
    /\ UNCHANGED <<file, backup, shared, part, lockVars, creatorVars, crashes,
                   before, lost, stuck, kept, raced>>

\* The part the loops of a reset take next, and what they do when it was the last.
Loop(body, after) ==
    IF part < 3 THEN rpc' = body /\ part' = part + 1 ELSE rpc' = after /\ part' = 1

\* Variant: the loop begins one too low.
RestoreSecond == 2

\* Variant: the loop begins past the last file.
RestoreFourth == 4

\* restoreSyncKeyResetBackups begins with the file moved last.
RestoreFirst == 3

\* moveExistingSyncKeyMaterialForReset, one file
Move ==
    /\ rpc = "move"
    /\ backup' = [backup EXCEPT ![part] = file[part]]
    /\ file' = [file EXCEPT ![part] = 0]
    /\ Loop("move", "install")
    /\ UNCHANGED <<temp, shared, lockVars, creatorVars, used, crashes,
                   before, lost, stuck, kept, raced>>

MoveFails ==
    /\ rpc = "move" /\ file[part] # 0
    /\ rpc' = "restore" /\ part' = RestoreFirst
    /\ UNCHANGED <<file, temp, backup, shared, lockVars, creatorVars, used, crashes,
                   before, lost, stuck, kept, raced>>

\* installResetSyncKeyMaterial, one file; after the last the key lock is free
Install ==
    /\ rpc = "install"
    /\ file' = [file EXCEPT ![part] = temp[part]]
    /\ temp' = [temp EXCEPT ![part] = 0]
    /\ Loop("install", "write")
    /\ keyLock' = IF part = 3 THEN NoOne ELSE keyLock
    /\ UNCHANGED <<backup, shared, daemonLock, daemon, creatorVars, used, crashes,
                   before, lost, stuck, kept, raced>>

InstallFails ==
    /\ rpc = "install"
    /\ rpc' = "remove" /\ part' = 1
    /\ UNCHANGED <<file, temp, backup, shared, lockVars, creatorVars, used, crashes,
                   before, lost, stuck, kept, raced>>

\* writeConfigV2Atomic; there is no way back from here to an older key
WriteConfig ==
    /\ rpc = "write"
    /\ shared' = used
    /\ rpc' = "commit"
    /\ stuck' = FALSE
    /\ UNCHANGED <<file, temp, backup, part, lockVars, creatorVars, used, crashes,
                   before, lost, kept, raced>>

\* It fails before its rename, or the sync of the directory after it fails.
WriteFails(renamed) ==
    /\ rpc = "write"
    /\ shared' = IF renamed THEN used ELSE shared
    /\ rpc' = "remove" /\ part' = 1
    /\ UNCHANGED <<file, temp, backup, lockVars, creatorVars, used, crashes,
                   before, lost, stuck, kept, raced>>

\* Variant: the private key stays.
ForgetPublic(i) == IF i = 1 THEN backup ELSE [backup EXCEPT ![i] = 0]

\* removeSyncKeyResetBackups, one backup
ForgetOne(i) == [backup EXCEPT ![i] = 0]

\* stagedSyncKeyReset.commit: one backup, an error is ignored; then the reset
\* returns
Commit ==
    /\ rpc = "commit"
    /\ \/ backup' = ForgetOne(part) /\ UNCHANGED kept
       \/ backup[part] # 0 /\ UNCHANGED backup /\ kept' = TRUE
    /\ Loop("commit", "idle")
    /\ daemonLock' = IF part = 3 THEN NoOne ELSE daemonLock
    /\ UNCHANGED <<file, temp, shared, keyLock, daemon, creatorVars, used, crashes,
                   before, lost, stuck, raced>>

\* Variant: what was installed stays.
LeaveOne(i) == file

\* removePathsBestEffort, one path
RemoveOne(i) == [file EXCEPT ![i] = 0]

\* rollbackInstalledSyncKeyReset: the new files go first, as far as they can be
\* removed, ...
Remove ==
    /\ rpc = "remove"
    /\ \/ file' = RemoveOne(part) /\ UNCHANGED stuck
       \/ file[part] # 0 /\ UNCHANGED file /\ stuck' = TRUE
    /\ IF part < 3 THEN rpc' = "remove" /\ part' = part + 1
                   ELSE rpc' = "restore" /\ part' = RestoreFirst
    /\ UNCHANGED <<temp, backup, shared, lockVars, creatorVars, used, crashes,
                   before, lost, kept, raced>>

\* ... then restoreSyncKeyResetBackups moves the old ones back, the last one
\* moved first; it removes what is in place and renames over what is left, and
\* ignores the errors of both.
Restore(moved) ==
    /\ rpc = "restore"
    /\ backup[part] = 0 => moved
    /\ \E inPlace \in {0, file[part]} :
          file' = IF backup[part] = 0 THEN file
                  ELSE [file EXCEPT ![part] = IF moved THEN backup[part] ELSE inPlace]
    /\ backup' = IF moved THEN [backup EXCEPT ![part] = 0] ELSE backup
    /\ lost' = (lost \/ ~moved)
    /\ IF part > 1 THEN rpc' = "restore" /\ part' = part - 1
                   ELSE rpc' = "undone" /\ part' = 1
    /\ UNCHANGED <<temp, shared, lockVars, creatorVars, used, crashes, before, stuck, kept, raced>>

\* The failed reset returns: its temporary files go, if they can be removed, and
\* its locks are free.
ReturnFailed ==
    /\ rpc = "undone"
    /\ rpc' = "idle"
    /\ temp' \in Left(temp) /\ kept' = (kept \/ temp' # None)
    /\ keyLock' = IF keyLock = "reset" THEN NoOne ELSE keyLock
    /\ daemonLock' = NoOne
    /\ UNCHANGED <<file, backup, shared, part, daemon, creatorVars, used, crashes,
                   before, lost, stuck, raced>>

\* The process dies.  The files stay as they are; the locks are flocks.
Crash ==
    /\ rpc # "idle" /\ crashes < MaxCrash
    /\ crashes' = crashes + 1
    /\ rpc' = "idle" /\ part' = 1 /\ lost' = TRUE
    /\ keyLock' = IF keyLock = "reset" THEN NoOne ELSE keyLock
    /\ daemonLock' = IF daemonLock = "reset" THEN NoOne ELSE daemonLock
    /\ UNCHANGED <<file, temp, backup, shared, daemon, creatorVars, used, before, stuck, kept, raced>>

-----------------------------------------------------------------------------
(* loadOrCreateSyncKey *)

\* LoadLocalSyncKey accepts the files; the private key is not looked into.
Loads == file[1] # 0 /\ file[2] # 0 /\ file[2] = file[3]

\* Load reports a missing file: try to create.
WantCreate(c) ==
    /\ cpc[c] = "idle" /\ \E i \in Part : file[i] = 0
    /\ cpc' = [cpc EXCEPT ![c] = "lock"]
    /\ UNCHANGED <<file, resetVars, lockVars, read, used, crashes, raced>>

\* Is a reset changing the files without holding the key lock?
RollingBack == rpc \in {"remove", "restore", "undone"} /\ keyLock # "reset"

\* CreateLocalSyncKey: the lock, and the check that no file is there
CreateLock(c) ==
    /\ cpc[c] = "lock" /\ keyLock = NoOne
    /\ IF file = None
       THEN /\ cpc' = [cpc EXCEPT ![c] = "generate"]
            /\ keyLock' = c
            /\ raced' = (raced \/ RollingBack)
       ELSE /\ cpc' = [cpc EXCEPT ![c] = "idle"]
            /\ UNCHANGED <<keyLock, raced>>
    /\ UNCHANGED <<file, resetVars, daemonLock, daemon, read, used, crashes>>

\* ssh-keygen writes the private and the public key, unless a private key is
\* there by now.
CreateGenerate(c) ==
    /\ cpc[c] = "generate" /\ file[1] = 0 /\ used < MaxKey
    /\ used' = used + 1
    /\ file' = [file EXCEPT ![1] = used + 1, ![2] = used + 1]
    /\ cpc' = [cpc EXCEPT ![c] = "read"]
    /\ raced' = (raced \/ RollingBack)
    /\ UNCHANGED <<resetVars, lockVars, read, crashes>>

\* readOpenSSHPublicKey
CreateRead(c) ==
    /\ cpc[c] = "read" /\ file[2] # 0
    /\ read' = [read EXCEPT ![c] = file[2]]
    /\ cpc' = [cpc EXCEPT ![c] = "sidecar"]
    /\ UNCHANGED <<file, resetVars, lockVars, used, crashes, raced>>

CreateSidecar(c) ==
    /\ cpc[c] = "sidecar"
    /\ file' = [file EXCEPT ![3] = read[c]]
    /\ keyLock' = NoOne
    /\ cpc' = [cpc EXCEPT ![c] = "idle"]
    /\ read' = [read EXCEPT ![c] = 0]
    /\ UNCHANGED <<resetVars, daemonLock, daemon, used, crashes, raced>>

\* The deferred clean-up of createLocalSyncKeyLocked removes what it can of the
\* three files.
CreateFails(c) ==
    /\ cpc[c] \in {"generate", "read", "sidecar"}
    /\ file' \in Left(file)
    /\ keyLock' = NoOne
    /\ cpc' = [cpc EXCEPT ![c] = "idle"]
    /\ read' = [read EXCEPT ![c] = 0]
    /\ UNCHANGED <<resetVars, daemonLock, daemon, used, crashes, raced>>

\* A flock is free once its owner is gone.
CreatorCrash(c) ==
    /\ cpc[c] # "idle" /\ crashes < MaxCrash
    /\ crashes' = crashes + 1
    /\ keyLock' = IF keyLock = c THEN NoOne ELSE keyLock
    /\ cpc' = [cpc EXCEPT ![c] = "idle"]
    /\ read' = [read EXCEPT ![c] = 0]
    /\ UNCHANGED <<file, resetVars, daemonLock, daemon, used, raced>>

-----------------------------------------------------------------------------
(* Daemon.Run *)

DaemonStart ==
    /\ daemonLock = NoOne
    /\ daemonLock' = "daemon" /\ daemon' = TRUE
    /\ UNCHANGED <<file, resetVars, keyLock, creatorVars, used, crashes, raced>>

\* It stops, or crashes.
DaemonStop ==
    /\ daemon
    /\ daemon' = FALSE
    /\ daemonLock' = IF daemonLock = "daemon" THEN NoOne ELSE daemonLock
    /\ UNCHANGED <<file, resetVars, keyLock, creatorVars, used, crashes, raced>>

-----------------------------------------------------------------------------

Init ==
    /\ file \in {None, Pair(1)} /\ temp = None /\ backup = None /\ before = None
    /\ used = file[1]
    /\ shared = 0
    /\ rpc = "idle" /\ part = 1
    /\ keyLock = NoOne /\ daemon \in BOOLEAN
    /\ daemonLock = IF daemon THEN "daemon" ELSE NoOne
    /\ cpc = [c \in Creator |-> "idle"] /\ read = [c \in Creator |-> 0]
    /\ crashes = 0 /\ lost = FALSE /\ stuck = FALSE /\ kept = FALSE /\ raced = FALSE

ResetStep ==
    \/ TakeDaemonLock \/ Timeout \/ Refuse \/ Admit
    \/ StageLock \/ StageFails \/ Generate \/ GenerateFails
    \/ Move \/ MoveFails \/ Install \/ InstallFails
    \/ WriteConfig \/ \E renamed \in BOOLEAN : WriteFails(renamed)
    \/ Commit \/ Remove \/ \E moved \in BOOLEAN : Restore(moved)
    \/ ReturnFailed

CreatorStep(c) ==
    \/ CreateLock(c) \/ CreateGenerate(c) \/ CreateRead(c) \/ CreateSidecar(c)
    \/ CreateFails(c)

Next ==
    \/ Begin \/ ResetStep \/ Crash
    \/ \E c \in Creator : WantCreate(c) \/ CreatorStep(c) \/ CreatorCrash(c)
    \/ DaemonStart \/ DaemonStop

\* Processes that have not crashed go on; nobody has to start one.  flock
\* queues its waiters, so a reset that waits for a lock again and again free
\* gets it.
Spec ==
    /\ Init /\ [][Next]_vars
    /\ SF_vars(ResetStep)
    /\ \A c \in Creator : WF_vars(CreatorStep(c))

-----------------------------------------------------------------------------

\* The files that LoadLocalSyncKey accepts are of one key pair, after any
\* step of a reset, its roll-back, a crash, files that cannot be moved back and
\* the next attempt: the load only compares the public key with the sidecar.
\* Two things break it: a creator that runs into the unlocked roll-back, and a
\* roll-back that ignores that it cannot remove a file it has installed.  The
\* next reset that succeeds mends the latter.
KeyIsWhole == ~raced /\ ~stuck /\ Loads => file[1] = file[2]

\* A reset that fails leaves the sync key it has found, whichever step failed,
\* if moving back does not fail as well: every file there was is back, also
\* over one that could not be removed, and none is added unless it could not.
FailureRestoresKey ==
    rpc = "undone" /\ ~raced /\ ~lost =>
        \A i \in Part : file[i] = before[i] \/ (before[i] = 0 /\ stuck)

\* Neither the old private key nor a new one that was not installed is left
\* beside the sync key, unless the last reset that got to its files crashed, or
\* could not move a file back or remove one; the next reset that gets past its
\* clean-up removes what that one has left.
NoScratchLeft == rpc = "idle" /\ ~lost /\ ~kept => temp = None /\ backup = None

\* No daemon runs from the moment a reset has the daemon lock until it returns
\* or crashes.
ResetRunsAlone ==
    rpc \notin {"idle", "waiting"} => ~daemon

\* A reset returns, whatever creators hold its lock, crash or fail.
ResetReturns == (rpc # "idle") ~> (rpc = "idle")
==============================================================================
