----------------------------- MODULE ConfigFile -----------------------------
(***************************************************************************)
(* config.json and its writers (internal/config/v2.go and config.go).      *)
(*                                                                         *)
(* Scoped updates (updateConfigV2ScopedRawWithBackupAndLock) are made by   *)
(* any number of processes: the daemon and the clipfan commands.  A caller *)
(* has looked at the revision before; the update takes the advisory lock,  *)
(* checks that revision, writes a temporary file of its own and renames    *)
(* it.  The daemon's setMaxHistory is the other writer: config.Load, then  *)
(* config.Save through config.json.tmp, with neither the lock nor the      *)
(* revision.  With one saver at a time that file is nobody else's.         *)
(*                                                                         *)
(* A document is its revision state, its revision, and for every process   *)
(* how often the field this process changes has been changed.  The file    *)
(* exists, is well formed and private; updates pass validation.            *)
(***************************************************************************)
EXTENDS Naturals, FiniteSets

CONSTANTS Updater,      \* processes that make scoped updates
          Saver,        \* the goroutine in setMaxHistory, if any
          NoOne,        \* the lock is free
          MaxRevision,  \* the greatest revision, 2^64 - 1 in the code
          MaxSave,      \* bound on the saves of a saver
          MaxFault      \* bound on crashes and failed writes

ASSUME ConfigAssumption ==
    /\ Updater \cap Saver = {} /\ NoOne \notin Updater
    /\ \A s, r \in Saver : s = r
    /\ MaxRevision \in Nat \ {0} /\ MaxSave \in Nat /\ MaxFault \in Nat

Process == Updater \cup Saver

VARIABLES
    doc,       \* config.json
    lock,      \* who holds the flock of config.json.lock
    temps,     \* updaters whose temporary file exists
    orphans,   \* number of temporary files of crashed or failed updates
    tmp,       \* is there a config.json.tmp?
    pc,
    seen,      \* the document whose revision the caller expects
    copy,      \* the document as read by the writer
    faults,
    \* history of the run
    committed, \* changes whose rename has succeeded
    overlapped \* has an unlocked save overlapped another write?

vars == <<doc, lock, temps, orphans, tmp, pc, seen, copy, faults, committed, overlapped>>

States   == {"pre_v2", "missing_revision", "versioned"}
Document == [state : States, rev : 0 .. MaxRevision, fields : [Process -> Nat]]

Places == {"idle", "observed", "locked", "checked", "written", "renamed", "loaded", "saving"}

TypeOK ==
    /\ doc \in Document /\ (doc.state = "versioned" <=> doc.rev > 0)
    /\ lock \in Updater \cup {NoOne}
    /\ temps \subseteq Updater /\ orphans \in Nat /\ tmp \in BOOLEAN
    /\ pc \in [Process -> Places]
    /\ seen \in [Process -> Document] /\ copy \in [Process -> Document]
    /\ faults \in 0 .. MaxFault
    /\ committed \in [Process -> Nat]
    /\ overlapped \in BOOLEAN

Init ==
    /\ \E s \in States :
         doc = [state |-> s, rev |-> IF s = "versioned" THEN 1 ELSE 0,
                fields |-> [p \in Process |-> 0]]
    /\ lock = NoOne /\ temps = {} /\ orphans = 0 /\ tmp = FALSE
    /\ pc = [p \in Process |-> "idle"]
    /\ seen = [p \in Process |-> doc]
    /\ copy = [p \in Process |-> doc]
    /\ faults = 0
    /\ committed = [p \in Process |-> 0]
    /\ overlapped = FALSE

Goto(p, place) == pc' = [pc EXCEPT ![p] = place]

Fault == faults < MaxFault /\ faults' = faults + 1

-----------------------------------------------------------------------------
(* A scoped update by process p *)

\* The caller reads the document and keeps its revision as the expected one.
Observe(p) ==
    /\ pc[p] = "idle"
    /\ seen' = [seen EXCEPT ![p] = doc]
    /\ Goto(p, "observed")
    /\ UNCHANGED <<doc, lock, temps, orphans, tmp, copy, faults, committed, overlapped>>

\* Variant: the lock is shared.
LockIgnored(p) == TRUE

LockFree(p) == lock = NoOne

\* flock(LOCK_EX)
Lock(p) ==
    /\ pc[p] = "observed" /\ LockFree(p)
    /\ lock' = p
    /\ Goto(p, "locked")
    /\ UNCHANGED <<doc, temps, orphans, tmp, seen, copy, faults, committed, overlapped>>

\* tryConfigFileLock gives up at once.
LockHeld(p) ==
    /\ pc[p] = "observed" /\ lock # NoOne
    /\ Goto(p, "idle")
    /\ UNCHANGED <<doc, lock, temps, orphans, tmp, seen, copy, faults, committed, overlapped>>

\* Variant: only the state is compared.
StateMatches(p) == doc.state = seen[p].state

\* validateRevisionExpectation
Matches(p) == doc.state = seen[p].state /\ doc.rev = seen[p].rev

\* Variant: the revision wraps around.
CanIncrementAny(d) == TRUE

\* nextConfigRevision
CanIncrement(d) == d.rev < MaxRevision

\* Variant: a refused update keeps the lock.
UnlockForgotten(p) == lock

\* The deferred unlock.
Unlock(p) == NoOne

\* Variant: temporary files of crashed processes stay.
LeaveTemps == orphans

\* removeStaleConfigV2Temps
RemoveStaleTemps == 0

\* Under the lock: read, compare with the expected revision, clean up.
Check(p) ==
    /\ pc[p] = "locked" /\ Matches(p) /\ CanIncrement(doc)
    /\ copy' = [copy EXCEPT ![p] = doc]
    /\ orphans' = RemoveStaleTemps
    /\ temps' = {}
    /\ Goto(p, "checked")
    /\ UNCHANGED <<doc, lock, tmp, seen, faults, committed, overlapped>>

\* config_revision_conflict, or a revision that cannot be incremented.
Refused(p) ==
    /\ pc[p] = "locked" /\ ~(Matches(p) /\ CanIncrement(doc))
    /\ orphans' = IF Matches(p) THEN RemoveStaleTemps ELSE orphans
    /\ temps' = IF Matches(p) THEN {} ELSE temps
    /\ lock' = Unlock(p)
    /\ Goto(p, "idle")
    /\ UNCHANGED <<doc, tmp, seen, copy, faults, committed, overlapped>>

WriteTemp(p) ==
    /\ pc[p] = "checked"
    /\ temps' = temps \cup {p}
    /\ Goto(p, "written")
    /\ UNCHANGED <<doc, lock, orphans, tmp, seen, copy, faults, committed, overlapped>>

\* The clean-up fails half-way, or a write fails; then the temporary file is
\* removed, and a failure of that is ignored.
WriteFails(p) ==
    /\ \/ pc[p] = "locked" /\ Matches(p) /\ orphans' \in 0 .. orphans
       \/ pc[p] \in {"checked", "written"} /\ orphans' \in {orphans, orphans + 1}
    /\ Fault
    /\ temps' = temps \ {p}
    /\ lock' = Unlock(p)
    /\ Goto(p, "idle")
    /\ UNCHANGED <<doc, tmp, seen, copy, committed, overlapped>>

\* The document update p writes: its own change, the next revision.
Updated(p) ==
    [state |-> "versioned", rev |-> copy[p].rev + 1,
     fields |-> [copy[p].fields EXCEPT ![p] = @ + 1]]

Rename(p) ==
    /\ pc[p] = "written" /\ p \in temps
    /\ doc' = Updated(p)
    /\ temps' = temps \ {p}
    /\ committed' = [committed EXCEPT ![p] = @ + 1]
    /\ overlapped' = (overlapped \/ \E s \in Saver : copy[p].fields[s] # doc.fields[s])
    /\ Goto(p, "renamed")
    /\ UNCHANGED <<lock, orphans, tmp, seen, copy, faults>>

Finish(p) ==
    /\ pc[p] = "renamed"
    /\ lock' = Unlock(p)
    /\ Goto(p, "idle")
    /\ UNCHANGED <<doc, temps, orphans, tmp, seen, copy, faults, committed, overlapped>>

\* The process of p dies; the kernel drops its lock, its temporary file stays.
Crash(p) ==
    /\ pc[p] # "idle" /\ Fault
    /\ orphans' = IF p \in temps THEN orphans + 1 ELSE orphans
    /\ temps' = temps \ {p}
    /\ lock' = IF lock = p THEN NoOne ELSE lock
    /\ Goto(p, "idle")
    /\ UNCHANGED <<doc, tmp, seen, copy, committed, overlapped>>

-----------------------------------------------------------------------------
(* setMaxHistory by goroutine s *)

Load(s) ==
    /\ pc[s] = "idle" /\ committed[s] < MaxSave
    /\ copy' = [copy EXCEPT ![s] = doc]
    /\ Goto(s, "loaded")
    /\ UNCHANGED <<doc, lock, temps, orphans, tmp, seen, faults, committed, overlapped>>

\* Whatever is at config.json.tmp gives way to the new temporary file.
SaveTemp(s) ==
    /\ pc[s] = "loaded"
    /\ tmp' = TRUE
    /\ Goto(s, "saving")
    /\ UNCHANGED <<doc, lock, temps, orphans, seen, copy, faults, committed, overlapped>>

\* The rename: the whole document as it was loaded, its revision included.
Save(s) ==
    /\ pc[s] = "saving"
    /\ doc' = [copy[s] EXCEPT !.fields[s] = @ + 1]
    /\ tmp' = FALSE
    /\ committed' = [committed EXCEPT ![s] = @ + 1]
    /\ overlapped' = (overlapped \/ copy[s] # doc)
    /\ Goto(s, "idle")
    /\ UNCHANGED <<lock, temps, orphans, seen, copy, faults>>

\* A step of Save before the rename fails: its deferred removal may fail too.
SaveFails(s) ==
    /\ pc[s] \in {"loaded", "saving"} /\ Fault
    /\ tmp' \in BOOLEAN
    /\ Goto(s, "idle")
    /\ UNCHANGED <<doc, lock, temps, orphans, seen, copy, committed, overlapped>>

\* The daemon dies within setMaxHistory.
SaverDies(s) ==
    /\ pc[s] \in {"loaded", "saving"} /\ Fault
    /\ Goto(s, "idle")
    /\ UNCHANGED <<doc, lock, temps, orphans, tmp, seen, copy, committed, overlapped>>

-----------------------------------------------------------------------------
Update(p) ==
    \/ Lock(p) \/ LockHeld(p) \/ Check(p) \/ Refused(p) \/ WriteTemp(p) \/ Rename(p)
    \/ Finish(p)

Next ==
    \/ \E p \in Updater : Observe(p) \/ Update(p) \/ WriteFails(p) \/ Crash(p)
    \/ \E s \in Saver : Load(s) \/ SaveTemp(s) \/ Save(s) \/ SaveFails(s) \/ SaverDies(s)

Spec == Init /\ [][Next]_vars

\* A process that has begun an update goes on until it returns or dies.
FairSpec == Spec /\ \A p \in Updater : WF_vars(Update(p))

-----------------------------------------------------------------------------
(* Properties *)

\* "Local config writes are serialized": no change that a writer has committed
\* disappears from the file.
NoLostUpdate == \A p \in Process : doc.fields[p] = committed[p]

\* Scoped updates of any number of processes never undo each other's changes,
\* over conflicts, failed writes and crashes: only an overlapping unlocked save
\* loses one.
ScopedUpdatesKeepAll == overlapped \/ NoLostUpdate

\* Locked, checked, written, renamed, given up or cut short by a crash, an
\* update is one compare-and-swap or nothing: what it commits is the revision
\* its caller has looked at, however long it waited for the lock.
Register == INSTANCE ConfigRegister WITH expected <- seen, broken <- overlapped
ImplementsRegister == Register!Spec

\* A write that succeeds leaves no temporary file of its own kind, whoever has
\* crashed or failed before: a scoped update none of any update, a save no
\* config.json.tmp.  Neither touches the other's: a config.json.tmp that a
\* crashed save has left outlives every successful scoped update.
WritesLeaveNoTemps ==
    [][/\ \A p \in Updater : committed'[p] # committed[p] => orphans' = 0 /\ temps' = {}
       /\ \A s \in Saver : committed'[s] # committed[s] => ~tmp'
       /\ tmp /\ ~tmp' => \E s \in Saver : pc[s] # "idle" /\ pc'[s] = "idle"]_vars

\* Every path out of an update releases the lock.
LockIsReleased == \A p \in Updater : lock = p ~> lock # p

=============================================================================
