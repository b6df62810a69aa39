------------------------- MODULE ConfigFile_proofs -------------------------
(***************************************************************************)
(* Proofs about ConfigFile for any processes, revisions, crashes and       *)
(* failed writes: the lock excludes updates from each other, so what an    *)
(* update has read is what it replaces, unless an unlocked save comes in   *)
(* between; and the whole file is a compare-and-swap register.             *)
(***************************************************************************)
EXTENDS ConfigFile, TLAPS

-----------------------------------------------------------------------------
(* The inductive invariant *)

\* An updater is at one of these places only while it holds the lock.
Critical == {"locked", "checked", "written", "renamed"}

\* Has the updater read the document and not yet replaced it?
Reading(p) == pc[p] \in {"checked", "written"}

\* The state of a document says whether it has a revision.
Coherent(d) == d.state = "versioned" <=> d.rev > 0

\* The places of updaters and of savers.
PlaceInv ==
    /\ \A p \in Updater : pc[p] \notin {"loaded", "saving"}
    /\ \A s \in Saver : pc[s] \in {"idle", "loaded", "saving"}

\* Whoever is between taking and releasing the lock is its owner.
LockInv == \A p \in Updater : pc[p] \in Critical => lock = p

\* Temporary files are of updates about to rename them, and the update that
\* has passed its check has removed what crashed ones left.
TempInv ==
    /\ \A p \in temps : pc[p] = "written"
    /\ \A p \in Updater : Reading(p) => orphans = 0

\* What was read can be incremented and has the revision the caller expects.
CopyInv ==
    /\ \A p \in Process : Coherent(copy[p])
    /\ \A p \in Updater : Reading(p) =>
          /\ copy[p].rev < MaxRevision
          /\ copy[p].state = seen[p].state /\ copy[p].rev = seen[p].rev

\* It is what the file still says, but for the fields of savers.
FreshInv ==
    ~overlapped => \A p \in Updater : Reading(p) =>
        /\ copy[p].state = doc.state /\ copy[p].rev = doc.rev
        /\ \A q \in Updater : copy[p].fields[q] = doc.fields[q]

ConfigInv == TypeOK /\ PlaceInv /\ LockInv /\ TempInv /\ CopyInv /\ FreshInv

\* The first document, whatever release has left it, satisfies the invariant.
LEMMA ConfigInit == Init => ConfigInv
  <1> SUFFICES ASSUME Init PROVE ConfigInv
    OBVIOUS
  <1> USE ConfigAssumption
  <1>1. PICK s \in States :
           doc = [state |-> s, rev |-> IF s = "versioned" THEN 1 ELSE 0,
                  fields |-> [p \in Process |-> 0]]
    BY DEF Init
  <1>2. doc \in Document /\ Coherent(doc)
    BY <1>1 DEF Document, States, Coherent
  <1>3. TypeOK
    <2>1. /\ seen \in [Process -> Document] /\ copy \in [Process -> Document]
          /\ committed \in [Process -> Nat] /\ pc \in [Process -> Places]
      BY <1>2 DEF Init, Places
    <2>2. /\ lock \in Updater \cup {NoOne} /\ temps \subseteq Updater /\ orphans \in Nat
          /\ faults \in 0 .. MaxFault
      BY DEF Init
    <2>3. overlapped \in BOOLEAN /\ tmp \in BOOLEAN
      BY DEF Init
    <2> QED
      BY <1>2, <2>1, <2>2, <2>3 DEF TypeOK, Coherent
  <1>4. PlaceInv /\ LockInv /\ TempInv
    BY DEF Init, PlaceInv, LockInv, TempInv, Critical, Reading, Process
  <1>5. CopyInv /\ FreshInv
    BY <1>2 DEF Init, CopyInv, FreshInv, Reading, Process
  <1> QED
    BY <1>3, <1>4, <1>5 DEF ConfigInv

\* Two updaters are never between taking and releasing the lock.
LEMMA Exclusion ==
  ASSUME ConfigInv, NEW p \in Updater, NEW q \in Updater,
         pc[p] \in Critical, pc[q] \in Critical
  PROVE  p = q
  BY DEF ConfigInv, LockInv

\* Every place an action goes to is one.
LEMMA PlaceTypes ==
  /\ "idle" \in Places /\ "observed" \in Places /\ "locked" \in Places
  /\ "checked" \in Places /\ "written" \in Places /\ "renamed" \in Places
  /\ "loaded" \in Places /\ "saving" \in Places
  BY DEF Places

-----------------------------------------------------------------------------
(* Steps of an update *)

\* Before the lock: the caller looks at the document, takes the lock, or
\* finds it held.
LEMMA EnterStep ==
  ASSUME ConfigInv, NEW p \in Updater, Observe(p) \/ Lock(p) \/ LockHeld(p)
  PROVE  ConfigInv'
  <1> USE ConfigAssumption, PlaceTypes DEF ConfigInv, Process, Goto
  <1>1. CASE Observe(p)
    <2>1. TypeOK'
      BY <1>1 DEF Observe, TypeOK
    <2>2. PlaceInv' /\ LockInv' /\ TempInv'
      BY <1>1 DEF Observe, PlaceInv, LockInv, TempInv, TypeOK, Critical, Reading
    <2>3. CopyInv' /\ FreshInv'
      BY <1>1 DEF Observe, CopyInv, FreshInv, TypeOK, Reading, Coherent
    <2> QED
      BY <2>1, <2>2, <2>3
  <1>2. CASE Lock(p)
    <2>1. TypeOK'
      BY <1>2 DEF Lock, TypeOK
    <2>2. PlaceInv' /\ LockInv' /\ TempInv'
      BY <1>2 DEF Lock, LockFree, PlaceInv, LockInv, TempInv, TypeOK, Critical, Reading
    <2>3. CopyInv' /\ FreshInv'
      BY <1>2 DEF Lock, CopyInv, FreshInv, TypeOK, Reading, Coherent
    <2> QED
      BY <2>1, <2>2, <2>3
  <1>3. CASE LockHeld(p)
    <2>1. TypeOK'
      BY <1>3 DEF LockHeld, TypeOK
    <2>2. PlaceInv' /\ LockInv' /\ TempInv'
      BY <1>3 DEF LockHeld, PlaceInv, LockInv, TempInv, TypeOK, Critical, Reading
    <2>3. CopyInv' /\ FreshInv'
      BY <1>3 DEF LockHeld, CopyInv, FreshInv, TypeOK, Reading, Coherent
    <2> QED
      BY <2>1, <2>2, <2>3
  <1> QED
    BY <1>1, <1>2, <1>3

\* Under the lock, up to the temporary file.
LEMMA CheckStep ==
  ASSUME ConfigInv, NEW p \in Updater, Check(p) \/ Refused(p) \/ WriteTemp(p)
  PROVE  ConfigInv'
  <1> USE ConfigAssumption, PlaceTypes DEF ConfigInv, Process, Goto
  <1>1. CASE Check(p)
    <2>1. TypeOK'
      BY <1>1 DEF Check, RemoveStaleTemps, TypeOK
    <2>2. PlaceInv' /\ LockInv' /\ TempInv'
      BY <1>1 DEF Check, RemoveStaleTemps, PlaceInv, LockInv, TempInv, TypeOK, Critical, Reading
    <2>3. CopyInv' /\ FreshInv'
      BY <1>1 DEF Check, Matches, CanIncrement, CopyInv, FreshInv, TypeOK, Reading, Coherent
    <2> QED
      BY <2>1, <2>2, <2>3
  <1>2. CASE Refused(p)
    <2>1. TypeOK'
      BY <1>2 DEF Refused, RemoveStaleTemps, Unlock, TypeOK
    <2>2. PlaceInv'
      BY <1>2 DEF Refused, PlaceInv, TypeOK
    <2>3. LockInv' /\ TempInv'
      BY <1>2 DEF Refused, RemoveStaleTemps, Unlock, LockInv, TempInv, TypeOK, Critical, Reading
    <2>4. CopyInv' /\ FreshInv'
      BY <1>2 DEF Refused, CopyInv, FreshInv, TypeOK, Reading, Coherent
    <2> QED
      BY <2>1, <2>2, <2>3, <2>4
  <1>3. CASE WriteTemp(p)
    <2>1. TypeOK'
      BY <1>3 DEF WriteTemp, TypeOK
    <2>2. PlaceInv' /\ LockInv' /\ TempInv'
      BY <1>3 DEF WriteTemp, PlaceInv, LockInv, TempInv, TypeOK, Critical, Reading
    <2>3. CopyInv' /\ FreshInv'
      BY <1>3 DEF WriteTemp, CopyInv, FreshInv, TypeOK, Reading, Coherent
    <2> QED
      BY <2>1, <2>2, <2>3
  <1> QED
    BY <1>1, <1>2, <1>3

\* The ways an update ends without having changed the document.
LEMMA LeaveStep ==
  ASSUME ConfigInv, NEW p \in Updater, WriteFails(p) \/ Finish(p) \/ Crash(p)
  PROVE  ConfigInv'
  <1> USE ConfigAssumption, PlaceTypes DEF ConfigInv, Process, Goto
  <1>1. CASE WriteFails(p)
    <2>1. TypeOK'
      BY <1>1 DEF WriteFails, Fault, Unlock, TypeOK
    <2>2. PlaceInv' /\ LockInv'
      BY <1>1 DEF WriteFails, Unlock, PlaceInv, LockInv, TypeOK, Critical
    <2>3. pc[p] \in Critical
      BY <1>1 DEF WriteFails, Critical
    <2>4. \A q \in Updater : ~Reading(q)'
      <3> SUFFICES ASSUME NEW q \in Updater, Reading(q)' PROVE FALSE
        OBVIOUS
      <3>1. q # p /\ Reading(q)
        BY <1>1 DEF WriteFails, Reading, TypeOK
      <3> QED
        BY <2>3, <3>1, Exclusion DEF Reading, Critical
    <2>5. TempInv'
      BY <1>1, <2>4 DEF WriteFails, TempInv, TypeOK
    <2>6. CopyInv' /\ FreshInv'
      BY <1>1 DEF WriteFails, CopyInv, FreshInv, TypeOK, Reading, Coherent
    <2> QED
      BY <2>1, <2>2, <2>5, <2>6
  <1>2. CASE Finish(p)
    <2>1. TypeOK'
      BY <1>2 DEF Finish, Unlock, TypeOK
    <2>2. PlaceInv' /\ LockInv' /\ TempInv'
      BY <1>2 DEF Finish, Unlock, PlaceInv, LockInv, TempInv, TypeOK, Critical, Reading
    <2>3. CopyInv' /\ FreshInv'
      BY <1>2 DEF Finish, CopyInv, FreshInv, TypeOK, Reading, Coherent
    <2> QED
      BY <2>1, <2>2, <2>3
  <1>3. CASE Crash(p)
    <2>1. TypeOK'
      BY <1>3 DEF Crash, Fault, TypeOK
    <2>2. PlaceInv' /\ LockInv'
      BY <1>3 DEF Crash, PlaceInv, LockInv, TypeOK, Critical
    <2>3. TempInv'
      BY <1>3 DEF Crash, LockInv, TempInv, TypeOK, Critical, Reading
    <2>4. CopyInv' /\ FreshInv'
      BY <1>3 DEF Crash, CopyInv, FreshInv, TypeOK, Reading, Coherent
    <2> QED
      BY <2>1, <2>2, <2>3, <2>4
  <1> QED
    BY <1>1, <1>2, <1>3

-----------------------------------------------------------------------------
(* Steps that change the document *)

\* What an update writes is a document with the next revision.
LEMMA UpdatedType ==
  ASSUME ConfigInv, NEW p \in Updater, Reading(p)
  PROVE  /\ Updated(p) \in Document /\ Coherent(Updated(p))
         /\ Updated(p).state = "versioned" /\ Updated(p).rev = copy[p].rev + 1
         /\ Updated(p).fields = [copy[p].fields EXCEPT ![p] = @ + 1]
  <1> USE ConfigAssumption DEF ConfigInv, Process
  <1>1. copy[p] \in Document /\ copy[p].rev < MaxRevision
    BY DEF TypeOK, CopyInv
  <1>2. copy[p].rev + 1 \in 0 .. MaxRevision /\ copy[p].rev + 1 > 0
    BY <1>1 DEF Document
  <1>3. [copy[p].fields EXCEPT ![p] = @ + 1] \in [Process -> Nat]
    BY <1>1 DEF Document
  <1> QED
    BY <1>2, <1>3 DEF Updated, Document, States, Coherent

\* What a save writes back is the document it has loaded, with its own field
\* changed.
LEMMA SavedType ==
  ASSUME ConfigInv, NEW s \in Saver
  PROVE  LET d == [copy[s] EXCEPT !.fields[s] = @ + 1]
         IN  /\ d \in Document /\ Coherent(d)
             /\ d.state = copy[s].state /\ d.rev = copy[s].rev
             /\ d.fields = [copy[s].fields EXCEPT ![s] = @ + 1]
  <1> DEFINE d == [copy[s] EXCEPT !.fields[s] = @ + 1]
  <1>1. copy[s] \in Document /\ Coherent(copy[s])
    BY DEF ConfigInv, TypeOK, CopyInv, Process
  <1>2. /\ d.state = copy[s].state /\ d.rev = copy[s].rev
        /\ d.fields = [copy[s].fields EXCEPT ![s] = @ + 1]
        /\ d.fields \in [Process -> Nat]
    BY <1>1 DEF Document, Process
  <1>3. d \in Document
    BY <1>1, <1>2 DEF Document, States
  <1> QED
    BY <1>1, <1>2, <1>3 DEF Coherent

\* The rename of an update that no save has overlapped replaces exactly the
\* document that was read.
LEMMA RenameIsFresh ==
  ASSUME ConfigInv, NEW p \in Updater, Rename(p), ~overlapped'
  PROVE  copy[p] = doc /\ ~overlapped
  <1> USE DEF ConfigInv, Process
  <1>1. ~overlapped /\ \A s \in Saver : copy[p].fields[s] = doc.fields[s]
    BY DEF Rename, TypeOK
  <1>2. /\ copy[p].state = doc.state /\ copy[p].rev = doc.rev
        /\ \A q \in Updater : copy[p].fields[q] = doc.fields[q]
    BY <1>1 DEF Rename, FreshInv, Reading
  <1>3. copy[p] \in Document /\ doc \in Document
    BY DEF TypeOK
  <1>4. copy[p].fields = doc.fields
    BY <1>1, <1>2, <1>3 DEF Document
  <1> QED
    BY <1>1, <1>2, <1>3, <1>4 DEF Document

\* A rename keeps the invariant: nobody else holds a copy he will write.
LEMMA RenameStep ==
  ASSUME ConfigInv, NEW p \in Updater, Rename(p)
  PROVE  ConfigInv'
  <1> USE ConfigAssumption, PlaceTypes DEF ConfigInv, Process, Goto
  <1>1. Reading(p) /\ pc[p] \in Critical
    BY DEF Rename, Reading, Critical
  <1>2. doc' \in Document /\ Coherent(doc')
    BY <1>1, UpdatedType DEF Rename
  <1>3. TypeOK'
    BY <1>2 DEF Rename, TypeOK, Coherent
  <1>4. PlaceInv' /\ LockInv' /\ TempInv'
    BY DEF Rename, PlaceInv, LockInv, TempInv, TypeOK, Critical, Reading
  <1>5. CopyInv'
    BY DEF Rename, CopyInv, TypeOK, Reading, Coherent
  <1>6. \A q \in Updater : ~Reading(q)'
    <2> SUFFICES ASSUME NEW q \in Updater, Reading(q)' PROVE FALSE
      OBVIOUS
    <2>1. q # p /\ Reading(q)
      BY DEF Rename, Reading, TypeOK
    <2> QED
      BY <1>1, <2>1, Exclusion DEF Reading, Critical
  <1>7. FreshInv'
    BY <1>6 DEF FreshInv
  <1> QED
    BY <1>3, <1>4, <1>5, <1>7

\* An unlocked save leaves every update's copy fresh but for its own field,
\* or has overlapped another write.
LEMMA SaverStep ==
  ASSUME ConfigInv, NEW s \in Saver, Load(s) \/ SaveTemp(s) \/ Save(s) \/ SaveFails(s) \/ SaverDies(s)
  PROVE  ConfigInv'
  <1> USE ConfigAssumption, PlaceTypes DEF ConfigInv, Process, Goto
  <1>1. CASE Load(s)
    <2>1. TypeOK'
      BY <1>1 DEF Load, TypeOK
    <2>2. PlaceInv' /\ LockInv' /\ TempInv'
      BY <1>1 DEF Load, PlaceInv, LockInv, TempInv, TypeOK, Critical, Reading
    <2>3. CopyInv' /\ FreshInv'
      BY <1>1 DEF Load, CopyInv, FreshInv, TypeOK, Reading, Coherent
    <2> QED
      BY <2>1, <2>2, <2>3
  <1>2. CASE Save(s)
    <2>1. /\ doc' \in Document /\ Coherent(doc')
          /\ doc'.state = copy[s].state /\ doc'.rev = copy[s].rev
          /\ doc'.fields = [copy[s].fields EXCEPT ![s] = @ + 1]
      BY <1>2, SavedType DEF Save
    <2>2. TypeOK'
      <3>1. /\ pc' \in [Process -> Places] /\ committed' \in [Process -> Nat]
            /\ UNCHANGED <<lock, temps, orphans, seen, copy, faults>>
        BY <1>2 DEF Save, TypeOK
      <3>2. tmp' = FALSE
        BY <1>2 DEF Save
      <3>3. tmp' \in BOOLEAN
        BY <3>2
      <3>4. overlapped' \in BOOLEAN
        BY <1>2 DEF Save, TypeOK
      <3> QED
        BY <2>1, <3>1, <3>3, <3>4 DEF TypeOK, Coherent
    <2>3. PlaceInv' /\ LockInv' /\ TempInv'
      BY <1>2 DEF Save, PlaceInv, LockInv, TempInv, TypeOK, Critical, Reading
    <2>4. CopyInv'
      BY <1>2 DEF Save, CopyInv, TypeOK, Reading, Coherent
    <2>5. FreshInv'
      <3> SUFFICES ASSUME ~overlapped', NEW p \in Updater, Reading(p)'
                   PROVE  /\ copy'[p].state = doc'.state /\ copy'[p].rev = doc'.rev
                          /\ \A q \in Updater : copy'[p].fields[q] = doc'.fields[q]
        BY DEF FreshInv
      <3>1. ~overlapped /\ copy[s] = doc /\ copy' = copy /\ Reading(p)
        BY <1>2 DEF Save, TypeOK, Reading
      <3>2. \A q \in Updater : doc'.fields[q] = doc.fields[q]
        BY <2>1, <3>1 DEF TypeOK, Document
      <3> QED
        BY <2>1, <3>1, <3>2 DEF FreshInv
    <2> QED
      BY <2>2, <2>3, <2>4, <2>5
  <1>3. CASE SaveFails(s)
    <2>1. TypeOK'
      BY <1>3 DEF SaveFails, Fault, TypeOK
    <2>2. PlaceInv' /\ LockInv' /\ TempInv'
      BY <1>3 DEF SaveFails, PlaceInv, LockInv, TempInv, TypeOK, Critical, Reading
    <2>3. CopyInv' /\ FreshInv'
      BY <1>3 DEF SaveFails, CopyInv, FreshInv, TypeOK, Reading, Coherent
    <2> QED
      BY <2>1, <2>2, <2>3
  <1>4. CASE SaverDies(s)
    <2>1. TypeOK'
      BY <1>4 DEF SaverDies, Fault, TypeOK
    <2>2. PlaceInv' /\ LockInv' /\ TempInv'
      BY <1>4 DEF SaverDies, PlaceInv, LockInv, TempInv, TypeOK, Critical, Reading
    <2>3. CopyInv' /\ FreshInv'
      BY <1>4 DEF SaverDies, CopyInv, FreshInv, TypeOK, Reading, Coherent
    <2> QED
      BY <2>1, <2>2, <2>3
  <1>5. CASE SaveTemp(s)
    <2>1. TypeOK'
      BY <1>5 DEF SaveTemp, TypeOK
    <2>2. PlaceInv' /\ LockInv' /\ TempInv'
      BY <1>5 DEF SaveTemp, PlaceInv, LockInv, TempInv, TypeOK, Critical, Reading
    <2>3. CopyInv' /\ FreshInv'
      BY <1>5 DEF SaveTemp, CopyInv, FreshInv, TypeOK, Reading, Coherent
    <2> QED
      BY <2>1, <2>2, <2>3
  <1> QED
    BY <1>1, <1>2, <1>3, <1>4, <1>5

\* Every step keeps the invariant.
LEMMA ConfigStep == ConfigInv /\ [Next]_vars => ConfigInv'
  <1> SUFFICES ASSUME ConfigInv, [Next]_vars PROVE ConfigInv'
    OBVIOUS
  <1>1. ASSUME NEW p \in Updater, Observe(p) \/ Update(p) \/ WriteFails(p) \/ Crash(p)
        PROVE  ConfigInv'
    BY <1>1, EnterStep, CheckStep, LeaveStep, RenameStep DEF Update
  <1>2. ASSUME NEW s \in Saver, Load(s) \/ SaveTemp(s) \/ Save(s) \/ SaveFails(s) \/ SaverDies(s)
        PROVE  ConfigInv'
    BY <1>2, SaverStep
  <1>3. CASE UNCHANGED vars
    BY <1>3 DEF vars, ConfigInv, TypeOK, PlaceInv, LockInv, TempInv, CopyInv, FreshInv,
       Reading, Coherent
  <1> QED
    BY <1>1, <1>2, <1>3 DEF Next

\* The invariant holds in every reachable state.
LEMMA ConfigInvariant == Spec => []ConfigInv
  <1>1. Init => ConfigInv
    BY ConfigInit
  <1>2. ConfigInv /\ [Next]_vars => ConfigInv'
    BY ConfigStep
  <1> QED
    BY <1>1, <1>2, PTL DEF Spec

-----------------------------------------------------------------------------
(* What the invariant is for *)

\* The variables of the file, its lock, its temporary files and its writers
\* keep their types; in particular the revision stays within its bound.
THEOREM TypeCorrect == Spec => []TypeOK
  <1>1. ConfigInv => TypeOK
    BY DEF ConfigInv
  <1> QED
    BY <1>1, ConfigInvariant, PTL

\* A step keeps every committed change, or a save has overlapped a write.
LEMMA KeepStep ==
  ConfigInv /\ ScopedUpdatesKeepAll /\ [Next]_vars => ScopedUpdatesKeepAll'
  <1> SUFFICES ASSUME ConfigInv, ScopedUpdatesKeepAll, [Next]_vars, ~overlapped'
               PROVE  NoLostUpdate'
    BY DEF ScopedUpdatesKeepAll
  <1>1. ASSUME NEW p \in Updater, Rename(p)
        PROVE  NoLostUpdate'
    <2>1. copy[p] = doc /\ ~overlapped
      BY <1>1, RenameIsFresh
    <2>2. doc'.fields = [doc.fields EXCEPT ![p] = @ + 1]
      BY <1>1, <2>1, UpdatedType DEF Rename, Reading
    <2>3. doc.fields \in [Process -> Nat] /\ committed \in [Process -> Nat]
      BY DEF ConfigInv, TypeOK, Document
    <2>4. NoLostUpdate
      BY <2>1 DEF ScopedUpdatesKeepAll
    <2> QED
      BY <1>1, <2>2, <2>3, <2>4 DEF NoLostUpdate, Rename, Process
  <1>2. ASSUME NEW s \in Saver, Save(s)
        PROVE  NoLostUpdate'
    <2>1. copy[s] = doc /\ ~overlapped
      BY <1>2 DEF Save, ConfigInv, TypeOK
    <2>2. doc'.fields = [doc.fields EXCEPT ![s] = @ + 1]
      BY <1>2, <2>1, SavedType DEF Save
    <2>3. doc.fields \in [Process -> Nat] /\ committed \in [Process -> Nat]
      BY DEF ConfigInv, TypeOK, Document
    <2>4. NoLostUpdate
      BY <2>1 DEF ScopedUpdatesKeepAll
    <2> QED
      BY <1>2, <2>2, <2>3, <2>4 DEF NoLostUpdate, Save, Process
  <1>3. CASE UNCHANGED <<doc, committed, overlapped>>
    BY <1>3 DEF ScopedUpdatesKeepAll, NoLostUpdate
  <1>4. ASSUME NEW p \in Updater,
               Observe(p) \/ Lock(p) \/ LockHeld(p) \/ Check(p) \/ Refused(p) \/ WriteTemp(p)
               \/ Finish(p) \/ WriteFails(p) \/ Crash(p)
        PROVE  UNCHANGED <<doc, committed, overlapped>>
    BY <1>4 DEF Observe, Lock, LockHeld, Check, Refused, WriteTemp, Finish, WriteFails, Crash
  <1>5. ASSUME NEW s \in Saver, Load(s) \/ SaveTemp(s) \/ SaveFails(s) \/ SaverDies(s)
        PROVE  UNCHANGED <<doc, committed, overlapped>>
    BY <1>5 DEF Load, SaveTemp, SaveFails, SaverDies
  <1>6. CASE UNCHANGED vars
    BY <1>3, <1>6 DEF vars
  <1> QED
    BY <1>1, <1>2, <1>3, <1>4, <1>5, <1>6 DEF Next, Update

\* Scoped updates of any number of processes keep each other's changes, over
\* conflicts, failed writes and crashes; only a save without the lock that
\* overlaps another write loses one.
THEOREM UpdatesKeepAll == Spec => []ScopedUpdatesKeepAll
  <1>1. Init => ScopedUpdatesKeepAll
    BY DEF Init, ScopedUpdatesKeepAll, NoLostUpdate, Process
  <1>2. ConfigInv /\ ScopedUpdatesKeepAll /\ [Next]_vars => ScopedUpdatesKeepAll'
    BY KeepStep
  <1> QED
    BY <1>1, <1>2, ConfigInvariant, PTL DEF Spec

\* The updates' clean-up, failures and crashes leave config.json.tmp alone.
LEMMA UpdatersLeaveTmp ==
  ASSUME NEW p \in Updater, Observe(p) \/ Update(p) \/ WriteFails(p) \/ Crash(p)
  PROVE  tmp' = tmp
  BY DEF Update, Observe, Lock, LockHeld, Check, Refused, WriteTemp, Rename, Finish,
     WriteFails, Crash

\* When a scoped update succeeds no temporary file of an update is left, neither
\* its own nor one of a process that crashed or failed; when a save succeeds no
\* config.json.tmp is left, which nothing but a save removes.
THEOREM SuccessLeavesNoTemps == Spec => WritesLeaveNoTemps
  <1> DEFINE Clean ==
        /\ \A p \in Updater : committed'[p] # committed[p] => orphans' = 0 /\ temps' = {}
        /\ \A s \in Saver : committed'[s] # committed[s] => ~tmp'
        /\ tmp /\ ~tmp' => \E s \in Saver : pc[s] # "idle" /\ pc'[s] = "idle"
  <1>1. ConfigInv /\ [Next]_vars => [Clean]_vars
    <2> SUFFICES ASSUME ConfigInv, Next
                 PROVE  Clean
      OBVIOUS
    <2> USE ConfigAssumption DEF ConfigInv, Process
    <2>1. ASSUME NEW q \in Updater, Rename(q)
          PROVE  Clean
      <3>1. Reading(q) /\ pc[q] \in Critical
        BY <2>1 DEF Rename, Reading, Critical
      <3>2. orphans' = 0
        BY <2>1, <3>1 DEF Rename, TempInv
      <3>3. ASSUME NEW r \in temps
            PROVE  r = q
        <4>1. r \in Updater /\ pc[r] \in Critical
          BY DEF TypeOK, TempInv, Critical
        <4> QED
          BY <3>1, <4>1, Exclusion
      <3>4. temps' = {} /\ tmp' = tmp
        BY <2>1, <3>3 DEF Rename
      <3>5. \A s \in Saver : committed'[s] = committed[s]
        BY <2>1 DEF Rename, TypeOK
      <3> QED
        BY <3>2, <3>4, <3>5
    <2>2. ASSUME NEW s \in Saver, Load(s) \/ SaveTemp(s) \/ Save(s) \/ SaveFails(s) \/ SaverDies(s)
          PROVE  Clean
      <3>1. \A p \in Updater : committed'[p] = committed[p]
        BY <2>2 DEF Load, SaveTemp, Save, SaveFails, SaverDies, TypeOK
      <3>2. \A r \in Saver : committed'[r] # committed[r] => ~tmp'
        BY <2>2 DEF Load, SaveTemp, Save, SaveFails, SaverDies
      <3>3. tmp /\ ~tmp' => pc[s] # "idle" /\ pc'[s] = "idle"
        BY <2>2 DEF Load, SaveTemp, Save, SaveFails, SaverDies, Goto, TypeOK
      <3> QED
        BY <3>1, <3>2, <3>3
    <2>3. ASSUME NEW q \in Updater,
                 Observe(q) \/ Lock(q) \/ LockHeld(q) \/ Check(q) \/ Refused(q) \/ WriteTemp(q)
                 \/ Finish(q) \/ WriteFails(q) \/ Crash(q)
          PROVE  Clean
      <3>1. committed' = committed
        BY <2>3 DEF Observe, Lock, LockHeld, Check, Refused, WriteTemp, Finish, WriteFails, Crash
      <3>2. tmp' = tmp
        BY <2>3, UpdatersLeaveTmp DEF Update
      <3> QED
        BY <3>1, <3>2
    <2> HIDE DEF Clean
    <2> QED
      BY <2>1, <2>2, <2>3 DEF Next, Update
  <1> QED
    BY <1>1, ConfigInvariant, PTL DEF Spec, WritesLeaveNoTemps

-----------------------------------------------------------------------------
(* Refinement of ConfigRegister *)

\* The first document is one a register may start with.
LEMMA RegisterInit == Init => Register!Init
  <1> SUFFICES ASSUME Init PROVE Register!Init
    OBVIOUS
  <1>1. ConfigInv
    BY ConfigInit
  <1>2. doc.state = "versioned" <=> doc.rev > 0
    BY <1>1 DEF ConfigInv, TypeOK
  <1>3. seen = [p \in Updater \cup Saver |-> doc] /\ overlapped = FALSE
    BY DEF Init, Process
  <1> QED
    BY <1>2, <1>3 DEF Register!Init

\* Every step is a look, a compare-and-swap, a save between two updates, an
\* overlap after which nothing is promised, or invisible.
LEMMA RegisterStep == ConfigInv /\ [Next]_vars => [Register!Next]_(Register!vars)
  <1> SUFFICES ASSUME ConfigInv, [Next]_vars
               PROVE  [Register!Next]_(Register!vars)
    OBVIOUS
  <1>1. CASE overlapped' = TRUE
    BY <1>1 DEF Register!Next, Register!Overlap
  <1>2. ASSUME NEW p \in Updater, Observe(p)
        PROVE  Register!Look(p)
    BY <1>2 DEF Observe, Register!Look
  <1>3. ASSUME NEW p \in Updater, Rename(p), ~overlapped'
        PROVE  Register!CompareAndSwap(p)
    <2>1. copy[p] = doc /\ ~overlapped
      BY <1>3, RenameIsFresh
    <2>2. Reading(p)
      BY <1>3 DEF Rename, Reading
    <2>3. seen[p].state = doc.state /\ seen[p].rev = doc.rev /\ doc.rev < MaxRevision
      BY <2>1, <2>2 DEF ConfigInv, CopyInv
    <2>4. doc' = [state |-> "versioned", rev |-> doc.rev + 1,
                  fields |-> [doc.fields EXCEPT ![p] = @ + 1]]
      BY <1>3, <2>1 DEF Rename, Updated
    <2>5. UNCHANGED <<seen, overlapped>>
      BY <1>3, <2>1 DEF Rename, ConfigInv, TypeOK
    <2> QED
      BY <2>3, <2>4, <2>5 DEF Register!CompareAndSwap
  <1>4. ASSUME NEW s \in Saver, Save(s), ~overlapped'
        PROVE  Register!Save(s)
    <2>1. copy[s] = doc /\ ~overlapped
      BY <1>4 DEF Save, ConfigInv, TypeOK
    <2>2. UNCHANGED <<seen, overlapped>>
      BY <1>4, <2>1 DEF Save, ConfigInv, TypeOK
    <2> QED
      BY <1>4, <2>1, <2>2 DEF Save, Register!Save
  <1>5. ASSUME NEW p \in Updater,
               Lock(p) \/ LockHeld(p) \/ Check(p) \/ Refused(p) \/ WriteTemp(p)
               \/ Finish(p) \/ WriteFails(p) \/ Crash(p)
        PROVE  UNCHANGED Register!vars
    BY <1>5 DEF Lock, LockHeld, Check, Refused, WriteTemp, Finish, WriteFails, Crash,
       Register!vars
  <1>6. ASSUME NEW s \in Saver, Load(s) \/ SaveTemp(s) \/ SaveFails(s) \/ SaverDies(s)
        PROVE  UNCHANGED Register!vars
    BY <1>6 DEF Load, SaveTemp, SaveFails, SaverDies, Register!vars
  <1>7. CASE UNCHANGED vars
    BY <1>7 DEF vars, Register!vars
  <1>8. overlapped' = TRUE \/ ~overlapped'
    BY ConfigStep DEF ConfigInv, TypeOK
  <1> QED
    BY <1>1, <1>2, <1>3, <1>4, <1>5, <1>6, <1>7, <1>8 DEF Next, Update, Register!Next

\* config.json with its lock, revisions, temporary files and crashes implements
\* the compare-and-swap register that callers of a scoped update rely on.
THEOREM ConfigFileIsRegister == Spec => ImplementsRegister
  <1>1. Init => Register!Init
    BY RegisterInit
  <1>2. ConfigInv /\ [Next]_vars => [Register!Next]_(Register!vars)
    BY RegisterStep
  <1> QED
    BY <1>1, <1>2, ConfigInvariant, PTL DEF Spec, ImplementsRegister, Register!Spec
=============================================================================
