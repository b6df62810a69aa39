------------------------- MODULE LocalReset_proofs -------------------------
(***************************************************************************)
(* Proofs about LocalReset for any creators, keys and crashes.  The daemon *)
(* lock keeps daemons out; the key lock keeps creators out until the new   *)
(* files are installed, and after that the files themselves do, as long as *)
(* no roll-back removes them.  What a removal that fails leaves behind is  *)
(* told apart by the flags stuck and kept.                                 *)
(***************************************************************************)
EXTENDS LocalReset, TLAPS

-----------------------------------------------------------------------------
(* The inductive invariant *)

\* The files that are there belong to one key pair.
Uniform(t) == \A i, j \in Part : t[i] # 0 /\ t[j] # 0 => t[i] = t[j]

Creating(c) == cpc[c] \in {"generate", "read", "sidecar"}

\* Places of the reset: before it has changed anything, while it holds the
\* key lock for certain, after it has released it or may have.
Outside == {"idle", "waiting", "locked", "keylock"}
Staging == {"generate", "move", "install"}
Undoing == {"remove", "restore", "undone"}

\* Who holds the locks is where it should be, and the loops count from the
\* first file.
LockInv ==
    /\ daemon <=> daemonLock = "daemon"
    /\ rpc \notin {"idle", "waiting"} <=> daemonLock = "reset"
    /\ rpc \in Staging => keyLock = "reset"
    /\ keyLock = "reset" => rpc \in Staging \cup Undoing
    /\ \A c \in Creator : Creating(c) <=> keyLock = c
    /\ rpc \in Outside \cup {"generate", "write", "undone"} => part = 1

\* What is staged and moved aside at each place; only the reset touches it.
ScratchInv ==
    /\ rpc \in Outside /\ ~lost /\ ~kept => temp = None /\ backup = None
    /\ rpc = "generate" => temp = None /\ backup = None
    /\ rpc = "install" => \A i \in Part : i < part => temp[i] = 0
    /\ rpc \in {"write", "commit"} => temp = None
    /\ rpc = "commit" /\ ~kept => \A i \in Part : i < part => backup[i] = 0
    /\ rpc = "restore" /\ ~lost => \A i \in Part : i > part => backup[i] = 0
    /\ rpc = "undone" /\ ~lost => backup = None

\* The files when no creator has run into a roll-back: what a creator has
\* written so far ...
CreatorFiles ==
    \A c \in Creator :
        /\ cpc[c] = "generate" => file = None
        /\ cpc[c] = "read" => file[1] = file[2] /\ file[3] = 0
        /\ cpc[c] = "sidecar" => file[1] = read[c] /\ file[2] = read[c] /\ file[3] = 0

\* ... and how far the reset is.
MoveFiles ==
    rpc = "move" =>
        /\ \A i \in Part : temp[i] = used
        /\ \A i \in Part : i < part => file[i] = 0 /\ backup[i] = before[i]
        /\ \A i \in Part : i >= part => file[i] = before[i] /\ backup[i] = 0

InstallFiles ==
    rpc = "install" =>
        /\ backup = before
        /\ \A i \in Part : i < part => file[i] = used
        /\ \A i \in Part : i >= part => file[i] = 0 /\ temp[i] = used

WriteFiles ==
    /\ rpc \in {"write", "commit"} => \A i \in Part : file[i] = used
    /\ rpc = "write" => backup = before

RemoveFiles ==
    rpc = "remove" =>
        /\ backup = before
        /\ \A i \in Part : file[i] \in {0, used}
        /\ ~stuck => \A i \in Part : i < part => file[i] = 0

\* A file that there was is aside or back; with nothing stuck there is no other.
RestoreFiles ==
    rpc = "restore" =>
        /\ \A i \in Part : backup[i] \in {0, before[i]}
        /\ \A i \in Part : i <= part => backup[i] = before[i] \/ file[i] = before[i]
        /\ ~lost => \A i \in Part : i > part => file[i] = before[i] \/ (before[i] = 0 /\ stuck)
        /\ ~stuck => \A i \in Part : file[i] \in {0, before[i]}
        /\ ~stuck => \A i \in Part : i <= part /\ before[i] # 0 =>
              (file[i] = 0 /\ backup[i] = before[i]) \/ (file[i] = before[i] /\ backup[i] = 0)

DoneFiles ==
    /\ rpc = "generate" => file = before
    /\ rpc = "undone" /\ ~lost =>
          \A i \in Part : file[i] = before[i] \/ (before[i] = 0 /\ stuck)

\* With nothing stuck, the files that are there or were found are of one pair.
PairInv ==
    ~stuck =>
        /\ Uniform(file)
        /\ rpc \in Staging \cup {"write"} \cup Undoing => Uniform(before)

FileInv ==
    ~raced =>
        /\ PairInv
        /\ rpc \in {"write", "commit"} \cup Undoing => keyLock \notin Creator
        /\ rpc \in {"move", "install", "write", "commit", "remove"} => used # 0
        /\ CreatorFiles
        /\ MoveFiles /\ InstallFiles /\ WriteFiles /\ RemoveFiles /\ RestoreFiles
        /\ DoneFiles

ResetInv == TypeOK /\ LockInv /\ ScratchInv /\ FileInv

\* The first reset finds no key or a whole one.
LEMMA ResetInit == Init => ResetInv
  <1> SUFFICES ASSUME Init PROVE ResetInv
    OBVIOUS
  <1> USE LocalResetAssumption
  <1>1. file \in Trio /\ temp \in Trio /\ backup \in Trio /\ before \in Trio
    BY DEF Init, None, Pair, Trio, Part
  <1>2. shared \in 0 .. MaxKey /\ used \in 0 .. MaxKey /\ part \in Part
    BY <1>1 DEF Init, Trio, Part
  <1>3. /\ daemon \in BOOLEAN /\ lost \in BOOLEAN /\ raced \in BOOLEAN
        /\ stuck \in BOOLEAN /\ kept \in BOOLEAN
    BY DEF Init
  <1>4. TypeOK
    BY <1>1, <1>2, <1>3 DEF Init, TypeOK
  <1>5. LockInv
    BY DEF Init, LockInv, Creating, Staging, Outside, Undoing
  <1>6. ScratchInv
    BY DEF Init, ScratchInv
  <1>7. FileInv
    BY DEF Init, FileInv, PairInv, Uniform, None, Pair, CreatorFiles, MoveFiles, InstallFiles,
           WriteFiles, RemoveFiles, RestoreFiles, DoneFiles, Undoing, Staging
  <1> QED
    BY <1>4, <1>5, <1>6, <1>7 DEF ResetInv

-----------------------------------------------------------------------------
(* Types *)

\* TypeOK in three parts: the files, the processes and the flags.
FileTypes ==
    /\ file \in Trio /\ temp \in Trio /\ backup \in Trio /\ before \in Trio
    /\ shared \in 0 .. MaxKey /\ used \in 0 .. MaxKey /\ part \in Part

ProcessTypes ==
    /\ rpc \in {"idle", "waiting", "locked", "keylock", "generate", "move", "install",
                "write", "commit", "remove", "restore", "undone"}
    /\ keyLock \in Creator \cup {NoOne, "reset"}
    /\ daemonLock \in {NoOne, "reset", "daemon"}
    /\ cpc \in [Creator -> {"idle", "lock", "generate", "read", "sidecar"}]
    /\ read \in [Creator -> 0 .. MaxKey]
    /\ crashes \in 0 .. MaxCrash

FlagTypes ==
    /\ daemon \in BOOLEAN /\ lost \in BOOLEAN /\ raced \in BOOLEAN
    /\ stuck \in BOOLEAN /\ kept \in BOOLEAN

\* The trios the actions assign and read, and where the loops go.
LEMMA TrioTypes ==
  /\ None \in Trio
  /\ \A n \in 0 .. MaxKey : Pair(n) \in Trio
  /\ \A t \in Trio, i \in Part, n \in 0 .. MaxKey : [t EXCEPT ![i] = n] \in Trio
  /\ \A t \in Trio, i \in Part : t[i] \in 0 .. MaxKey
  /\ 0 \in 0 .. MaxKey /\ (used \in 0 .. MaxKey /\ used < MaxKey => used + 1 \in 0 .. MaxKey)
  BY LocalResetAssumption DEF None, Pair, Trio

\* What is left of files that are removed as far as possible.
LEMMA LeftTypes ==
  ASSUME NEW t \in Trio, NEW u \in Left(t)
  PROVE  u \in Trio /\ \A i \in Part : u[i] \in {0, t[i]}
  <1>1. PICK stay \in SUBSET Part : u = [i \in Part |-> IF i \in stay THEN t[i] ELSE 0]
    BY DEF Left
  <1>2. \A i \in Part : u[i] \in 0 .. MaxKey /\ u[i] \in {0, t[i]}
    BY <1>1, TrioTypes
  <1> QED
    BY <1>1, <1>2 DEF Trio

\* Moving and restoring step through the three files within their numbers.
LEMMA PartTypes ==
  /\ 1 \in Part /\ 2 \in Part /\ 3 \in Part
  /\ \A i \in Part : (i < 3 => i + 1 \in Part) /\ (i > 1 => i - 1 \in Part)
  BY DEF Part

\* The reset's steps keep the files' types.
LEMMA FileTypesReset ==
  ASSUME FileTypes, Begin \/ ResetStep \/ Crash
  PROVE  FileTypes'
  <1> USE TrioTypes, PartTypes DEF FileTypes
  <1>1. CASE Begin
    BY <1>1 DEF Begin
  <1>2. CASE TakeDaemonLock
    BY <1>2 DEF TakeDaemonLock
  <1>3. CASE Timeout
    BY <1>3 DEF Timeout
  <1>4. CASE Refuse
    BY <1>4 DEF Refuse
  <1>5. CASE Admit
    BY <1>5 DEF Admit
  <1>6. CASE StageLock
    BY <1>6 DEF StageLock
  <1>7. CASE Generate
    BY <1>7 DEF Generate
  <1>8. CASE GenerateFails
    <2>1. used' \in 0 .. MaxKey /\ temp' \in Trio
      BY <1>8, LeftTypes DEF GenerateFails
    <2> QED
      BY <1>8, <2>1 DEF GenerateFails
  <1>9. CASE Move
    BY <1>9 DEF Move, Loop
  <1>10. CASE MoveFails
    BY <1>10 DEF MoveFails, RestoreFirst
  <1>11. CASE Install
    BY <1>11 DEF Install, Loop
  <1>12. CASE InstallFails
    BY <1>12 DEF InstallFails
  <1>13. CASE WriteConfig
    BY <1>13 DEF WriteConfig
  <1>14. ASSUME NEW renamed \in BOOLEAN, WriteFails(renamed) PROVE FileTypes'
    BY <1>14 DEF WriteFails
  <1>15. CASE Commit
    BY <1>15 DEF Commit, Loop, ForgetOne
  <1>16. CASE Remove
    BY <1>16 DEF Remove, RemoveOne, RestoreFirst
  <1>17. ASSUME NEW moved \in BOOLEAN, Restore(moved) PROVE FileTypes'
    <2>1. PICK inPlace \in {0, file[part]} :
             file' = IF backup[part] = 0 THEN file
                     ELSE [file EXCEPT ![part] = IF moved THEN backup[part] ELSE inPlace]
      BY <1>17 DEF Restore
    <2>2. file' \in Trio
      BY <2>1
    <2> QED
      BY <1>17, <2>2 DEF Restore
  <1>18. CASE ReturnFailed
    BY <1>18, LeftTypes DEF ReturnFailed
  <1>19. CASE Crash
    BY <1>19 DEF Crash
  <1>20. CASE StageFails
    BY <1>20, LeftTypes DEF StageFails
  <1> QED
    BY <1>1, <1>2, <1>3, <1>4, <1>5, <1>6, <1>7, <1>8, <1>9, <1>10, <1>11, <1>12, <1>13, <1>14,
       <1>15, <1>16, <1>17, <1>18, <1>19, <1>20 DEF ResetStep

\* The reset's steps keep the processes' types, and the flags.
LEMMA ProcessTypesReset ==
  ASSUME ProcessTypes, FlagTypes, Begin \/ ResetStep \/ Crash
  PROVE  ProcessTypes' /\ FlagTypes'
  <1> USE LocalResetAssumption DEF lockVars, creatorVars, Loop
  <1>1. CASE Begin \/ TakeDaemonLock \/ Timeout \/ Refuse \/ Admit
    <2>1. ProcessTypes'
      BY <1>1 DEF ProcessTypes, Begin, TakeDaemonLock, Timeout, Refuse, Admit
    <2>2. FlagTypes'
      BY <1>1 DEF FlagTypes, Begin, TakeDaemonLock, Timeout, Refuse, Admit
    <2> QED
      BY <2>1, <2>2
  <1>2. CASE StageLock \/ StageFails \/ Generate \/ GenerateFails \/ Move \/ MoveFails
    <2>1. ProcessTypes'
      BY <1>2 DEF ProcessTypes, StageLock, StageFails, Generate, GenerateFails, Move, MoveFails
    <2>2. FlagTypes'
      BY <1>2 DEF FlagTypes, StageLock, StageFails, Generate, GenerateFails, Move, MoveFails
    <2> QED
      BY <2>1, <2>2
  <1>3. CASE Install \/ InstallFails \/ WriteConfig \/ \E r \in BOOLEAN : WriteFails(r)
    <2>1. ProcessTypes'
      BY <1>3 DEF ProcessTypes, Install, InstallFails, WriteConfig, WriteFails
    <2>2. FlagTypes'
      BY <1>3 DEF FlagTypes, Install, InstallFails, WriteConfig, WriteFails
    <2> QED
      BY <2>1, <2>2
  <1>4. CASE Commit \/ Remove \/ ReturnFailed \/ Crash
    <2>1. ProcessTypes'
      BY <1>4 DEF ProcessTypes, Commit, Remove, ReturnFailed, Crash
    <2>2. FlagTypes'
      BY <1>4 DEF FlagTypes, Commit, Remove, ReturnFailed, Crash
    <2> QED
      BY <2>1, <2>2
  <1>5. CASE \E moved \in BOOLEAN : Restore(moved)
    <2>1. ProcessTypes'
      BY <1>5 DEF ProcessTypes, Restore
    <2>2. FlagTypes'
      BY <1>5 DEF FlagTypes, Restore
    <2> QED
      BY <2>1, <2>2
  <1> QED
    BY <1>1, <1>2, <1>3, <1>4, <1>5 DEF ResetStep

\* So do creators and the daemon.
LEMMA TypesOthers ==
  ASSUME FileTypes, ProcessTypes, FlagTypes,
         \/ \E c \in Creator : WantCreate(c) \/ CreatorStep(c) \/ CreatorCrash(c)
         \/ DaemonStart \/ DaemonStop
  PROVE  FileTypes' /\ ProcessTypes' /\ FlagTypes'
  <1> USE LocalResetAssumption, TrioTypes, PartTypes
          DEF lockVars, creatorVars, resetVars
  <1>1. ASSUME NEW c \in Creator, WantCreate(c) \/ CreatorStep(c) \/ CreatorCrash(c)
        PROVE  FileTypes' /\ ProcessTypes' /\ FlagTypes'
    <2>1. FileTypes' /\ ProcessTypes'
      <3> USE DEF FileTypes, ProcessTypes
      <3>1. CASE WantCreate(c)
        BY <3>1 DEF WantCreate
      <3>2. CASE CreateLock(c)
        BY <3>2 DEF CreateLock
      <3>3. CASE CreateGenerate(c)
        BY <3>3 DEF CreateGenerate
      <3>4. CASE CreateRead(c)
        BY <3>4 DEF CreateRead
      <3>5. CASE CreateSidecar(c)
        BY <3>5 DEF CreateSidecar
      <3>6. CASE CreateFails(c)
        BY <3>6, LeftTypes DEF CreateFails
      <3>7. CASE CreatorCrash(c)
        BY <3>7 DEF CreatorCrash
      <3> QED
        BY <1>1, <3>1, <3>2, <3>3, <3>4, <3>5, <3>6, <3>7 DEF CreatorStep
    <2>3. FlagTypes'
      BY <1>1 DEF FlagTypes, WantCreate, CreatorStep, CreateLock, CreateGenerate, CreateRead,
                  CreateSidecar, CreateFails, CreatorCrash
    <2> QED
      BY <2>1, <2>3
  <1>2. CASE DaemonStart \/ DaemonStop
    <2>1. FileTypes' /\ ProcessTypes'
      BY <1>2 DEF FileTypes, ProcessTypes, DaemonStart, DaemonStop
    <2>2. FlagTypes'
      BY <1>2 DEF FlagTypes, DaemonStart, DaemonStop
    <2> QED
      BY <2>1, <2>2
  <1> QED
    BY <1>1, <1>2

\* Every step keeps the types.
LEMMA TypeStep == TypeOK /\ [Next]_vars => TypeOK'
  <1> SUFFICES ASSUME TypeOK, [Next]_vars PROVE TypeOK'
    OBVIOUS
  <1>1. TypeOK <=> FileTypes /\ ProcessTypes /\ FlagTypes
    BY DEF TypeOK, FileTypes, ProcessTypes, FlagTypes
  <1>2. TypeOK' <=> FileTypes' /\ ProcessTypes' /\ FlagTypes'
    BY DEF TypeOK, FileTypes, ProcessTypes, FlagTypes
  <1>3. CASE Begin \/ ResetStep \/ Crash
    BY <1>1, <1>2, <1>3, FileTypesReset, ProcessTypesReset
  <1>4. CASE UNCHANGED vars
    BY <1>4 DEF TypeOK, vars
  <1> QED
    BY <1>1, <1>2, <1>3, <1>4, TypesOthers DEF Next
-----------------------------------------------------------------------------
(* Locks *)

\* Whoever enters has taken its lock, whoever leaves gives it up.
LEMMA LockStep == TypeOK /\ LockInv /\ [Next]_vars => LockInv'
  <1> SUFFICES ASSUME TypeOK, LockInv, [Next]_vars PROVE LockInv'
    OBVIOUS
  <1> USE LocalResetAssumption DEF TypeOK, LockInv, Creating, Staging, Undoing, Outside,
          lockVars, creatorVars, resetVars
  <1>1. CASE Begin
    BY <1>1 DEF Begin
  <1>2. CASE TakeDaemonLock
    BY <1>2 DEF TakeDaemonLock, DaemonLockFree
  <1>3. CASE Timeout
    BY <1>3 DEF Timeout
  <1>4. CASE Refuse
    BY <1>4 DEF Refuse
  <1>5. CASE Admit
    BY <1>5 DEF Admit
  <1>6. CASE StageLock
    BY <1>6 DEF StageLock
  <1>7. CASE Generate
    BY <1>7 DEF Generate
  <1>8. CASE GenerateFails
    BY <1>8 DEF GenerateFails
  <1>9. CASE Move
    BY <1>9 DEF Move, Loop, Part
  <1>10. CASE MoveFails
    BY <1>10 DEF MoveFails, RestoreFirst
  <1>11. CASE Install
    BY <1>11 DEF Install, Loop, Part
  <1>12. CASE InstallFails
    BY <1>12 DEF InstallFails
  <1>13. CASE WriteConfig
    BY <1>13 DEF WriteConfig
  <1>14. CASE \E renamed \in BOOLEAN : WriteFails(renamed)
    BY <1>14 DEF WriteFails
  <1>15. CASE Commit
    BY <1>15 DEF Commit, Loop, ForgetOne, Part
  <1>16. CASE Remove
    BY <1>16 DEF Remove, RemoveOne, RestoreFirst, Part
  <1>17. CASE \E moved \in BOOLEAN : Restore(moved)
    BY <1>17 DEF Restore
  <1>18. CASE ReturnFailed
    BY <1>18 DEF ReturnFailed
  <1>19. CASE Crash
    BY <1>19 DEF Crash
  <1>20. ASSUME NEW c \in Creator, WantCreate(c) \/ CreatorStep(c) \/ CreatorCrash(c)
        PROVE  LockInv'
    <2>1. CASE WantCreate(c)
      BY <2>1 DEF WantCreate
    <2>2. CASE CreateLock(c)
      BY <2>2 DEF CreateLock
    <2>3. CASE CreateGenerate(c)
      BY <2>3 DEF CreateGenerate
    <2>4. CASE CreateRead(c)
      BY <2>4 DEF CreateRead
    <2>5. CASE CreateSidecar(c)
      BY <2>5 DEF CreateSidecar
    <2>6. CASE CreateFails(c)
      BY <2>6 DEF CreateFails
    <2>7. CASE CreatorCrash(c)
      BY <2>7 DEF CreatorCrash
    <2> QED
      BY <1>20, <2>1, <2>2, <2>3, <2>4, <2>5, <2>6, <2>7 DEF CreatorStep
  <1>21. CASE DaemonStart
    BY <1>21 DEF DaemonStart
  <1>22. CASE DaemonStop
    BY <1>22 DEF DaemonStop
  <1>23. CASE UNCHANGED vars
    BY <1>23 DEF vars
  <1>24. CASE StageFails
    BY <1>24 DEF StageFails
  <1> QED
    BY <1>1, <1>2, <1>3, <1>4, <1>5, <1>6, <1>7, <1>8, <1>9, <1>10, <1>11, <1>12, <1>13, <1>14,
       <1>15, <1>16, <1>17, <1>18, <1>19, <1>20, <1>21, <1>22, <1>23, <1>24
    DEF Next, ResetStep

-----------------------------------------------------------------------------
(* Scratch files *)

\* Only the reset touches what it has staged and moved aside.
LEMMA ScratchStep == TypeOK /\ LockInv /\ ScratchInv /\ [Next]_vars => ScratchInv'
  <1> SUFFICES ASSUME TypeOK, LockInv, ScratchInv, [Next]_vars PROVE ScratchInv'
    OBVIOUS
  <1> USE DEF TypeOK, ScratchInv, None, Trio, Part, Staging, Undoing, Outside,
          lockVars, creatorVars, resetVars
  <1>0. temp' \in Trio /\ backup' \in Trio
    BY TypeStep
  <1>1. CASE Begin
    BY <1>1 DEF Begin
  <1>2. CASE TakeDaemonLock
    BY <1>2 DEF TakeDaemonLock, DaemonLockFree
  <1>3. CASE Timeout
    BY <1>3 DEF Timeout
  <1>4. CASE Refuse
    BY <1>4 DEF Refuse
  <1>5. CASE Admit
    BY <1>5 DEF Admit
  <1>6. CASE StageLock
    BY <1>6 DEF StageLock
  <1>7. CASE Generate
    BY <1>7 DEF Generate, LockInv
  <1>8. CASE GenerateFails
    BY <1>8 DEF GenerateFails, LockInv
  <1>9. CASE Move
    BY <1>9 DEF Move, Loop
  <1>10. CASE MoveFails
    BY <1>10 DEF MoveFails, RestoreFirst
  <1>11. CASE Install
    <2>1. CASE part < 3
      BY <1>11, <2>1 DEF Install, Loop
    <2>2. CASE part = 3
      <3>1. \A i \in Part : temp'[i] = 0
        BY <1>11, <2>2 DEF Install
      <3>2. temp' = None
        BY <1>0, <3>1
      <3> QED
        BY <1>11, <2>2, <3>2 DEF Install, Loop
    <2> QED
      BY <2>1, <2>2
  <1>12. CASE InstallFails
    BY <1>12 DEF InstallFails
  <1>13. CASE WriteConfig
    BY <1>13 DEF WriteConfig, LockInv
  <1>14. CASE \E renamed \in BOOLEAN : WriteFails(renamed)
    BY <1>14 DEF WriteFails
  <1>15. CASE Commit
    <2>1. CASE part < 3
      BY <1>15, <2>1 DEF Commit, Loop, ForgetOne
    <2>2. CASE part = 3
      <3>1. ~kept' => \A i \in Part : backup'[i] = 0
        BY <1>15, <2>2 DEF Commit, ForgetOne
      <3>2. ~kept' => backup' = None
        BY <1>0, <3>1
      <3> QED
        BY <1>15, <2>2, <3>2 DEF Commit, Loop
    <2> QED
      BY <2>1, <2>2
  <1>16. CASE Remove
    BY <1>16 DEF Remove, RemoveOne, RestoreFirst
  <1>17. ASSUME NEW moved \in BOOLEAN, Restore(moved)
         PROVE  ScratchInv'
    <2>0. ~lost' => ~lost /\ moved
      BY <1>17 DEF Restore
    <2>1. CASE part > 1
      BY <1>17, <2>0, <2>1 DEF Restore
    <2>2. CASE part = 1
      <3>1. ~lost' => \A i \in Part : backup'[i] = 0
        BY <1>17, <2>0, <2>2 DEF Restore
      <3>2. ~lost' => backup' = None
        BY <1>0, <3>1
      <3> QED
        BY <1>17, <2>2, <3>2 DEF Restore
    <2> QED
      BY <2>1, <2>2
  <1>18. CASE ReturnFailed
    BY <1>18 DEF ReturnFailed, LockInv
  <1>19. CASE Crash
    BY <1>19 DEF Crash
  <1>20. ASSUME NEW c \in Creator, WantCreate(c) \/ CreatorStep(c) \/ CreatorCrash(c)
        PROVE  ScratchInv'
    BY <1>20 DEF CreatorStep, WantCreate, CreateLock, CreateGenerate, CreateRead,
       CreateSidecar, CreateFails, CreatorCrash
  <1>21. CASE DaemonStart \/ DaemonStop
    BY <1>21 DEF DaemonStart, DaemonStop
  <1>22. CASE UNCHANGED vars
    BY <1>22 DEF vars
  <1>23. CASE StageFails
    <2>1. temp = None /\ backup = None => temp' = None /\ backup' = None
      <3>1. /\ \A i \in Part : temp'[i] \in {0, temp[i]}
            /\ \A i \in Part : backup'[i] \in {0, backup[i]}
        BY <1>23, LeftTypes DEF StageFails
      <3> QED
        BY <1>0, <3>1
    <2> QED
      BY <1>23, <2>1 DEF StageFails
  <1> QED
    BY <1>1, <1>2, <1>3, <1>4, <1>5, <1>6, <1>7, <1>8, <1>9, <1>10, <1>11, <1>12, <1>13, <1>14,
       <1>15, <1>16, <1>17, <1>18, <1>19, <1>20, <1>21, <1>22, <1>23
    DEF Next, ResetStep

-----------------------------------------------------------------------------
(* The files *)

\* While the reset is at work and no creator has run into a roll-back, no
\* creator creates.
LEMMA CreatorsOut ==
  ASSUME TypeOK, LockInv, FileInv, ~raced, rpc \notin Outside, NEW c \in Creator
  PROVE  ~Creating(c)
  <1>1. rpc \in Staging \cup {"write", "commit"} \cup Undoing
    BY DEF TypeOK, Outside, Staging, Undoing
  <1>2. keyLock # c
    BY <1>1, LocalResetAssumption DEF LockInv, FileInv
  <1> QED
    BY <1>2 DEF LockInv

\* The steps of the reset, one place after the other.
LEMMA FileReset ==
  ASSUME TypeOK, LockInv, ScratchInv, FileInv, ~raced, Begin \/ ResetStep \/ Crash
  PROVE  FileInv'
  <1> USE LocalResetAssumption
          DEF FileInv, PairInv, Uniform, MoveFiles, InstallFiles, WriteFiles, RemoveFiles, RestoreFiles,
              DoneFiles, CreatorFiles, Creating, TypeOK, Trio, Part, None, Pair, Outside,
              Staging, Undoing, lockVars, creatorVars
  <1>0. file' \in Trio /\ backup' \in Trio
    BY TypeStep DEF Next
  <1>1. CASE Begin
    BY <1>1 DEF Begin
  <1>2. CASE TakeDaemonLock
    BY <1>2 DEF TakeDaemonLock, DaemonLockFree
  <1>3. CASE Timeout
    BY <1>3 DEF Timeout
  <1>4. CASE Refuse
    BY <1>4 DEF Refuse
  <1>5. CASE Admit
    BY <1>5 DEF Admit
  <1>6. CASE StageLock
    BY <1>6, CreatorsOut DEF StageLock, LockInv, ScratchInv
  <1>20. CASE StageFails
    BY <1>20 DEF StageFails
  <1>7. CASE Generate
    BY <1>7, CreatorsOut DEF Generate, LockInv, ScratchInv
  <1>8. CASE GenerateFails
    BY <1>8, CreatorsOut DEF GenerateFails, LockInv
  <1>9. CASE Move
    <2>1. CASE part < 3
      BY <1>9, <2>1, CreatorsOut DEF Move, LockInv, Loop
    <2>2. CASE part = 3
      <3>1. \A i \in Part : backup'[i] = before[i]
        BY <1>9, <2>2 DEF Move
      <3>2. backup' = before
        BY <1>0, <3>1
      <3> QED
        BY <1>9, <2>2, <3>2, CreatorsOut DEF Move, LockInv, Loop
    <2> QED
      BY <2>1, <2>2
  <1>10. CASE MoveFails
    BY <1>10, CreatorsOut DEF MoveFails, LockInv, RestoreFirst
  <1>11. CASE Install
    BY <1>11, CreatorsOut DEF Install, Loop
  <1>12. CASE InstallFails
    BY <1>12, CreatorsOut DEF InstallFails, LockInv
  <1>13. CASE WriteConfig
    BY <1>13, CreatorsOut DEF WriteConfig, LockInv, ScratchInv
  <1>14. CASE \E renamed \in BOOLEAN : WriteFails(renamed)
    BY <1>14, CreatorsOut DEF WriteFails, LockInv, ScratchInv
  <1>15. CASE Commit
    BY <1>15, CreatorsOut DEF Commit, LockInv, ScratchInv, Loop, ForgetOne
  <1>16. CASE Remove
    <2>1. /\ \A i \in Part : file'[i] \in {0, used}
          /\ ~stuck' => ~stuck /\ \A i \in Part : i <= part => file'[i] = 0
      BY <1>16 DEF Remove, RemoveOne
    <2>2. CASE part < 3
      BY <1>16, <2>1, <2>2, CreatorsOut DEF Remove
    <2>3. CASE part = 3
      BY <1>16, <2>1, <2>3, CreatorsOut DEF Remove, RestoreFirst
    <2> QED
      BY <2>2, <2>3
  <1>17. ASSUME NEW moved \in BOOLEAN, Restore(moved)
         PROVE  FileInv'
    <2>1. ~lost' => ~lost /\ moved
      BY <1>17 DEF Restore
    <2>2. PICK inPlace \in {0, file[part]} :
             file' = IF backup[part] = 0 THEN file
                     ELSE [file EXCEPT ![part] = IF moved THEN backup[part] ELSE inPlace]
      BY <1>17 DEF Restore
    <2>3. backup' = (IF moved THEN [backup EXCEPT ![part] = 0] ELSE backup) /\ stuck' = stuck
      BY <1>17 DEF Restore
    <2>4. /\ \A i \in Part : backup'[i] \in {0, before[i]}
          /\ \A i \in Part : i < part => backup'[i] = before[i] \/ file'[i] = before[i]
          /\ ~lost' => \A i \in Part : i >= part => file'[i] = before[i] \/ (before[i] = 0 /\ stuck)
      BY <1>17, <2>1, <2>2, <2>3 DEF Restore
    <2>5. ~stuck => \A i \in Part : file'[i] \in {0, before[i]}
      BY <1>17, <2>2 DEF Restore
    <2>6. ~stuck => \A i \in Part : i < part /\ before[i] # 0 =>
                       \/ file'[i] = 0 /\ backup'[i] = before[i]
                       \/ file'[i] = before[i] /\ backup'[i] = 0
      BY <1>17, <2>2, <2>3 DEF Restore
    <2>7. PairInv'
      BY <1>17, <2>5 DEF Restore
    <2>8. CASE part > 1
      BY <1>17, <2>3, <2>4, <2>5, <2>6, <2>7, <2>8, CreatorsOut DEF Restore
    <2>9. CASE part = 1
      BY <1>17, <2>3, <2>4, <2>7, <2>9, CreatorsOut DEF Restore
    <2> QED
      BY <2>8, <2>9
  <1>18. CASE ReturnFailed
    BY <1>18, CreatorsOut DEF ReturnFailed
  <1>19. CASE Crash
    BY <1>19, CreatorsOut DEF Crash
  <1> HIDE DEF FileInv, PairInv, Uniform, MoveFiles, InstallFiles, WriteFiles, RemoveFiles, RestoreFiles,
               DoneFiles, CreatorFiles, Creating, TypeOK, Trio, Part, None, Pair, Outside,
               Staging, Undoing, lockVars, creatorVars
  <1> QED
    BY <1>1, <1>2, <1>3, <1>4, <1>5, <1>6, <1>7, <1>8, <1>9, <1>10,
       <1>11, <1>12, <1>13, <1>14, <1>15, <1>16, <1>17, <1>18, <1>19, <1>20
    DEF ResetStep

\* A creator starts from no file at all; into a roll-back it does not get
\* unnoticed.
LEMMA FileCreator ==
  ASSUME TypeOK, LockInv, FileInv, ~raced', NEW c \in Creator,
         WantCreate(c) \/ CreatorStep(c) \/ CreatorCrash(c)
  PROVE  FileInv'
  <1> USE LocalResetAssumption
          DEF FileInv, PairInv, Uniform, MoveFiles, InstallFiles, WriteFiles, RemoveFiles, RestoreFiles,
              DoneFiles, CreatorFiles, Creating, TypeOK, Trio, Part, None, Pair, Outside,
              Staging, Undoing, lockVars, resetVars
  <1>1. CASE WantCreate(c)
    BY <1>1, CreatorsOut DEF WantCreate, LockInv
  <1>2. CASE CreateLock(c)
    <2>1. CASE file = None
      <3>1. ~raced /\ ~RollingBack
        BY <1>2, <2>1 DEF CreateLock
      <3>2. rpc \notin {"write", "commit"}
        BY <2>1, <3>1
      <3>3. rpc \notin Undoing
        BY <1>2, <3>1 DEF CreateLock, RollingBack
      <3> QED
        BY <1>2, <2>1, <3>1, <3>2, <3>3 DEF CreateLock, LockInv
    <2>2. CASE file # None
      BY <1>2, <2>2 DEF CreateLock
    <2> QED
      BY <2>1, <2>2
  <1>3. CASE CreateGenerate(c)
    BY <1>3, CreatorsOut DEF CreateGenerate, RollingBack, LockInv
  <1>4. CASE CreateRead(c)
    BY <1>4, CreatorsOut DEF CreateRead, LockInv
  <1>5. CASE CreateSidecar(c)
    BY <1>5, CreatorsOut DEF CreateSidecar, LockInv
  <1>6. CASE CreateFails(c)
    BY <1>6, CreatorsOut, LeftTypes DEF CreateFails, LockInv
  <1>7. CASE CreatorCrash(c)
    BY <1>7, CreatorsOut DEF CreatorCrash, LockInv
  <1> QED
    BY <1>1, <1>2, <1>3, <1>4, <1>5, <1>6, <1>7 DEF CreatorStep

\* Every step keeps the whole invariant.
LEMMA ResetInvStep == ResetInv /\ [Next]_vars => ResetInv'
  <1> SUFFICES ASSUME ResetInv, [Next]_vars PROVE ResetInv'
    OBVIOUS
  <1> USE DEF ResetInv
  <1>1. TypeOK' /\ LockInv' /\ ScratchInv'
    BY TypeStep, LockStep, ScratchStep
  <1>2. FileInv'
    <2>1. CASE Begin \/ ResetStep \/ Crash
      <3>1. raced' = raced
        BY <2>1 DEF Begin, ResetStep, Crash, TakeDaemonLock, Timeout, Refuse, Admit, StageLock, StageFails,
             Generate, GenerateFails, Move, MoveFails, Install, InstallFails, WriteConfig,
             WriteFails, Commit, Remove, Restore, ReturnFailed
      <3> QED
        BY <2>1, <3>1, FileReset DEF FileInv
    <2>2. ASSUME NEW c \in Creator, WantCreate(c) \/ CreatorStep(c) \/ CreatorCrash(c)
          PROVE  FileInv'
      BY <2>2, FileCreator DEF FileInv
    <2>3. CASE DaemonStart \/ DaemonStop \/ UNCHANGED vars
      BY <2>3 DEF DaemonStart, DaemonStop, vars, resetVars, creatorVars, FileInv, PairInv, Uniform,
           CreatorFiles, MoveFiles, InstallFiles, WriteFiles, RemoveFiles, RestoreFiles,
           DoneFiles
    <2> QED
      BY <2>1, <2>2, <2>3 DEF Next
  <1> QED
    BY <1>1, <1>2

\* The invariant is one of the specification.
LEMMA ResetInvariant == Spec => []ResetInv
  BY ResetInit, ResetInvStep, PTL DEF Spec

-----------------------------------------------------------------------------
(* What it shows *)

\* The reset, its creators and the daemon stay within their types.
THEOREM TypeCorrect == Spec => []TypeOK
  BY ResetInvariant, PTL DEF ResetInv

\* No daemon runs from the moment OfflineLocalFleetReset has the daemon lock
\* until it returns or crashes: both own the same flock.
THEOREM NoDaemonMeanwhile == Spec => []ResetRunsAlone
  <1>1. ResetInv => ResetRunsAlone
    BY LocalResetAssumption DEF ResetInv, LockInv, ResetRunsAlone
  <1> QED
    BY <1>1, ResetInvariant, PTL

\* A reset that returns leaves neither a staged nor a moved key behind, unless
\* it crashed, could not move a file back, or could not remove one; and the next
\* reset that gets past its clean-up starts with neither.
THEOREM NothingLeftBehind == Spec => []NoScratchLeft
  <1>1. ResetInv => NoScratchLeft
    BY DEF ResetInv, ScratchInv, NoScratchLeft, Outside
  <1> QED
    BY <1>1, ResetInvariant, PTL

\* A reset that fails at any step puts back every file it has found, also over
\* one it could not remove, and adds none that it could remove.
THEOREM RollBackIsExact == Spec => []FailureRestoresKey
  <1>1. ResetInv => FailureRestoresKey
    BY DEF ResetInv, FileInv, DoneFiles, FailureRestoresKey
  <1> QED
    BY <1>1, ResetInvariant, PTL

\* A sync key that LoadLocalSyncKey accepts is one pair, whatever crashed, was
\* rolled back or could not be moved back before, if no creator ran into a
\* roll-back and none since the last successful reset has left a file that it
\* could not remove.
THEOREM LoadedKeyIsWhole == Spec => []KeyIsWhole
  <1>1. ResetInv => KeyIsWhole
    BY DEF ResetInv, FileInv, PairInv, Uniform, KeyIsWhole, Loads, Part
  <1> QED
    BY <1>1, ResetInvariant, PTL
==============================================================================
