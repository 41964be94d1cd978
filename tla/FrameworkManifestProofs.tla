----------------------- MODULE FrameworkManifestProofs -----------------------
(***************************************************************************)
(* Proofs about FrameworkManifest, for every set of processes, projects,   *)
(* manifests and build-sets, and any number of failures and kills.         *)
(***************************************************************************)
EXTENDS FrameworkManifest, TLAPS

-----------------------------------------------------------------------------
(* Types. *)

\* The text operators map texts to texts.
LEMMA TextTypes ==
    ASSUME NEW pr \in Process, NEW f \in Manifest, NEW text \in Text,
           proj \in [Process -> Project]
    PROVE  /\ AddTables(proj[pr], text) \in Text
           /\ RewritePaths(pr, text) \in Text
           /\ Rewritten(pr, f, text) \in Text
<1>1. FrameworkOf(pr) \in Text
  BY ConstantsAssumption DEF FrameworkOf, Text, Framework
<1>2. RewritePaths(pr, text) \in Text
  BY <1>1 DEF RewritePaths
<1>3. \A t \in Text : AddTables(proj[pr], t) \in Text
  BY DEF AddTables, Text
<1>4. QED
  BY <1>2, <1>3 DEF Rewritten

\* What is written over a captured manifest is a text.
LEMMA OverlayType ==
    ASSUME TypeOK, NEW pr \in Process, NEW f \in Captured(pr)
    PROVE  f \in Manifest /\ orig[pr][f] \in Text /\ Overlay(pr, f) \in Text
<1>1. f \in Manifest /\ orig[pr][f] \in Text
  BY DEF TypeOK, Captured
<1>2. QED
  BY <1>1, TextTypes DEF Overlay, TypeOK

LEMMA TypeInit == Init => TypeOK
BY ConstantsAssumption DEF Init, TypeOK, Text, LockText, Framework, PC, Returned, Nothing

\* Capturing a text keeps the types of what is captured.
LEMMA RememberType ==
    ASSUME TypeOK, NEW pr \in Process, NEW f \in Manifest, NEW text \in Text,
           Remember(pr, f, text)
    PROVE  /\ orig' \in [Process -> [Manifest -> Text \cup {"none"}]]
           /\ dirty' \subseteq Manifest
<1>1. orig \in [Process -> [Manifest -> Text \cup {"none"}]]
  BY DEF TypeOK
<1>2. orig' = [orig EXCEPT ![pr] = [orig[pr] EXCEPT ![f] = text]]
  BY DEF Remember
<1>3. [orig[pr] EXCEPT ![f] = text] \in [Manifest -> Text \cup {"none"}]
  BY <1>1
<1>4. orig' \in [Process -> [Manifest -> Text \cup {"none"}]]
  BY <1>1, <1>2, <1>3
<1>5. dirty' \subseteq Manifest
  BY DEF TypeOK, Remember
<1>6. QED
  BY <1>4, <1>5

\* Whatever Cargo does, Cargo.lock holds a lock text.
LEMMA CargoResolvesType ==
    ASSUME TypeOK, NEW pr \in Process, CargoResolves(pr)
    PROVE  cargoLock' \in [Project -> LockText]
<1>1. PICK text \in {cargoLock[proj[pr]], pr} :
             cargoLock' = [cargoLock EXCEPT ![proj[pr]] = text]
  BY DEF CargoResolves
<1>2. QED
  BY <1>1 DEF TypeOK, LockText

\* Every step keeps every variable in its type.
LEMMA TypeStep == TypeOK /\ LoopsBounded /\ [Next]_vars => TypeOK'
<1> SUFFICES ASSUME TypeOK, LoopsBounded, [Next]_vars PROVE TypeOK'
  OBVIOUS
<1> USE DEF TypeOK, Goto, Return, Fault, PC, Holding, Returned, Nothing, LockText,
            disk, ghost
<1>1. ASSUME NEW pr \in Process, NEW p \in Project, Start(pr, p)
      PROVE  TypeOK'
  BY <1>1 DEF Start
<1>2. ASSUME NEW pr \in Process, ReadKernelRoot(pr)
      PROVE  TypeOK'
  BY <1>2, ConstantsAssumption DEF ReadKernelRoot
<1>3. ASSUME NEW pr \in Process, ReadOtherRoot(pr)
      PROVE  TypeOK'
  <2>1. Root[proj[pr]] \in Manifest
    BY ConstantsAssumption
  <2>2. manifest[Root[proj[pr]]] \in Text
    BY <2>1
  <2>3. /\ orig' \in [Process -> [Manifest -> Text \cup {"none"}]]
        /\ dirty' \subseteq Manifest
    BY <1>3, <2>1, <2>2, RememberType DEF ReadOtherRoot
  <2>4. QED
    BY <1>3, <2>3 DEF ReadOtherRoot
<1>4. ASSUME NEW pr \in Process, NEW f \in Manifest, Scan(pr, f)
      PROVE  TypeOK'
  <2>1. DependenciesIn(f, manifest[f]) \subseteq Manifest
    BY ConstantsAssumption DEF DependenciesIn
  <2>2. QED
    BY <1>4, <2>1 DEF Scan
<1>5. ASSUME NEW pr \in Process, ScanDone(pr)
      PROVE  TypeOK'
  BY <1>5 DEF ScanDone
<1>6. ASSUME NEW pr \in Process, NEW f \in Manifest, Capture(pr, f)
      PROVE  TypeOK'
  <2>1. manifest[f] \in Text
    OBVIOUS
  <2>2. /\ orig' \in [Process -> [Manifest -> Text \cup {"none"}]]
        /\ dirty' \subseteq Manifest
    BY <1>6, <2>1, RememberType DEF Capture
  <2>3. QED
    BY <1>6, <2>2 DEF Capture
<1>7. ASSUME NEW pr \in Process, Recheck(pr)
      PROVE  TypeOK'
  <2>1. PICK next \in {"bypass", "lock"} : pc' = [pc EXCEPT ![pr] = next]
    BY <1>7 DEF Recheck
  <2>2. faults' \in Nat
    BY <1>7 DEF Recheck
  <2>3. /\ UNCHANGED <<disk, proj, found, todo, open, orig, backup, failed>>
        /\ UNCHANGED <<dirty, lost, lostLock, stuck, unlocked>>
    BY <1>7 DEF Recheck
  <2>4. QED
    BY <2>1, <2>2, <2>3
<1>8. ASSUME NEW pr \in Process, PrepareFails(pr)
      PROVE  TypeOK'
  BY <1>8 DEF PrepareFails
<1>9. ASSUME NEW pr \in Process, RunBypassed(pr)
      PROVE  TypeOK'
  <2>1. cargoLock' \in [Project -> LockText]
    BY <1>9, CargoResolvesType DEF RunBypassed
  <2>2. failed' \in [Process -> BOOLEAN]
    BY <1>9 DEF RunBypassed
  <2>3. QED
    BY <1>9, <2>1, <2>2 DEF RunBypassed
<1>10. ASSUME NEW pr \in Process, CreateLock(pr)
      PROVE  TypeOK'
  BY <1>10 DEF CreateLock
<1>11. ASSUME NEW pr \in Process, RefuseLock(pr)
      PROVE  TypeOK'
  BY <1>11 DEF RefuseLock
<1>12. ASSUME NEW pr \in Process, BackupLock(pr)
      PROVE  TypeOK'
  BY <1>12 DEF BackupLock
<1>13. ASSUME NEW pr \in Process, BackupFails(pr)
      PROVE  TypeOK'
  <2>1. lockFile' \in [Project -> Process \cup {NoProcess}] /\ stuck' \subseteq Project
    BY <1>13 DEF BackupFails, RemoveLock, LeaveLock
  <2>2. QED
    BY <1>13, <2>1 DEF BackupFails
<1>14. ASSUME NEW pr \in Process, InstallLock(pr)
      PROVE  TypeOK'
  <2>1. cargoLock' \in [Project -> LockText]
    <3>1. PICK text \in LockText : cargoLock' = [cargoLock EXCEPT ![proj[pr]] = text]
      <4>1. Session[pr] # NoSet => sharedLock[Session[pr]] \in LockText
        BY ConstantsAssumption
      <4>2. "absent" \in LockText /\ cargoLock[proj[pr]] \in LockText
        BY DEF LockText
      <4>3. QED
        BY <1>14, <4>1, <4>2 DEF InstallLock
    <3>2. QED
      BY <3>1
  <2>2. Captured(pr) \subseteq Manifest
    BY DEF Captured
  <2>3. QED
    BY <1>14, <2>1, <2>2 DEF InstallLock
<1>15. ASSUME NEW pr \in Process, InstallFails(pr)
      PROVE  TypeOK'
  BY <1>15 DEF InstallFails, Captured
<1>16. ASSUME NEW pr \in Process, NEW f \in Manifest, Truncate(pr, f)
      PROVE  TypeOK'
  BY <1>16 DEF Truncate, Text
<1>17. ASSUME NEW pr \in Process, NEW f \in Manifest, WriteOverlay(pr, f)
      PROVE  TypeOK'
  <2>1. f \in Captured(pr)
    BY <1>17 DEF WriteOverlay, Fill, LoopsBounded
  <2>2. Overlay(pr, f) \in Text
    BY <2>1, OverlayType
  <2>3. QED
    BY <1>17, <2>2 DEF WriteOverlay, Fill
<1>18. ASSUME NEW pr \in Process, WriteFails(pr)
      PROVE  TypeOK'
  BY <1>18 DEF WriteFails, Captured
<1>19. ASSUME NEW pr \in Process, StartCargo(pr)
      PROVE  TypeOK'
  BY <1>19 DEF StartCargo
<1>20. ASSUME NEW pr \in Process, CargoEnds(pr)
      PROVE  TypeOK'
  <2>1. cargoLock' \in [Project -> LockText]
    BY <1>20, CargoResolvesType DEF CargoEnds
  <2>2. failed' \in [Process -> BOOLEAN] /\ pc' \in [Process -> PC]
    BY <1>20 DEF CargoEnds
  <2>3. Captured(pr) \subseteq Manifest
    BY DEF Captured
  <2>4. QED
    BY <1>20, <2>1, <2>2, <2>3 DEF CargoEnds
<1>21. ASSUME NEW pr \in Process, PublishLock(pr)
      PROVE  TypeOK'
  <2>1. cargoLock[proj[pr]] \in LockText
    OBVIOUS
  <2>2. sharedLock' \in [BuildSet -> LockText] /\ failed' \in [Process -> BOOLEAN]
    BY <1>21, <2>1 DEF PublishLock
  <2>3. QED
    BY <1>21, <2>2 DEF PublishLock
<1>22. ASSUME NEW pr \in Process, PublishFails(pr)
      PROVE  TypeOK'
  BY <1>22 DEF PublishFails
<1>23. ASSUME NEW pr \in Process, NEW f \in Manifest, RestoreManifest(pr, f)
      PROVE  TypeOK'
  <2>1. f \in Captured(pr)
    BY <1>23 DEF RestoreManifest, Fill, LoopsBounded
  <2>2. orig[pr][f] \in Text
    BY <2>1, OverlayType
  <2>3. QED
    BY <1>23, <2>2 DEF RestoreManifest, Fill
<1>24. ASSUME NEW pr \in Process, NEW f \in Manifest, RestoreFails(pr, f)
      PROVE  TypeOK'
  BY <1>24 DEF RestoreFails
<1>25. ASSUME NEW pr \in Process, RestoreLock(pr)
      PROVE  TypeOK'
  BY <1>25 DEF RestoreLock
<1>26. ASSUME NEW pr \in Process, RestoreLockFails(pr)
      PROVE  TypeOK'
  <2>1. cargoLock' \in [Project -> LockText]
    BY <1>26 DEF RestoreLockFails
  <2>2. QED
    BY <1>26, <2>1 DEF RestoreLockFails
<1>27. ASSUME NEW pr \in Process, Unlock(pr)
      PROVE  TypeOK'
  BY <1>27 DEF Unlock, RemoveLock
<1>28. ASSUME NEW pr \in Process, UnlockFails(pr)
      PROVE  TypeOK'
  BY <1>28 DEF UnlockFails, LeaveLock
<1>29. ASSUME NEW pr \in Process, Crash(pr)
      PROVE  TypeOK'
  BY <1>29 DEF Crash
<1>30. ASSUME NEW p \in Project, ClearStaleLock(p)
      PROVE  TypeOK'
  <2>1. lockFile' \in [Project -> Process \cup {NoProcess}] /\ stuck' \subseteq Project
    BY <1>30 DEF ClearStaleLock
  <2>2. QED
    BY <1>30, <2>1 DEF ClearStaleLock, local
<1>31. CASE UNCHANGED vars
  BY <1>31 DEF vars, disk, local, ghost
<1>32. QED
  BY <1>1, <1>2, <1>3, <1>4, <1>5, <1>6, <1>7, <1>8, <1>9, <1>10, <1>11, <1>12, <1>13, <1>14, <1>15, <1>16, <1>17, <1>18, <1>19, <1>20, <1>21, <1>22, <1>23, <1>24, <1>25, <1>26, <1>27, <1>28, <1>29, <1>30, <1>31 DEF Next, Step

-----------------------------------------------------------------------------
(* The lock file. *)

\* The holder of a project's lock is the process its lock file names, and a
\* lock file that stays behind is on record.
LEMMA LockStep ==
    TypeOK /\ LockOwnership /\ NoLockLeak /\ [Next]_vars
      => LockOwnership' /\ NoLockLeak'
<1> SUFFICES ASSUME TypeOK, LockOwnership, NoLockLeak, [Next]_vars
             PROVE  LockOwnership' /\ NoLockLeak'
  OBVIOUS
<1> USE ConstantsAssumption DEF TypeOK, LockOwnership, NoLockLeak, Goto, Return, Fault,
        Holding, Returned, disk, ghost
<1>1. ASSUME NEW pr \in Process, NEW p \in Project, Start(pr, p)
      PROVE  LockOwnership' /\ NoLockLeak'
  BY <1>1 DEF Start
<1>2. ASSUME NEW pr \in Process, ReadKernelRoot(pr)
      PROVE  LockOwnership' /\ NoLockLeak'
  BY <1>2 DEF ReadKernelRoot
<1>3. ASSUME NEW pr \in Process, ReadOtherRoot(pr)
      PROVE  LockOwnership' /\ NoLockLeak'
  BY <1>3 DEF ReadOtherRoot, Remember
<1>4. ASSUME NEW pr \in Process, NEW f \in Manifest, Scan(pr, f)
      PROVE  LockOwnership' /\ NoLockLeak'
  BY <1>4 DEF Scan
<1>5. ASSUME NEW pr \in Process, ScanDone(pr)
      PROVE  LockOwnership' /\ NoLockLeak'
  BY <1>5 DEF ScanDone
<1>6. ASSUME NEW pr \in Process, NEW f \in Manifest, Capture(pr, f)
      PROVE  LockOwnership' /\ NoLockLeak'
  BY <1>6 DEF Capture, Remember
<1>7. ASSUME NEW pr \in Process, Recheck(pr)
      PROVE  LockOwnership' /\ NoLockLeak'
  <2>1. PICK next \in {"bypass", "lock"} : pc[pr] = "capture" /\ pc' = [pc EXCEPT ![pr] = next]
    BY <1>7 DEF Recheck
  <2>2. UNCHANGED <<disk, proj, stuck>>
    BY <1>7 DEF Recheck
  <2>3. QED
    BY <2>1, <2>2
<1>8. ASSUME NEW pr \in Process, PrepareFails(pr)
      PROVE  LockOwnership' /\ NoLockLeak'
  BY <1>8 DEF PrepareFails
<1>9. ASSUME NEW pr \in Process, RunBypassed(pr)
      PROVE  LockOwnership' /\ NoLockLeak'
  BY <1>9 DEF RunBypassed, CargoResolves
<1>10. ASSUME NEW pr \in Process, CreateLock(pr)
      PROVE  LockOwnership' /\ NoLockLeak'
  BY <1>10 DEF CreateLock
<1>11. ASSUME NEW pr \in Process, RefuseLock(pr)
      PROVE  LockOwnership' /\ NoLockLeak'
  BY <1>11 DEF RefuseLock
<1>12. ASSUME NEW pr \in Process, BackupLock(pr)
      PROVE  LockOwnership' /\ NoLockLeak'
  BY <1>12 DEF BackupLock
<1>13. ASSUME NEW pr \in Process, BackupFails(pr)
      PROVE  LockOwnership' /\ NoLockLeak'
  BY <1>13 DEF BackupFails, RemoveLock, LeaveLock
<1>14. ASSUME NEW pr \in Process, InstallLock(pr)
      PROVE  LockOwnership' /\ NoLockLeak'
  BY <1>14 DEF InstallLock
<1>15. ASSUME NEW pr \in Process, InstallFails(pr)
      PROVE  LockOwnership' /\ NoLockLeak'
  BY <1>15 DEF InstallFails
<1>16. ASSUME NEW pr \in Process, NEW f \in Manifest, Truncate(pr, f)
      PROVE  LockOwnership' /\ NoLockLeak'
  BY <1>16 DEF Truncate
<1>17. ASSUME NEW pr \in Process, NEW f \in Manifest, WriteOverlay(pr, f)
      PROVE  LockOwnership' /\ NoLockLeak'
  BY <1>17 DEF WriteOverlay, Fill
<1>18. ASSUME NEW pr \in Process, WriteFails(pr)
      PROVE  LockOwnership' /\ NoLockLeak'
  BY <1>18 DEF WriteFails
<1>19. ASSUME NEW pr \in Process, StartCargo(pr)
      PROVE  LockOwnership' /\ NoLockLeak'
  BY <1>19 DEF StartCargo
<1>20. ASSUME NEW pr \in Process, CargoEnds(pr)
      PROVE  LockOwnership' /\ NoLockLeak'
  BY <1>20 DEF CargoEnds, CargoResolves
<1>21. ASSUME NEW pr \in Process, PublishLock(pr)
      PROVE  LockOwnership' /\ NoLockLeak'
  BY <1>21 DEF PublishLock
<1>22. ASSUME NEW pr \in Process, PublishFails(pr)
      PROVE  LockOwnership' /\ NoLockLeak'
  BY <1>22 DEF PublishFails
<1>23. ASSUME NEW pr \in Process, NEW f \in Manifest, RestoreManifest(pr, f)
      PROVE  LockOwnership' /\ NoLockLeak'
  BY <1>23 DEF RestoreManifest, Fill
<1>24. ASSUME NEW pr \in Process, NEW f \in Manifest, RestoreFails(pr, f)
      PROVE  LockOwnership' /\ NoLockLeak'
  BY <1>24 DEF RestoreFails
<1>25. ASSUME NEW pr \in Process, RestoreLock(pr)
      PROVE  LockOwnership' /\ NoLockLeak'
  BY <1>25 DEF RestoreLock
<1>26. ASSUME NEW pr \in Process, RestoreLockFails(pr)
      PROVE  LockOwnership' /\ NoLockLeak'
  BY <1>26 DEF RestoreLockFails
<1>27. ASSUME NEW pr \in Process, Unlock(pr)
      PROVE  LockOwnership' /\ NoLockLeak'
  BY <1>27 DEF Unlock, RemoveLock
<1>28. ASSUME NEW pr \in Process, UnlockFails(pr)
      PROVE  LockOwnership' /\ NoLockLeak'
  BY <1>28 DEF UnlockFails, LeaveLock
<1>29. ASSUME NEW pr \in Process, Crash(pr)
      PROVE  LockOwnership' /\ NoLockLeak'
  BY <1>29 DEF Crash
<1>30. ASSUME NEW p \in Project, ClearStaleLock(p)
      PROVE  LockOwnership' /\ NoLockLeak'
  BY <1>30 DEF ClearStaleLock, local
<1>31. CASE UNCHANGED vars
  BY <1>31 DEF vars, disk, local, ghost
<1>32. QED
  BY <1>1, <1>2, <1>3, <1>4, <1>5, <1>6, <1>7, <1>8, <1>9, <1>10, <1>11, <1>12, <1>13, <1>14, <1>15, <1>16, <1>17, <1>18, <1>19, <1>20, <1>21, <1>22, <1>23, <1>24, <1>25, <1>26, <1>27, <1>28, <1>29, <1>30, <1>31 DEF Next, Step

-----------------------------------------------------------------------------
(* What a call captures. *)

\* The call of a process that has no file open may return.
LEMMA LoopsReturn ==
    ASSUME TypeOK, LoopsBounded, NEW pr \in Process, Return(pr),
           pc[pr] \notin {"write", "restore", "crashed"}
    PROVE  LoopsBounded'
<1> USE DEF TypeOK, LoopsBounded, Captured, Return, Goto, Returned, Nothing
<1>1. /\ pc'[pr] = "done" /\ found'[pr] = {} /\ todo'[pr] = {} /\ open'[pr] = {}
      /\ Captured(pr)' = {}
  OBVIOUS
<1>2. \A qr \in Process \ {pr} :
        /\ pc'[qr] = pc[qr] /\ found'[qr] = found[qr] /\ todo'[qr] = todo[qr]
        /\ open'[qr] = open[qr] /\ Captured(qr)' = Captured(qr)
  OBVIOUS
<1>3. QED
  BY <1>1, <1>2

\* A step of a call inside the loop that writes or restores, or out of the latter.
LEMMA LoopsInner ==
    ASSUME TypeOK, LoopsBounded, NEW pr \in Process,
           pc[pr] \in {"write", "restore"},
           pc'[pr] = pc[pr] \/ (pc'[pr] = "unlock" /\ todo[pr] = {}),
           found' = found, todo' = todo, orig' = orig,
           open'[pr] # {} => \E f \in todo[pr] : open'[pr] = {f},
           \A qr \in Process \ {pr} : pc'[qr] = pc[qr] /\ open'[qr] = open[qr]
    PROVE  LoopsBounded'
<1>1. \A qr \in Process : Captured(qr)' = Captured(qr)
  BY DEF Captured
<1>2. /\ pc'[pr] \in {"write", "restore"} => todo'[pr] \subseteq Captured(pr)'
      /\ pc'[pr] = "publish" => todo'[pr] = Captured(pr)'
      /\ open'[pr] # {} => /\ pc'[pr] \in {"write", "restore", "crashed"}
                           /\ \E f \in todo'[pr] : open'[pr] = {f}
      /\ pc'[pr] \notin Returned \cup {"readRoot"}
  BY <1>1 DEF LoopsBounded, Returned
<1>3. QED
  BY <1>1, <1>2 DEF LoopsBounded

\* The loops over captured manifests keep to captured manifests.
LEMMA LoopsStep == TypeOK /\ LoopsBounded /\ [Next]_vars => LoopsBounded'
<1> SUFFICES ASSUME TypeOK, LoopsBounded, [Next]_vars PROVE LoopsBounded'
  OBVIOUS
<1> USE DEF TypeOK, LoopsBounded, Captured, Nothing, Goto, Return, Fault,
            Returned, disk, ghost
<1>1. ASSUME NEW pr \in Process, NEW p \in Project, Start(pr, p)
      PROVE  LoopsBounded'
  BY <1>1 DEF Start
<1>2. ASSUME NEW pr \in Process, ReadKernelRoot(pr)
      PROVE  LoopsBounded'
  BY <1>2 DEF ReadKernelRoot
<1>3. ASSUME NEW pr \in Process, ReadOtherRoot(pr)
      PROVE  LoopsBounded'
  BY <1>3 DEF ReadOtherRoot, Remember
<1>4. ASSUME NEW pr \in Process, NEW f \in Manifest, Scan(pr, f)
      PROVE  LoopsBounded'
  BY <1>4 DEF Scan
<1>5. ASSUME NEW pr \in Process, ScanDone(pr)
      PROVE  LoopsBounded'
  <2>1. /\ pc' = [pc EXCEPT ![pr] = "capture"] /\ pc[pr] = "scan"
        /\ found' = [found EXCEPT ![pr] = {}]
        /\ orig' = orig /\ open' = open
        /\ \A qr \in Process \ {pr} : todo'[qr] = todo[qr]
    BY <1>5 DEF ScanDone
  <2>2. QED
    BY <2>1
<1>6. ASSUME NEW pr \in Process, NEW f \in Manifest, Capture(pr, f)
      PROVE  LoopsBounded'
  BY <1>6 DEF Capture, Remember
<1>7. ASSUME NEW pr \in Process, Recheck(pr)
      PROVE  LoopsBounded'
  BY <1>7 DEF Recheck
<1>8. ASSUME NEW pr \in Process, PrepareFails(pr)
      PROVE  LoopsBounded'
  BY <1>8, LoopsReturn DEF PrepareFails
<1>9. ASSUME NEW pr \in Process, RunBypassed(pr)
      PROVE  LoopsBounded'
  BY <1>9, LoopsReturn DEF RunBypassed
<1>10. ASSUME NEW pr \in Process, CreateLock(pr)
      PROVE  LoopsBounded'
  BY <1>10 DEF CreateLock
<1>11. ASSUME NEW pr \in Process, RefuseLock(pr)
      PROVE  LoopsBounded'
  BY <1>11, LoopsReturn DEF RefuseLock
<1>12. ASSUME NEW pr \in Process, BackupLock(pr)
      PROVE  LoopsBounded'
  BY <1>12 DEF BackupLock
<1>13. ASSUME NEW pr \in Process, BackupFails(pr)
      PROVE  LoopsBounded'
  BY <1>13, LoopsReturn DEF BackupFails
<1>14. ASSUME NEW pr \in Process, InstallLock(pr)
      PROVE  LoopsBounded'
  BY <1>14 DEF InstallLock
<1>15. ASSUME NEW pr \in Process, InstallFails(pr)
      PROVE  LoopsBounded'
  BY <1>15 DEF InstallFails
<1>16. ASSUME NEW pr \in Process, NEW f \in Manifest, Truncate(pr, f)
      PROVE  LoopsBounded'
  <2>1. /\ pc[pr] \in {"write", "restore"}
        /\ pc'[pr] = pc[pr] \/ (pc'[pr] = "unlock" /\ todo[pr] = {})
        /\ found' = found /\ todo' = todo /\ orig' = orig
    BY <1>16 DEF Truncate
  <2>2. /\ open'[pr] # {} => \E g \in todo[pr] : open'[pr] = {g}
        /\ \A qr \in Process \ {pr} : pc'[qr] = pc[qr] /\ open'[qr] = open[qr]
    BY <1>16 DEF Truncate
  <2>3. QED
    BY <2>1, <2>2, LoopsInner
<1>17. ASSUME NEW pr \in Process, NEW f \in Manifest, WriteOverlay(pr, f)
      PROVE  LoopsBounded'
  BY <1>17 DEF WriteOverlay, Fill
<1>18. ASSUME NEW pr \in Process, WriteFails(pr)
      PROVE  LoopsBounded'
  BY <1>18 DEF WriteFails
<1>19. ASSUME NEW pr \in Process, StartCargo(pr)
      PROVE  LoopsBounded'
  BY <1>19 DEF StartCargo
<1>20. ASSUME NEW pr \in Process, CargoEnds(pr)
      PROVE  LoopsBounded'
  BY <1>20 DEF CargoEnds, CargoResolves
<1>21. ASSUME NEW pr \in Process, PublishLock(pr)
      PROVE  LoopsBounded'
  BY <1>21 DEF PublishLock
<1>22. ASSUME NEW pr \in Process, PublishFails(pr)
      PROVE  LoopsBounded'
  BY <1>22 DEF PublishFails
<1>23. ASSUME NEW pr \in Process, NEW f \in Manifest, RestoreManifest(pr, f)
      PROVE  LoopsBounded'
  BY <1>23 DEF RestoreManifest, Fill
<1>24. ASSUME NEW pr \in Process, NEW f \in Manifest, RestoreFails(pr, f)
      PROVE  LoopsBounded'
  BY <1>24 DEF RestoreFails
<1>25. ASSUME NEW pr \in Process, RestoreLock(pr)
      PROVE  LoopsBounded'
  <2>1. /\ pc[pr] \in {"write", "restore"}
        /\ pc'[pr] = pc[pr] \/ (pc'[pr] = "unlock" /\ todo[pr] = {})
        /\ found' = found /\ todo' = todo /\ orig' = orig
    BY <1>25 DEF RestoreLock
  <2>2. /\ open'[pr] # {} => \E g \in todo[pr] : open'[pr] = {g}
        /\ \A qr \in Process \ {pr} : pc'[qr] = pc[qr] /\ open'[qr] = open[qr]
    BY <1>25 DEF RestoreLock
  <2>3. QED
    BY <2>1, <2>2, LoopsInner
<1>26. ASSUME NEW pr \in Process, RestoreLockFails(pr)
      PROVE  LoopsBounded'
  <2>1. /\ pc[pr] \in {"write", "restore"}
        /\ pc'[pr] = pc[pr] \/ (pc'[pr] = "unlock" /\ todo[pr] = {})
        /\ found' = found /\ todo' = todo /\ orig' = orig
    BY <1>26 DEF RestoreLockFails
  <2>2. /\ open'[pr] # {} => \E g \in todo[pr] : open'[pr] = {g}
        /\ \A qr \in Process \ {pr} : pc'[qr] = pc[qr] /\ open'[qr] = open[qr]
    BY <1>26 DEF RestoreLockFails
  <2>3. QED
    BY <2>1, <2>2, LoopsInner
<1>27. ASSUME NEW pr \in Process, Unlock(pr)
      PROVE  LoopsBounded'
  BY <1>27, LoopsReturn DEF Unlock
<1>28. ASSUME NEW pr \in Process, UnlockFails(pr)
      PROVE  LoopsBounded'
  BY <1>28, LoopsReturn DEF UnlockFails
<1>29. ASSUME NEW pr \in Process, Crash(pr)
      PROVE  LoopsBounded'
  BY <1>29 DEF Crash
<1>30. ASSUME NEW p \in Project, ClearStaleLock(p)
      PROVE  LoopsBounded'
  BY <1>30 DEF ClearStaleLock, local
<1>31. CASE UNCHANGED vars
  BY <1>31 DEF vars, disk, local, ghost
<1>32. QED
  BY <1>1, <1>2, <1>3, <1>4, <1>5, <1>6, <1>7, <1>8, <1>9, <1>10, <1>11, <1>12, <1>13, <1>14, <1>15, <1>16, <1>17, <1>18, <1>19, <1>20, <1>21, <1>22, <1>23, <1>24, <1>25, <1>26, <1>27, <1>28, <1>29, <1>30, <1>31 DEF Next, Step

\* Capturing records a text that is not the committed one.
LEMMA RememberRecorded ==
    ASSUME TypeOK, OriginalsRecorded, NEW pr \in Process, NEW f \in Manifest,
           NEW text, Remember(pr, f, text)
    PROVE  OriginalsRecorded'
<1>1. orig' = [orig EXCEPT ![pr] = [orig[pr] EXCEPT ![f] = text]]
  BY DEF Remember
<1>2. orig'[pr][f] \in {"none", "source"} \/ f \in dirty'
  BY <1>1 DEF Remember, TypeOK
<1>3. ASSUME NEW qr \in Process, NEW g \in Manifest, <<qr, g>> # <<pr, f>>
      PROVE  orig'[qr][g] \in {"none", "source"} \/ g \in dirty'
  <2>1. orig'[qr][g] = orig[qr][g]
    BY <1>1, <1>3 DEF TypeOK
  <2>2. QED
    BY <2>1 DEF OriginalsRecorded, Remember
<1>4. QED
  BY <1>2, <1>3 DEF OriginalsRecorded

\* A text other than the committed one is captured only with a record of it.
LEMMA OriginalsStep == TypeOK /\ OriginalsRecorded /\ [Next]_vars => OriginalsRecorded'
<1> SUFFICES ASSUME TypeOK, OriginalsRecorded, [Next]_vars PROVE OriginalsRecorded'
  OBVIOUS
<1> USE DEF TypeOK, OriginalsRecorded, Nothing, Goto, Return, Fault, disk, ghost
<1>1. ASSUME NEW pr \in Process, NEW p \in Project, Start(pr, p)
      PROVE  OriginalsRecorded'
  BY <1>1 DEF Start
<1>2. ASSUME NEW pr \in Process, ReadKernelRoot(pr)
      PROVE  OriginalsRecorded'
  BY <1>2 DEF ReadKernelRoot
<1>3. ASSUME NEW pr \in Process, ReadOtherRoot(pr)
      PROVE  OriginalsRecorded'
  <2>1. CASE AddTables(proj[pr], manifest[Root[proj[pr]]]) # manifest[Root[proj[pr]]]
    BY <1>3, <2>1, RememberRecorded, ConstantsAssumption DEF ReadOtherRoot
  <2>2. CASE AddTables(proj[pr], manifest[Root[proj[pr]]]) = manifest[Root[proj[pr]]]
    BY <1>3, <2>2 DEF ReadOtherRoot
  <2>3. QED
    BY <2>1, <2>2
<1>4. ASSUME NEW pr \in Process, NEW f \in Manifest, Scan(pr, f)
      PROVE  OriginalsRecorded'
  BY <1>4 DEF Scan
<1>5. ASSUME NEW pr \in Process, ScanDone(pr)
      PROVE  OriginalsRecorded'
  BY <1>5 DEF ScanDone
<1>6. ASSUME NEW pr \in Process, NEW f \in Manifest, Capture(pr, f)
      PROVE  OriginalsRecorded'
  <2>1. CASE Rewritten(pr, f, manifest[f]) # manifest[f]
    BY <1>6, <2>1, RememberRecorded DEF Capture
  <2>2. CASE Rewritten(pr, f, manifest[f]) = manifest[f]
    BY <1>6, <2>2 DEF Capture
  <2>3. QED
    BY <2>1, <2>2
<1>7. ASSUME NEW pr \in Process, Recheck(pr)
      PROVE  OriginalsRecorded'
  BY <1>7 DEF Recheck
<1>8. ASSUME NEW pr \in Process, PrepareFails(pr)
      PROVE  OriginalsRecorded'
  BY <1>8 DEF PrepareFails
<1>9. ASSUME NEW pr \in Process, RunBypassed(pr)
      PROVE  OriginalsRecorded'
  BY <1>9 DEF RunBypassed, CargoResolves
<1>10. ASSUME NEW pr \in Process, CreateLock(pr)
      PROVE  OriginalsRecorded'
  BY <1>10 DEF CreateLock
<1>11. ASSUME NEW pr \in Process, RefuseLock(pr)
      PROVE  OriginalsRecorded'
  BY <1>11 DEF RefuseLock
<1>12. ASSUME NEW pr \in Process, BackupLock(pr)
      PROVE  OriginalsRecorded'
  BY <1>12 DEF BackupLock
<1>13. ASSUME NEW pr \in Process, BackupFails(pr)
      PROVE  OriginalsRecorded'
  BY <1>13 DEF BackupFails, RemoveLock, LeaveLock
<1>14. ASSUME NEW pr \in Process, InstallLock(pr)
      PROVE  OriginalsRecorded'
  BY <1>14 DEF InstallLock
<1>15. ASSUME NEW pr \in Process, InstallFails(pr)
      PROVE  OriginalsRecorded'
  BY <1>15 DEF InstallFails
<1>16. ASSUME NEW pr \in Process, NEW f \in Manifest, Truncate(pr, f)
      PROVE  OriginalsRecorded'
  BY <1>16 DEF Truncate
<1>17. ASSUME NEW pr \in Process, NEW f \in Manifest, WriteOverlay(pr, f)
      PROVE  OriginalsRecorded'
  BY <1>17 DEF WriteOverlay, Fill
<1>18. ASSUME NEW pr \in Process, WriteFails(pr)
      PROVE  OriginalsRecorded'
  BY <1>18 DEF WriteFails
<1>19. ASSUME NEW pr \in Process, StartCargo(pr)
      PROVE  OriginalsRecorded'
  BY <1>19 DEF StartCargo
<1>20. ASSUME NEW pr \in Process, CargoEnds(pr)
      PROVE  OriginalsRecorded'
  BY <1>20 DEF CargoEnds, CargoResolves
<1>21. ASSUME NEW pr \in Process, PublishLock(pr)
      PROVE  OriginalsRecorded'
  BY <1>21 DEF PublishLock
<1>22. ASSUME NEW pr \in Process, PublishFails(pr)
      PROVE  OriginalsRecorded'
  BY <1>22 DEF PublishFails
<1>23. ASSUME NEW pr \in Process, NEW f \in Manifest, RestoreManifest(pr, f)
      PROVE  OriginalsRecorded'
  BY <1>23 DEF RestoreManifest, Fill
<1>24. ASSUME NEW pr \in Process, NEW f \in Manifest, RestoreFails(pr, f)
      PROVE  OriginalsRecorded'
  BY <1>24 DEF RestoreFails
<1>25. ASSUME NEW pr \in Process, RestoreLock(pr)
      PROVE  OriginalsRecorded'
  BY <1>25 DEF RestoreLock
<1>26. ASSUME NEW pr \in Process, RestoreLockFails(pr)
      PROVE  OriginalsRecorded'
  BY <1>26 DEF RestoreLockFails
<1>27. ASSUME NEW pr \in Process, Unlock(pr)
      PROVE  OriginalsRecorded'
  BY <1>27 DEF Unlock, RemoveLock
<1>28. ASSUME NEW pr \in Process, UnlockFails(pr)
      PROVE  OriginalsRecorded'
  BY <1>28 DEF UnlockFails, LeaveLock
<1>29. ASSUME NEW pr \in Process, Crash(pr)
      PROVE  OriginalsRecorded'
  BY <1>29 DEF Crash
<1>30. ASSUME NEW p \in Project, ClearStaleLock(p)
      PROVE  OriginalsRecorded'
  BY <1>30 DEF ClearStaleLock, local
<1>31. CASE UNCHANGED vars
  BY <1>31 DEF vars, disk, local, ghost
<1>32. QED
  BY <1>1, <1>2, <1>3, <1>4, <1>5, <1>6, <1>7, <1>8, <1>9, <1>10, <1>11, <1>12, <1>13, <1>14, <1>15, <1>16, <1>17, <1>18, <1>19, <1>20, <1>21, <1>22, <1>23, <1>24, <1>25, <1>26, <1>27, <1>28, <1>29, <1>30, <1>31 DEF Next, Step

\* The file a loop has open is one it has captured and not yet finished.
LEMMA OpenIsCaptured ==
    ASSUME TypeOK, LoopsBounded, NEW pr \in Process, NEW f \in open[pr],
           pc[pr] \in {"write", "restore"}
    PROVE  f \in Captured(pr) /\ f \in todo[pr]
BY DEF LoopsBounded

\* A manifest without its committed text stays accounted for.
LEMMA ManifestsStep ==
    TypeOK /\ LoopsBounded /\ OriginalsRecorded /\ ManifestsAccounted /\ [Next]_vars
      => ManifestsAccounted'
<1> SUFFICES ASSUME TypeOK, LoopsBounded, OriginalsRecorded, ManifestsAccounted,
                    [Next]_vars
             PROVE  ManifestsAccounted'
  OBVIOUS
<1> USE DEF TypeOK, ManifestsAccounted, OwesManifest, Captured, Nothing,
            Goto, Return, Fault, Returned, disk, ghost
<1>1. ASSUME NEW pr \in Process, NEW p \in Project, Start(pr, p)
      PROVE  ManifestsAccounted'
  BY <1>1 DEF Start
<1>2. ASSUME NEW pr \in Process, ReadKernelRoot(pr)
      PROVE  ManifestsAccounted'
  BY <1>2 DEF ReadKernelRoot
<1>3. ASSUME NEW pr \in Process, ReadOtherRoot(pr)
      PROVE  ManifestsAccounted'
  <2>1. /\ manifest' = manifest /\ lost' = lost /\ dirty \subseteq dirty'
        /\ pc[pr] = "readRoot" /\ todo' = todo
        /\ \A qr \in Process \ {pr} : pc'[qr] = pc[qr] /\ orig'[qr] = orig[qr]
    BY <1>3 DEF ReadOtherRoot, Remember
  <2>2. \A qr \in Process, g \in Manifest : OwesManifest(qr, g) => OwesManifest(qr, g)'
    BY <2>1
  <2>3. QED
    BY <2>1, <2>2
<1>4. ASSUME NEW pr \in Process, NEW f \in Manifest, Scan(pr, f)
      PROVE  ManifestsAccounted'
  BY <1>4 DEF Scan
<1>5. ASSUME NEW pr \in Process, ScanDone(pr)
      PROVE  ManifestsAccounted'
  BY <1>5 DEF ScanDone
<1>6. ASSUME NEW pr \in Process, NEW f \in Manifest, Capture(pr, f)
      PROVE  ManifestsAccounted'
  BY <1>6 DEF Capture, Remember
<1>7. ASSUME NEW pr \in Process, Recheck(pr)
      PROVE  ManifestsAccounted'
  BY <1>7 DEF Recheck
<1>8. ASSUME NEW pr \in Process, PrepareFails(pr)
      PROVE  ManifestsAccounted'
  BY <1>8 DEF PrepareFails
<1>9. ASSUME NEW pr \in Process, RunBypassed(pr)
      PROVE  ManifestsAccounted'
  BY <1>9 DEF RunBypassed, CargoResolves
<1>10. ASSUME NEW pr \in Process, CreateLock(pr)
      PROVE  ManifestsAccounted'
  BY <1>10 DEF CreateLock
<1>11. ASSUME NEW pr \in Process, RefuseLock(pr)
      PROVE  ManifestsAccounted'
  BY <1>11 DEF RefuseLock
<1>12. ASSUME NEW pr \in Process, BackupLock(pr)
      PROVE  ManifestsAccounted'
  BY <1>12 DEF BackupLock
<1>13. ASSUME NEW pr \in Process, BackupFails(pr)
      PROVE  ManifestsAccounted'
  BY <1>13 DEF BackupFails, RemoveLock, LeaveLock
<1>14. ASSUME NEW pr \in Process, InstallLock(pr)
      PROVE  ManifestsAccounted'
  BY <1>14 DEF InstallLock
<1>15. ASSUME NEW pr \in Process, InstallFails(pr)
      PROVE  ManifestsAccounted'
  BY <1>15 DEF InstallFails
<1>16. ASSUME NEW pr \in Process, NEW f \in Manifest, Truncate(pr, f)
      PROVE  ManifestsAccounted'
  BY <1>16 DEF Truncate, LoopsBounded
<1>17. ASSUME NEW pr \in Process, NEW f \in Manifest, WriteOverlay(pr, f)
      PROVE  ManifestsAccounted'
  <2>1. /\ f \in Captured(pr) /\ pc[pr] = "write"
        /\ \A g \in Manifest \ {f} : manifest'[g] = manifest[g]
        /\ pc' = pc /\ orig' = orig /\ dirty' = dirty /\ lost' = lost
        /\ \A qr \in Process \ {pr} : todo'[qr] = todo[qr]
    BY <1>17, OpenIsCaptured DEF WriteOverlay, Fill
  <2>2. QED
    BY <2>1
<1>18. ASSUME NEW pr \in Process, WriteFails(pr)
      PROVE  ManifestsAccounted'
  BY <1>18 DEF WriteFails
<1>19. ASSUME NEW pr \in Process, StartCargo(pr)
      PROVE  ManifestsAccounted'
  BY <1>19 DEF StartCargo
<1>20. ASSUME NEW pr \in Process, CargoEnds(pr)
      PROVE  ManifestsAccounted'
  BY <1>20 DEF CargoEnds, CargoResolves
<1>21. ASSUME NEW pr \in Process, PublishLock(pr)
      PROVE  ManifestsAccounted'
  <2>1. /\ manifest' = manifest /\ lost' = lost /\ dirty' = dirty
        /\ todo' = todo /\ orig' = orig
        /\ pc[pr] = "publish" /\ pc' = [pc EXCEPT ![pr] = "restore"]
    BY <1>21 DEF PublishLock
  <2>2. \A g \in Manifest : OwesManifest(pr, g) => OwesManifest(pr, g)'
    BY <2>1 DEF LoopsBounded
  <2>3. \A qr \in Process \ {pr}, g \in Manifest :
            OwesManifest(qr, g) => OwesManifest(qr, g)'
    BY <2>1
  <2>4. QED
    BY <2>1, <2>2, <2>3
<1>22. ASSUME NEW pr \in Process, PublishFails(pr)
      PROVE  ManifestsAccounted'
  <2>1. /\ manifest' = manifest /\ lost' = lost /\ dirty' = dirty
        /\ todo' = todo /\ orig' = orig
        /\ pc[pr] = "publish" /\ pc' = [pc EXCEPT ![pr] = "restore"]
    BY <1>22 DEF PublishFails, LoopsBounded
  <2>2. \A g \in Manifest : OwesManifest(pr, g) => OwesManifest(pr, g)'
    BY <2>1 DEF LoopsBounded
  <2>3. \A qr \in Process \ {pr}, g \in Manifest :
            OwesManifest(qr, g) => OwesManifest(qr, g)'
    BY <2>1
  <2>4. QED
    BY <2>1, <2>2, <2>3
<1>23. ASSUME NEW pr \in Process, NEW f \in Manifest, RestoreManifest(pr, f)
      PROVE  ManifestsAccounted'
  <2>1. /\ f \in todo[pr] /\ f \in Captured(pr)
        /\ manifest' = [manifest EXCEPT ![f] = orig[pr][f]]
        /\ todo' = [todo EXCEPT ![pr] = @ \ {f}]
        /\ pc' = pc /\ orig' = orig /\ dirty' = dirty /\ lost' = lost
    BY <1>23, OpenIsCaptured DEF RestoreManifest, Fill
  <2>2. manifest'[f] = "source" \/ f \in dirty'
    BY <2>1 DEF OriginalsRecorded
  <2>3. \A qr \in Process, g \in Manifest \ {f} :
            OwesManifest(qr, g) => OwesManifest(qr, g)'
    BY <2>1
  <2>4. QED
    BY <2>1, <2>2, <2>3
<1>24. ASSUME NEW pr \in Process, NEW f \in Manifest, RestoreFails(pr, f)
      PROVE  ManifestsAccounted'
  BY <1>24 DEF RestoreFails
<1>25. ASSUME NEW pr \in Process, RestoreLock(pr)
      PROVE  ManifestsAccounted'
  BY <1>25 DEF RestoreLock, LoopsBounded
<1>26. ASSUME NEW pr \in Process, RestoreLockFails(pr)
      PROVE  ManifestsAccounted'
  BY <1>26 DEF RestoreLockFails, LoopsBounded
<1>27. ASSUME NEW pr \in Process, Unlock(pr)
      PROVE  ManifestsAccounted'
  BY <1>27 DEF Unlock, RemoveLock
<1>28. ASSUME NEW pr \in Process, UnlockFails(pr)
      PROVE  ManifestsAccounted'
  BY <1>28 DEF UnlockFails, LeaveLock
<1>29. ASSUME NEW pr \in Process, Crash(pr)
      PROVE  ManifestsAccounted'
  BY <1>29 DEF Crash
<1>30. ASSUME NEW p \in Project, ClearStaleLock(p)
      PROVE  ManifestsAccounted'
  BY <1>30 DEF ClearStaleLock, local
<1>31. CASE UNCHANGED vars
  BY <1>31 DEF vars, disk, local, ghost
<1>32. QED
  BY <1>1, <1>2, <1>3, <1>4, <1>5, <1>6, <1>7, <1>8, <1>9, <1>10, <1>11, <1>12, <1>13, <1>14, <1>15, <1>16, <1>17, <1>18, <1>19, <1>20, <1>21, <1>22, <1>23, <1>24, <1>25, <1>26, <1>27, <1>28, <1>29, <1>30, <1>31 DEF Next, Step

-----------------------------------------------------------------------------
(* Cargo.lock. *)

\* Steps before the backup and after the restoration, of one process.
LEMMA CargoLockFrame ==
    ASSUME TypeOK, BackupIsCommitted, CargoLockPreserved, NEW pr \in Process,
           pc[pr] \notin {"install", "write", "run", "publish", "restore", "crashed"},
           pc'[pr] \notin {"install", "write", "run", "publish", "restore"},
           cargoLock' = cargoLock, lostLock' = lostLock, unlocked' = unlocked,
           \A qr \in Process \ {pr} :
               pc'[qr] = pc[qr] /\ proj'[qr] = proj[qr] /\ backup'[qr] = backup[qr]
    PROVE  BackupIsCommitted' /\ CargoLockPreserved'
<1>1. ASSUME NEW p \in Project, NEW qr \in Process, proj[qr] = p,
             pc[qr] \in {"write", "run", "publish", "restore", "crashed"}
      PROVE  proj'[qr] = p /\ pc'[qr] = pc[qr]
  BY <1>1
<1>2. CargoLockPreserved'
  BY <1>1 DEF CargoLockPreserved, OwesCargoLock
<1>3. BackupIsCommitted'
  BY <1>1 DEF BackupIsCommitted
<1>4. QED
  BY <1>2, <1>3

\* The bytes kept for Cargo.lock, and Cargo.lock itself, stay accounted for.
LEMMA CargoLockStep ==
    TypeOK /\ LockOwnership /\ BackupIsCommitted /\ CargoLockPreserved /\ [Next]_vars
      => BackupIsCommitted' /\ CargoLockPreserved'
<1> SUFFICES ASSUME TypeOK, LockOwnership, BackupIsCommitted, CargoLockPreserved,
                    [Next]_vars
             PROVE  BackupIsCommitted' /\ CargoLockPreserved'
  OBVIOUS
<1> USE DEF TypeOK, BackupIsCommitted, CargoLockPreserved, OwesCargoLock,
            Goto, Return, Fault, Returned, disk, ghost
<1>1. ASSUME NEW pr \in Process, NEW p \in Project, Start(pr, p)
      PROVE  BackupIsCommitted' /\ CargoLockPreserved'
  <2>1. /\ pc[pr] \notin {"install", "write", "run", "publish", "restore", "crashed"}
        /\ pc'[pr] \notin {"install", "write", "run", "publish", "restore"}
        /\ cargoLock' = cargoLock /\ lostLock' = lostLock /\ unlocked' = unlocked
        /\ \A qr \in Process \ {pr} :
             pc'[qr] = pc[qr] /\ proj'[qr] = proj[qr] /\ backup'[qr] = backup[qr]
    BY <1>1 DEF Start
  <2>2. QED
    BY <2>1, CargoLockFrame
<1>2. ASSUME NEW pr \in Process, ReadKernelRoot(pr)
      PROVE  BackupIsCommitted' /\ CargoLockPreserved'
  <2>1. /\ pc[pr] \notin {"install", "write", "run", "publish", "restore", "crashed"}
        /\ pc'[pr] \notin {"install", "write", "run", "publish", "restore"}
        /\ cargoLock' = cargoLock /\ lostLock' = lostLock /\ unlocked' = unlocked
        /\ \A qr \in Process \ {pr} :
             pc'[qr] = pc[qr] /\ proj'[qr] = proj[qr] /\ backup'[qr] = backup[qr]
    BY <1>2 DEF ReadKernelRoot
  <2>2. QED
    BY <2>1, CargoLockFrame
<1>3. ASSUME NEW pr \in Process, ReadOtherRoot(pr)
      PROVE  BackupIsCommitted' /\ CargoLockPreserved'
  BY <1>3 DEF ReadOtherRoot, Remember
<1>4. ASSUME NEW pr \in Process, NEW f \in Manifest, Scan(pr, f)
      PROVE  BackupIsCommitted' /\ CargoLockPreserved'
  BY <1>4 DEF Scan
<1>5. ASSUME NEW pr \in Process, ScanDone(pr)
      PROVE  BackupIsCommitted' /\ CargoLockPreserved'
  <2>1. /\ pc[pr] \notin {"install", "write", "run", "publish", "restore", "crashed"}
        /\ pc'[pr] \notin {"install", "write", "run", "publish", "restore"}
        /\ cargoLock' = cargoLock /\ lostLock' = lostLock /\ unlocked' = unlocked
        /\ \A qr \in Process \ {pr} :
             pc'[qr] = pc[qr] /\ proj'[qr] = proj[qr] /\ backup'[qr] = backup[qr]
    BY <1>5 DEF ScanDone
  <2>2. QED
    BY <2>1, CargoLockFrame
<1>6. ASSUME NEW pr \in Process, NEW f \in Manifest, Capture(pr, f)
      PROVE  BackupIsCommitted' /\ CargoLockPreserved'
  BY <1>6 DEF Capture, Remember
<1>7. ASSUME NEW pr \in Process, Recheck(pr)
      PROVE  BackupIsCommitted' /\ CargoLockPreserved'
  <2>1. PICK next \in {"bypass", "lock"} : pc[pr] = "capture" /\ pc' = [pc EXCEPT ![pr] = next]
    BY <1>7 DEF Recheck
  <2>2. /\ cargoLock' = cargoLock /\ lostLock' = lostLock /\ unlocked' = unlocked
        /\ proj' = proj /\ backup' = backup
    BY <1>7 DEF Recheck
  <2>3. /\ pc[pr] \notin {"install", "write", "run", "publish", "restore", "crashed"}
        /\ pc'[pr] \notin {"install", "write", "run", "publish", "restore"}
        /\ \A qr \in Process \ {pr} :
             pc'[qr] = pc[qr] /\ proj'[qr] = proj[qr] /\ backup'[qr] = backup[qr]
    BY <2>1, <2>2
  <2>4. QED
    BY <2>2, <2>3, CargoLockFrame
<1>8. ASSUME NEW pr \in Process, PrepareFails(pr)
      PROVE  BackupIsCommitted' /\ CargoLockPreserved'
  <2>1. /\ pc[pr] \notin {"install", "write", "run", "publish", "restore", "crashed"}
        /\ pc'[pr] \notin {"install", "write", "run", "publish", "restore"}
        /\ cargoLock' = cargoLock /\ lostLock' = lostLock /\ unlocked' = unlocked
        /\ \A qr \in Process \ {pr} :
             pc'[qr] = pc[qr] /\ proj'[qr] = proj[qr] /\ backup'[qr] = backup[qr]
    BY <1>8 DEF PrepareFails
  <2>2. QED
    BY <2>1, CargoLockFrame
<1>9. ASSUME NEW pr \in Process, RunBypassed(pr)
      PROVE  BackupIsCommitted' /\ CargoLockPreserved'
  BY <1>9 DEF RunBypassed, CargoResolves
<1>10. ASSUME NEW pr \in Process, CreateLock(pr)
      PROVE  BackupIsCommitted' /\ CargoLockPreserved'
  <2>1. /\ pc[pr] \notin {"install", "write", "run", "publish", "restore", "crashed"}
        /\ pc'[pr] \notin {"install", "write", "run", "publish", "restore"}
        /\ cargoLock' = cargoLock /\ lostLock' = lostLock /\ unlocked' = unlocked
        /\ \A qr \in Process \ {pr} :
             pc'[qr] = pc[qr] /\ proj'[qr] = proj[qr] /\ backup'[qr] = backup[qr]
    BY <1>10 DEF CreateLock
  <2>2. QED
    BY <2>1, CargoLockFrame
<1>11. ASSUME NEW pr \in Process, RefuseLock(pr)
      PROVE  BackupIsCommitted' /\ CargoLockPreserved'
  <2>1. /\ pc[pr] \notin {"install", "write", "run", "publish", "restore", "crashed"}
        /\ pc'[pr] \notin {"install", "write", "run", "publish", "restore"}
        /\ cargoLock' = cargoLock /\ lostLock' = lostLock /\ unlocked' = unlocked
        /\ \A qr \in Process \ {pr} :
             pc'[qr] = pc[qr] /\ proj'[qr] = proj[qr] /\ backup'[qr] = backup[qr]
    BY <1>11 DEF RefuseLock
  <2>2. QED
    BY <2>1, CargoLockFrame
<1>12. ASSUME NEW pr \in Process, BackupLock(pr)
      PROVE  BackupIsCommitted' /\ CargoLockPreserved'
  BY <1>12 DEF BackupLock, LockOwnership, Holding
<1>13. ASSUME NEW pr \in Process, BackupFails(pr)
      PROVE  BackupIsCommitted' /\ CargoLockPreserved'
  <2>1. /\ pc[pr] \notin {"install", "write", "run", "publish", "restore", "crashed"}
        /\ pc'[pr] \notin {"install", "write", "run", "publish", "restore"}
        /\ cargoLock' = cargoLock /\ lostLock' = lostLock /\ unlocked' = unlocked
        /\ \A qr \in Process \ {pr} :
             pc'[qr] = pc[qr] /\ proj'[qr] = proj[qr] /\ backup'[qr] = backup[qr]
    BY <1>13 DEF BackupFails
  <2>2. QED
    BY <2>1, CargoLockFrame
<1>14. ASSUME NEW pr \in Process, InstallLock(pr)
      PROVE  BackupIsCommitted' /\ CargoLockPreserved'
  BY <1>14 DEF InstallLock, LockOwnership, Holding
<1>15. ASSUME NEW pr \in Process, InstallFails(pr)
      PROVE  BackupIsCommitted' /\ CargoLockPreserved'
  BY <1>15 DEF InstallFails, LockOwnership, Holding
<1>16. ASSUME NEW pr \in Process, NEW f \in Manifest, Truncate(pr, f)
      PROVE  BackupIsCommitted' /\ CargoLockPreserved'
  BY <1>16 DEF Truncate
<1>17. ASSUME NEW pr \in Process, NEW f \in Manifest, WriteOverlay(pr, f)
      PROVE  BackupIsCommitted' /\ CargoLockPreserved'
  BY <1>17 DEF WriteOverlay, Fill
<1>18. ASSUME NEW pr \in Process, WriteFails(pr)
      PROVE  BackupIsCommitted' /\ CargoLockPreserved'
  BY <1>18 DEF WriteFails
<1>19. ASSUME NEW pr \in Process, StartCargo(pr)
      PROVE  BackupIsCommitted' /\ CargoLockPreserved'
  BY <1>19 DEF StartCargo
<1>20. ASSUME NEW pr \in Process, CargoEnds(pr)
      PROVE  BackupIsCommitted' /\ CargoLockPreserved'
  BY <1>20 DEF CargoEnds, CargoResolves, LockOwnership, Holding
<1>21. ASSUME NEW pr \in Process, PublishLock(pr)
      PROVE  BackupIsCommitted' /\ CargoLockPreserved'
  BY <1>21 DEF PublishLock
<1>22. ASSUME NEW pr \in Process, PublishFails(pr)
      PROVE  BackupIsCommitted' /\ CargoLockPreserved'
  BY <1>22 DEF PublishFails
<1>23. ASSUME NEW pr \in Process, NEW f \in Manifest, RestoreManifest(pr, f)
      PROVE  BackupIsCommitted' /\ CargoLockPreserved'
  BY <1>23 DEF RestoreManifest, Fill
<1>24. ASSUME NEW pr \in Process, NEW f \in Manifest, RestoreFails(pr, f)
      PROVE  BackupIsCommitted' /\ CargoLockPreserved'
  BY <1>24 DEF RestoreFails
<1>25. ASSUME NEW pr \in Process, RestoreLock(pr)
      PROVE  BackupIsCommitted' /\ CargoLockPreserved'
  BY <1>25 DEF RestoreLock, LockOwnership, Holding
<1>26. ASSUME NEW pr \in Process, RestoreLockFails(pr)
      PROVE  BackupIsCommitted' /\ CargoLockPreserved'
  BY <1>26 DEF RestoreLockFails, LockOwnership, Holding
<1>27. ASSUME NEW pr \in Process, Unlock(pr)
      PROVE  BackupIsCommitted' /\ CargoLockPreserved'
  <2>1. /\ pc[pr] \notin {"install", "write", "run", "publish", "restore", "crashed"}
        /\ pc'[pr] \notin {"install", "write", "run", "publish", "restore"}
        /\ cargoLock' = cargoLock /\ lostLock' = lostLock /\ unlocked' = unlocked
        /\ \A qr \in Process \ {pr} :
             pc'[qr] = pc[qr] /\ proj'[qr] = proj[qr] /\ backup'[qr] = backup[qr]
    BY <1>27 DEF Unlock
  <2>2. QED
    BY <2>1, CargoLockFrame
<1>28. ASSUME NEW pr \in Process, UnlockFails(pr)
      PROVE  BackupIsCommitted' /\ CargoLockPreserved'
  <2>1. /\ pc[pr] \notin {"install", "write", "run", "publish", "restore", "crashed"}
        /\ pc'[pr] \notin {"install", "write", "run", "publish", "restore"}
        /\ cargoLock' = cargoLock /\ lostLock' = lostLock /\ unlocked' = unlocked
        /\ \A qr \in Process \ {pr} :
             pc'[qr] = pc[qr] /\ proj'[qr] = proj[qr] /\ backup'[qr] = backup[qr]
    BY <1>28 DEF UnlockFails
  <2>2. QED
    BY <2>1, CargoLockFrame
<1>29. ASSUME NEW pr \in Process, Crash(pr)
      PROVE  BackupIsCommitted' /\ CargoLockPreserved'
  BY <1>29 DEF Crash
<1>30. ASSUME NEW p \in Project, ClearStaleLock(p)
      PROVE  BackupIsCommitted' /\ CargoLockPreserved'
  BY <1>30 DEF ClearStaleLock, local
<1>31. CASE UNCHANGED vars
  BY <1>31 DEF vars, disk, local, ghost
<1>32. QED
  BY <1>1, <1>2, <1>3, <1>4, <1>5, <1>6, <1>7, <1>8, <1>9, <1>10, <1>11, <1>12, <1>13, <1>14, <1>15, <1>16, <1>17, <1>18, <1>19, <1>20, <1>21, <1>22, <1>23, <1>24, <1>25, <1>26, <1>27, <1>28, <1>29, <1>30, <1>31 DEF Next, Step

-----------------------------------------------------------------------------
(* What a call reaches, and what other processes leave alone. *)

\* Reach is closed under path dependencies.
LEMMA ReachClosed ==
    ASSUME NEW p \in Project
    PROVE  /\ Reach(p) \subseteq Manifest
           /\ Root[p] \in Reach(p)
           /\ \A f \in Reach(p) : PathDeps[f] \subseteq Reach(p)
<1>1. Root[p] \in Reach(p)
  BY ConstantsAssumption DEF Reach
<1>2. ASSUME NEW f \in Reach(p), NEW g \in PathDeps[f] PROVE g \in Reach(p)
  <2>1. g \in Manifest
    BY ConstantsAssumption DEF Reach
  <2>2. ASSUME NEW S \in SUBSET Manifest, Root[p] \in S,
               \A h \in S : PathDeps[h] \subseteq S
        PROVE  g \in S
    <3>1. f \in S
      BY <2>2 DEF Reach
    <3>2. QED
      BY <2>2, <3>1
  <2>3. QED
    BY <2>1, <2>2 DEF Reach
<1>3. QED
  BY <1>1, <1>2 DEF Reach

\* A call visits and captures only what its project reaches.
LEMMA ReachStep ==
    TypeOK /\ LoopsBounded /\ CapturedReachable /\ [Next]_vars => CapturedReachable'
<1> SUFFICES ASSUME TypeOK, LoopsBounded, CapturedReachable, [Next]_vars
             PROVE  CapturedReachable'
  OBVIOUS
<1> USE DEF TypeOK, CapturedReachable, Captured, Nothing, Goto, Return, Fault,
            disk, ghost
<1>1. ASSUME NEW pr \in Process, NEW p \in Project, Start(pr, p)
      PROVE  CapturedReachable'
  BY <1>1 DEF Start, LoopsBounded
<1>2. ASSUME NEW pr \in Process, ReadKernelRoot(pr)
      PROVE  CapturedReachable'
  BY <1>2, ReachClosed DEF ReadKernelRoot
<1>3. ASSUME NEW pr \in Process, ReadOtherRoot(pr)
      PROVE  CapturedReachable'
  BY <1>3, ReachClosed DEF ReadOtherRoot, Remember, LoopsBounded
<1>4. ASSUME NEW pr \in Process, NEW f \in Manifest, Scan(pr, f)
      PROVE  CapturedReachable'
  <2>1. DependenciesIn(f, manifest[f]) \subseteq Reach(proj[pr])
    BY <1>4, ReachClosed DEF Scan, DependenciesIn
  <2>2. QED
    BY <1>4, <2>1 DEF Scan
<1>5. ASSUME NEW pr \in Process, ScanDone(pr)
      PROVE  CapturedReachable'
  BY <1>5 DEF ScanDone
<1>6. ASSUME NEW pr \in Process, NEW f \in Manifest, Capture(pr, f)
      PROVE  CapturedReachable'
  BY <1>6 DEF Capture, Remember
<1>7. ASSUME NEW pr \in Process, Recheck(pr)
      PROVE  CapturedReachable'
  BY <1>7 DEF Recheck
<1>8. ASSUME NEW pr \in Process, PrepareFails(pr)
      PROVE  CapturedReachable'
  BY <1>8 DEF PrepareFails
<1>9. ASSUME NEW pr \in Process, RunBypassed(pr)
      PROVE  CapturedReachable'
  BY <1>9 DEF RunBypassed, CargoResolves
<1>10. ASSUME NEW pr \in Process, CreateLock(pr)
      PROVE  CapturedReachable'
  BY <1>10 DEF CreateLock
<1>11. ASSUME NEW pr \in Process, RefuseLock(pr)
      PROVE  CapturedReachable'
  BY <1>11 DEF RefuseLock
<1>12. ASSUME NEW pr \in Process, BackupLock(pr)
      PROVE  CapturedReachable'
  BY <1>12 DEF BackupLock
<1>13. ASSUME NEW pr \in Process, BackupFails(pr)
      PROVE  CapturedReachable'
  BY <1>13 DEF BackupFails, RemoveLock, LeaveLock
<1>14. ASSUME NEW pr \in Process, InstallLock(pr)
      PROVE  CapturedReachable'
  BY <1>14 DEF InstallLock
<1>15. ASSUME NEW pr \in Process, InstallFails(pr)
      PROVE  CapturedReachable'
  BY <1>15 DEF InstallFails
<1>16. ASSUME NEW pr \in Process, NEW f \in Manifest, Truncate(pr, f)
      PROVE  CapturedReachable'
  BY <1>16 DEF Truncate
<1>17. ASSUME NEW pr \in Process, NEW f \in Manifest, WriteOverlay(pr, f)
      PROVE  CapturedReachable'
  BY <1>17 DEF WriteOverlay, Fill
<1>18. ASSUME NEW pr \in Process, WriteFails(pr)
      PROVE  CapturedReachable'
  BY <1>18 DEF WriteFails
<1>19. ASSUME NEW pr \in Process, StartCargo(pr)
      PROVE  CapturedReachable'
  BY <1>19 DEF StartCargo
<1>20. ASSUME NEW pr \in Process, CargoEnds(pr)
      PROVE  CapturedReachable'
  BY <1>20 DEF CargoEnds, CargoResolves
<1>21. ASSUME NEW pr \in Process, PublishLock(pr)
      PROVE  CapturedReachable'
  BY <1>21 DEF PublishLock
<1>22. ASSUME NEW pr \in Process, PublishFails(pr)
      PROVE  CapturedReachable'
  BY <1>22 DEF PublishFails
<1>23. ASSUME NEW pr \in Process, NEW f \in Manifest, RestoreManifest(pr, f)
      PROVE  CapturedReachable'
  BY <1>23 DEF RestoreManifest, Fill
<1>24. ASSUME NEW pr \in Process, NEW f \in Manifest, RestoreFails(pr, f)
      PROVE  CapturedReachable'
  BY <1>24 DEF RestoreFails
<1>25. ASSUME NEW pr \in Process, RestoreLock(pr)
      PROVE  CapturedReachable'
  BY <1>25 DEF RestoreLock
<1>26. ASSUME NEW pr \in Process, RestoreLockFails(pr)
      PROVE  CapturedReachable'
  BY <1>26 DEF RestoreLockFails
<1>27. ASSUME NEW pr \in Process, Unlock(pr)
      PROVE  CapturedReachable'
  BY <1>27 DEF Unlock, RemoveLock
<1>28. ASSUME NEW pr \in Process, UnlockFails(pr)
      PROVE  CapturedReachable'
  BY <1>28 DEF UnlockFails, LeaveLock
<1>29. ASSUME NEW pr \in Process, Crash(pr)
      PROVE  CapturedReachable'
  BY <1>29 DEF Crash
<1>30. ASSUME NEW p \in Project, ClearStaleLock(p)
      PROVE  CapturedReachable'
  BY <1>30 DEF ClearStaleLock, local
<1>31. CASE UNCHANGED vars
  BY <1>31 DEF vars, disk, local, ghost
<1>32. QED
  BY <1>1, <1>2, <1>3, <1>4, <1>5, <1>6, <1>7, <1>8, <1>9, <1>10, <1>11, <1>12, <1>13, <1>14, <1>15, <1>16, <1>17, <1>18, <1>19, <1>20, <1>21, <1>22, <1>23, <1>24, <1>25, <1>26, <1>27, <1>28, <1>29, <1>30, <1>31 DEF Next, Step

\* A step of one process leaves the locals of the others alone, and rewrites at
\* most one manifest, which it has captured.
LEMMA StepFrame ==
    ASSUME TypeOK, LoopsBounded, NEW pr \in Process,
           Step(pr) \/ Crash(pr) \/ \E p \in Project : Start(pr, p)
    PROVE  /\ \A qr \in Process \ {pr} :
                /\ pc'[qr] = pc[qr] /\ proj'[qr] = proj[qr] /\ todo'[qr] = todo[qr]
                /\ orig'[qr] = orig[qr] /\ failed'[qr] = failed[qr]
                /\ backup'[qr] = backup[qr]
           /\ \/ manifest' = manifest
              \/ /\ pc[pr] \in {"write", "restore"}
                 /\ \E g \in Captured(pr) : \A f \in Manifest \ {g} : manifest'[f] = manifest[f]
<1> DEFINE Goal ==
           /\ \A qr \in Process \ {pr} :
                /\ pc'[qr] = pc[qr] /\ proj'[qr] = proj[qr] /\ todo'[qr] = todo[qr]
                /\ orig'[qr] = orig[qr] /\ failed'[qr] = failed[qr]
                /\ backup'[qr] = backup[qr]
           /\ \/ manifest' = manifest
              \/ /\ pc[pr] \in {"write", "restore"}
                 /\ \E g \in Captured(pr) : \A f \in Manifest \ {g} : manifest'[f] = manifest[f]
<1> USE DEF TypeOK, Goto, Return, Fault, disk, ghost
<1>1. ASSUME NEW p \in Project, Start(pr, p) PROVE Goal
  BY <1>1 DEF Start
<1>2. ASSUME ReadKernelRoot(pr) PROVE Goal
  BY <1>2 DEF ReadKernelRoot
<1>3. ASSUME ReadOtherRoot(pr) PROVE Goal
  BY <1>3 DEF ReadOtherRoot, Remember
<1>4. ASSUME NEW f \in Manifest, Scan(pr, f) PROVE Goal
  BY <1>4 DEF Scan
<1>5. ASSUME ScanDone(pr) PROVE Goal
  BY <1>5 DEF ScanDone
<1>6. ASSUME NEW f \in Manifest, Capture(pr, f) PROVE Goal
  BY <1>6 DEF Capture, Remember
<1>7. ASSUME Recheck(pr) PROVE Goal
  BY <1>7 DEF Recheck
<1>8. ASSUME PrepareFails(pr) PROVE Goal
  BY <1>8 DEF PrepareFails
<1>9. ASSUME RunBypassed(pr) PROVE Goal
  BY <1>9 DEF RunBypassed, CargoResolves
<1>10. ASSUME CreateLock(pr) PROVE Goal
  BY <1>10 DEF CreateLock
<1>11. ASSUME RefuseLock(pr) PROVE Goal
  BY <1>11 DEF RefuseLock
<1>12. ASSUME BackupLock(pr) PROVE Goal
  BY <1>12 DEF BackupLock
<1>13. ASSUME BackupFails(pr) PROVE Goal
  BY <1>13 DEF BackupFails, RemoveLock, LeaveLock
<1>14. ASSUME InstallLock(pr) PROVE Goal
  BY <1>14 DEF InstallLock
<1>15. ASSUME InstallFails(pr) PROVE Goal
  BY <1>15 DEF InstallFails
<1>16. ASSUME NEW f \in Manifest, Truncate(pr, f) PROVE Goal
  BY <1>16 DEF Truncate, LoopsBounded
<1>17. ASSUME NEW f \in Manifest, WriteOverlay(pr, f) PROVE Goal
  <2>1. f \in Captured(pr) /\ pc[pr] \in {"write", "restore"}
    BY <1>17, OpenIsCaptured DEF WriteOverlay, Fill
  <2>2. QED
    BY <1>17, <2>1 DEF WriteOverlay, Fill
<1>18. ASSUME WriteFails(pr) PROVE Goal
  BY <1>18 DEF WriteFails
<1>19. ASSUME StartCargo(pr) PROVE Goal
  BY <1>19 DEF StartCargo
<1>20. ASSUME CargoEnds(pr) PROVE Goal
  BY <1>20 DEF CargoEnds, CargoResolves
<1>21. ASSUME PublishLock(pr) PROVE Goal
  BY <1>21 DEF PublishLock
<1>22. ASSUME PublishFails(pr) PROVE Goal
  BY <1>22 DEF PublishFails
<1>23. ASSUME NEW f \in Manifest, RestoreManifest(pr, f) PROVE Goal
  <2>1. f \in Captured(pr) /\ pc[pr] \in {"write", "restore"}
    BY <1>23, OpenIsCaptured DEF RestoreManifest, Fill
  <2>2. QED
    BY <1>23, <2>1 DEF RestoreManifest, Fill
<1>24. ASSUME NEW f \in Manifest, RestoreFails(pr, f) PROVE Goal
  BY <1>24 DEF RestoreFails
<1>25. ASSUME RestoreLock(pr) PROVE Goal
  BY <1>25 DEF RestoreLock
<1>26. ASSUME RestoreLockFails(pr) PROVE Goal
  BY <1>26 DEF RestoreLockFails
<1>27. ASSUME Unlock(pr) PROVE Goal
  BY <1>27 DEF Unlock, RemoveLock
<1>28. ASSUME UnlockFails(pr) PROVE Goal
  BY <1>28 DEF UnlockFails, LeaveLock
<1>29. ASSUME Crash(pr) PROVE Goal
  BY <1>29 DEF Crash
<1>30. QED
  BY <1>1, <1>2, <1>3, <1>4, <1>5, <1>6, <1>7, <1>8, <1>9, <1>10, <1>11, <1>12, <1>13, <1>14, <1>15, <1>16, <1>17, <1>18, <1>19, <1>20, <1>21, <1>22, <1>23, <1>24, <1>25, <1>26, <1>27, <1>28, <1>29 DEF Step

-----------------------------------------------------------------------------
(* What a successful call has put back. *)

\* The overlay text of a captured manifest depends on the process alone.
LEMMA OverlayFrame ==
    ASSUME NEW pr \in Process, NEW f \in Manifest,
           proj'[pr] = proj[pr], orig'[pr] = orig[pr]
    PROVE  Overlay(pr, f)' = Overlay(pr, f)
BY DEF Overlay, Rewritten, AddTables, RewritePaths, FrameworkOf

\* No step of another process disturbs the progress of the holder of a lock on
\* its private manifests.
LEMMA PrivateOthers ==
    ASSUME IInv, NEW pr \in Process, NEW qr \in Process \ {pr},
           Step(pr) \/ Crash(pr) \/ \E p \in Project : Start(pr, p)
    PROVE  Progress(qr)'
<1>1. /\ pc'[qr] = pc[qr] /\ proj'[qr] = proj[qr] /\ todo'[qr] = todo[qr]
      /\ orig'[qr] = orig[qr] /\ failed'[qr] = failed[qr]
  BY StepFrame DEF IInv
<1>2. SUFFICES ASSUME NEW f \in Captured(qr), Private(proj[qr], f), pc[qr] \in Holding,
                      manifest'[f] # manifest[f]
               PROVE  FALSE
  <2>1. \A f \in Captured(qr) : Overlay(qr, f)' = Overlay(qr, f)
    BY <1>1, OverlayFrame DEF Captured
  <2>2. Captured(qr)' = Captured(qr) /\ Progress(qr)
    BY <1>1 DEF Captured, IInv, PrivateProgress
  <2>3. \A f \in Captured(qr) : Private(proj[qr], f)' = Private(proj[qr], f)
    BY <1>1 DEF Private, Reach
  <2>4. QED
    BY <1>1, <1>2, <2>1, <2>2, <2>3 DEF Progress, Holding, Private, Reach
<1>3. pc[pr] \in {"write", "restore"} /\ f \in Captured(pr)
  <2>1. f \in Manifest
    BY DEF Captured
  <2>2. QED
    BY <1>2, <2>1, StepFrame DEF IInv
<1>4. f \in Reach(proj[pr])
  BY <1>3 DEF IInv, CapturedReachable
<1>5. proj[pr] = proj[qr]
  BY <1>2, <1>4 DEF Private, IInv, TypeOK
<1>6. QED
  BY <1>2, <1>3, <1>5 DEF IInv, LockOwnership, Holding

\* Nor does its own step.
LEMMA PrivateOwn ==
    ASSUME IInv, NEW pr \in Process,
           Step(pr) \/ Crash(pr) \/ \E p \in Project : Start(pr, p)
    PROVE  Progress(pr)'
<1>1. TypeOK /\ LoopsBounded /\ Progress(pr)
  BY DEF IInv, PrivateProgress
<1> USE DEF TypeOK, Goto, Return, Fault, disk, ghost
<1>2. ASSUME NEW p \in Project, Start(pr, p) PROVE Progress(pr)'
  BY <1>1, <1>2 DEF Progress, Start
<1>3. ASSUME ReadKernelRoot(pr) PROVE Progress(pr)'
  BY <1>1, <1>3 DEF Progress, ReadKernelRoot
<1>4. ASSUME ReadOtherRoot(pr) PROVE Progress(pr)'
  BY <1>1, <1>4 DEF Progress, ReadOtherRoot, Remember
<1>5. ASSUME NEW f \in Manifest, Scan(pr, f) PROVE Progress(pr)'
  BY <1>1, <1>5 DEF Progress, Scan
<1>6. ASSUME ScanDone(pr) PROVE Progress(pr)'
  BY <1>1, <1>6 DEF Progress, ScanDone
<1>7. ASSUME NEW f \in Manifest, Capture(pr, f) PROVE Progress(pr)'
  BY <1>1, <1>7 DEF Progress, Capture, Remember
<1>8. ASSUME Recheck(pr) PROVE Progress(pr)'
  BY <1>1, <1>8 DEF Progress, Recheck
<1>9. ASSUME PrepareFails(pr) PROVE Progress(pr)'
  BY <1>1, <1>9 DEF Progress, PrepareFails
<1>10. ASSUME RunBypassed(pr) PROVE Progress(pr)'
  BY <1>1, <1>10 DEF Progress, RunBypassed, CargoResolves
<1>11. ASSUME CreateLock(pr) PROVE Progress(pr)'
  BY <1>1, <1>11 DEF Progress, CreateLock
<1>12. ASSUME RefuseLock(pr) PROVE Progress(pr)'
  BY <1>1, <1>12 DEF Progress, RefuseLock
<1>13. ASSUME BackupLock(pr) PROVE Progress(pr)'
  BY <1>1, <1>13 DEF Progress, BackupLock
<1>14. ASSUME BackupFails(pr) PROVE Progress(pr)'
  BY <1>1, <1>14 DEF Progress, BackupFails, RemoveLock, LeaveLock
<1>15. ASSUME InstallLock(pr) PROVE Progress(pr)'
  BY <1>1, <1>15 DEF Progress, InstallLock, Captured
<1>16. ASSUME InstallFails(pr) PROVE Progress(pr)'
  BY <1>1, <1>16 DEF Progress, InstallFails, Captured
<1>17. ASSUME NEW f \in Manifest, Truncate(pr, f) PROVE Progress(pr)'
  <2>1. \A g \in Captured(pr) : Overlay(pr, g)' = Overlay(pr, g)
    BY <1>1, <1>17, OverlayFrame DEF Captured, Truncate
  <2>2. Captured(pr)' = Captured(pr) /\ proj' = proj
    BY <1>17 DEF Captured, Truncate
  <2>3. \A g \in Manifest : Private(proj[pr], g)' = Private(proj[pr], g)
    BY <2>2 DEF Private, Reach
  <2>4. QED
    BY <1>1, <1>17, <2>1, <2>2, <2>3 DEF Progress, Captured, Truncate
<1>18. ASSUME NEW f \in Manifest, WriteOverlay(pr, f) PROVE Progress(pr)'
  <2>1. \A g \in Captured(pr) : Overlay(pr, g)' = Overlay(pr, g)
    BY <1>1, <1>18, OverlayFrame DEF Captured, WriteOverlay, Fill
  <2>2. Captured(pr)' = Captured(pr) /\ proj' = proj
    BY <1>18 DEF Captured, WriteOverlay, Fill
  <2>3. \A g \in Manifest : Private(proj[pr], g)' = Private(proj[pr], g)
    BY <2>2 DEF Private, Reach
  <2>4. QED
    BY <1>1, <1>18, <2>1, <2>2, <2>3 DEF Progress, Captured, WriteOverlay, Fill
<1>19. ASSUME WriteFails(pr) PROVE Progress(pr)'
  BY <1>1, <1>19 DEF Progress, WriteFails, Captured
<1>20. ASSUME StartCargo(pr) PROVE Progress(pr)'
  <2>1. \A g \in Captured(pr) : Overlay(pr, g)' = Overlay(pr, g)
    BY <1>1, <1>20, OverlayFrame DEF Captured, StartCargo
  <2>2. Captured(pr)' = Captured(pr) /\ proj' = proj
    BY <1>20 DEF Captured, StartCargo
  <2>3. \A g \in Manifest : Private(proj[pr], g)' = Private(proj[pr], g)
    BY <2>2 DEF Private, Reach
  <2>4. QED
    BY <1>1, <1>20, <2>1, <2>2, <2>3 DEF Progress, Captured, StartCargo
<1>21. ASSUME CargoEnds(pr) PROVE Progress(pr)'
  <2>1. \A g \in Captured(pr) : Overlay(pr, g)' = Overlay(pr, g)
    BY <1>1, <1>21, OverlayFrame DEF Captured, CargoEnds, CargoResolves
  <2>2. Captured(pr)' = Captured(pr) /\ proj' = proj
    BY <1>21 DEF Captured, CargoEnds, CargoResolves
  <2>3. \A g \in Manifest : Private(proj[pr], g)' = Private(proj[pr], g)
    BY <2>2 DEF Private, Reach
  <2>4. QED
    BY <1>1, <1>21, <2>1, <2>2, <2>3 DEF Progress, Captured, CargoEnds, CargoResolves
<1>22. ASSUME PublishLock(pr) PROVE Progress(pr)'
  BY <1>1, <1>22 DEF Progress, PublishLock, Captured, LoopsBounded
<1>23. ASSUME PublishFails(pr) PROVE Progress(pr)'
  BY <1>1, <1>23 DEF Progress, PublishFails, Captured, LoopsBounded
<1>24. ASSUME NEW f \in Manifest, RestoreManifest(pr, f) PROVE Progress(pr)'
  <2>1. \A g \in Captured(pr) : Overlay(pr, g)' = Overlay(pr, g)
    BY <1>1, <1>24, OverlayFrame DEF Captured, RestoreManifest, Fill
  <2>2. Captured(pr)' = Captured(pr) /\ proj' = proj
    BY <1>24 DEF Captured, RestoreManifest, Fill
  <2>3. \A g \in Manifest : Private(proj[pr], g)' = Private(proj[pr], g)
    BY <2>2 DEF Private, Reach
  <2>4. QED
    BY <1>1, <1>24, <2>1, <2>2, <2>3 DEF Progress, Captured, RestoreManifest, Fill
<1>25. ASSUME NEW f \in Manifest, RestoreFails(pr, f) PROVE Progress(pr)'
  <2>1. \A g \in Captured(pr) : Overlay(pr, g)' = Overlay(pr, g)
    BY <1>1, <1>25, OverlayFrame DEF Captured, RestoreFails
  <2>2. Captured(pr)' = Captured(pr) /\ proj' = proj
    BY <1>25 DEF Captured, RestoreFails
  <2>3. \A g \in Manifest : Private(proj[pr], g)' = Private(proj[pr], g)
    BY <2>2 DEF Private, Reach
  <2>4. QED
    BY <1>1, <1>25, <2>1, <2>2, <2>3 DEF Progress, Captured, RestoreFails
<1>26. ASSUME RestoreLock(pr) PROVE Progress(pr)'
  <2>1. \A g \in Captured(pr) : Overlay(pr, g)' = Overlay(pr, g)
    BY <1>1, <1>26, OverlayFrame DEF Captured, RestoreLock
  <2>2. Captured(pr)' = Captured(pr) /\ proj' = proj
    BY <1>26 DEF Captured, RestoreLock
  <2>3. \A g \in Manifest : Private(proj[pr], g)' = Private(proj[pr], g)
    BY <2>2 DEF Private, Reach
  <2>4. QED
    BY <1>1, <1>26, <2>1, <2>2, <2>3 DEF Progress, Captured, RestoreLock
<1>27. ASSUME RestoreLockFails(pr) PROVE Progress(pr)'
  <2>1. \A g \in Captured(pr) : Overlay(pr, g)' = Overlay(pr, g)
    BY <1>1, <1>27, OverlayFrame DEF Captured, RestoreLockFails
  <2>2. Captured(pr)' = Captured(pr) /\ proj' = proj
    BY <1>27 DEF Captured, RestoreLockFails
  <2>3. \A g \in Manifest : Private(proj[pr], g)' = Private(proj[pr], g)
    BY <2>2 DEF Private, Reach
  <2>4. QED
    BY <1>1, <1>27, <2>1, <2>2, <2>3 DEF Progress, Captured, RestoreLockFails
<1>28. ASSUME Unlock(pr) PROVE Progress(pr)'
  BY <1>1, <1>28 DEF Progress, Unlock, RemoveLock
<1>29. ASSUME UnlockFails(pr) PROVE Progress(pr)'
  BY <1>1, <1>29 DEF Progress, UnlockFails, LeaveLock
<1>30. ASSUME Crash(pr) PROVE Progress(pr)'
  BY <1>1, <1>30 DEF Progress, Crash
<1>31. QED
  BY <1>2, <1>3, <1>4, <1>5, <1>6, <1>7, <1>8, <1>9, <1>10, <1>11, <1>12, <1>13, <1>14, <1>15, <1>16, <1>17, <1>18, <1>19, <1>20, <1>21, <1>22, <1>23, <1>24, <1>25, <1>26, <1>27, <1>28, <1>29, <1>30 DEF Step

\* The holder's progress on private manifests is kept.
LEMMA PrivateStep == IInv /\ [Next]_vars => PrivateProgress'
<1> SUFFICES ASSUME IInv, [Next]_vars PROVE PrivateProgress'
  OBVIOUS
<1>1. CASE \E pr \in Process :
             Step(pr) \/ Crash(pr) \/ \E p \in Project : Start(pr, p)
  BY <1>1, PrivateOwn, PrivateOthers DEF PrivateProgress
<1>2. CASE UNCHANGED <<manifest, local>>
  <2>1. \A pr \in Process : Progress(pr)' = Progress(pr)
    BY <1>2 DEF local, Progress, Captured, Private, Reach, Overlay, Rewritten,
                AddTables, RewritePaths, FrameworkOf
  <2>2. QED
    BY <2>1 DEF IInv, PrivateProgress
<1>3. QED
  BY <1>1, <1>2 DEF Next, ClearStaleLock, vars, disk

\* Cargo.lock is not touched between its restoration and the return.
LEMMA LockRestoredStep ==
    TypeOK /\ LockOwnership /\ LockRestored /\ [Next]_vars => LockRestored'
<1> SUFFICES ASSUME TypeOK, LockOwnership, LockRestored, [Next]_vars
             PROVE  LockRestored'
  OBVIOUS
<1> USE DEF TypeOK, LockRestored, Goto, Return, Fault, disk, ghost
<1>1. ASSUME NEW pr \in Process, NEW p \in Project, Start(pr, p)
      PROVE  LockRestored'
  BY <1>1 DEF Start
<1>2. ASSUME NEW pr \in Process, ReadKernelRoot(pr)
      PROVE  LockRestored'
  BY <1>2 DEF ReadKernelRoot
<1>3. ASSUME NEW pr \in Process, ReadOtherRoot(pr)
      PROVE  LockRestored'
  BY <1>3 DEF ReadOtherRoot, Remember
<1>4. ASSUME NEW pr \in Process, NEW f \in Manifest, Scan(pr, f)
      PROVE  LockRestored'
  BY <1>4 DEF Scan
<1>5. ASSUME NEW pr \in Process, ScanDone(pr)
      PROVE  LockRestored'
  BY <1>5 DEF ScanDone
<1>6. ASSUME NEW pr \in Process, NEW f \in Manifest, Capture(pr, f)
      PROVE  LockRestored'
  BY <1>6 DEF Capture, Remember
<1>7. ASSUME NEW pr \in Process, Recheck(pr)
      PROVE  LockRestored'
  BY <1>7 DEF Recheck
<1>8. ASSUME NEW pr \in Process, PrepareFails(pr)
      PROVE  LockRestored'
  BY <1>8 DEF PrepareFails
<1>9. ASSUME NEW pr \in Process, RunBypassed(pr)
      PROVE  LockRestored'
  BY <1>9 DEF RunBypassed, CargoResolves
<1>10. ASSUME NEW pr \in Process, CreateLock(pr)
      PROVE  LockRestored'
  BY <1>10 DEF CreateLock
<1>11. ASSUME NEW pr \in Process, RefuseLock(pr)
      PROVE  LockRestored'
  BY <1>11 DEF RefuseLock
<1>12. ASSUME NEW pr \in Process, BackupLock(pr)
      PROVE  LockRestored'
  BY <1>12 DEF BackupLock
<1>13. ASSUME NEW pr \in Process, BackupFails(pr)
      PROVE  LockRestored'
  BY <1>13 DEF BackupFails, RemoveLock, LeaveLock
<1>14. ASSUME NEW pr \in Process, InstallLock(pr)
      PROVE  LockRestored'
  BY <1>14 DEF InstallLock, LockOwnership, Holding
<1>15. ASSUME NEW pr \in Process, InstallFails(pr)
      PROVE  LockRestored'
  BY <1>15 DEF InstallFails, LockOwnership, Holding
<1>16. ASSUME NEW pr \in Process, NEW f \in Manifest, Truncate(pr, f)
      PROVE  LockRestored'
  BY <1>16 DEF Truncate
<1>17. ASSUME NEW pr \in Process, NEW f \in Manifest, WriteOverlay(pr, f)
      PROVE  LockRestored'
  BY <1>17 DEF WriteOverlay, Fill
<1>18. ASSUME NEW pr \in Process, WriteFails(pr)
      PROVE  LockRestored'
  BY <1>18 DEF WriteFails
<1>19. ASSUME NEW pr \in Process, StartCargo(pr)
      PROVE  LockRestored'
  BY <1>19 DEF StartCargo
<1>20. ASSUME NEW pr \in Process, CargoEnds(pr)
      PROVE  LockRestored'
  BY <1>20 DEF CargoEnds, CargoResolves, LockOwnership, Holding
<1>21. ASSUME NEW pr \in Process, PublishLock(pr)
      PROVE  LockRestored'
  BY <1>21 DEF PublishLock
<1>22. ASSUME NEW pr \in Process, PublishFails(pr)
      PROVE  LockRestored'
  BY <1>22 DEF PublishFails
<1>23. ASSUME NEW pr \in Process, NEW f \in Manifest, RestoreManifest(pr, f)
      PROVE  LockRestored'
  BY <1>23 DEF RestoreManifest, Fill
<1>24. ASSUME NEW pr \in Process, NEW f \in Manifest, RestoreFails(pr, f)
      PROVE  LockRestored'
  BY <1>24 DEF RestoreFails
<1>25. ASSUME NEW pr \in Process, RestoreLock(pr)
      PROVE  LockRestored'
  BY <1>25 DEF RestoreLock, LockOwnership, Holding
<1>26. ASSUME NEW pr \in Process, RestoreLockFails(pr)
      PROVE  LockRestored'
  BY <1>26 DEF RestoreLockFails, LockOwnership, Holding
<1>27. ASSUME NEW pr \in Process, Unlock(pr)
      PROVE  LockRestored'
  BY <1>27 DEF Unlock, RemoveLock
<1>28. ASSUME NEW pr \in Process, UnlockFails(pr)
      PROVE  LockRestored'
  BY <1>28 DEF UnlockFails, LeaveLock
<1>29. ASSUME NEW pr \in Process, Crash(pr)
      PROVE  LockRestored'
  BY <1>29 DEF Crash
<1>30. ASSUME NEW p \in Project, ClearStaleLock(p)
      PROVE  LockRestored'
  BY <1>30 DEF ClearStaleLock, local
<1>31. CASE UNCHANGED vars
  BY <1>31 DEF vars, disk, local, ghost
<1>32. QED
  BY <1>1, <1>2, <1>3, <1>4, <1>5, <1>6, <1>7, <1>8, <1>9, <1>10, <1>11, <1>12, <1>13, <1>14, <1>15, <1>16, <1>17, <1>18, <1>19, <1>20, <1>21, <1>22, <1>23, <1>24, <1>25, <1>26, <1>27, <1>28, <1>29, <1>30, <1>31 DEF Next, Step

-----------------------------------------------------------------------------
(* The theorems. *)

\* The inductive invariant holds initially.
LEMMA IInvInit == Init => IInv
<1> SUFFICES ASSUME Init PROVE IInv
  OBVIOUS
<1>1. TypeOK
  BY TypeInit
<1>2. LockOwnership /\ NoLockLeak
  BY ConstantsAssumption DEF Init, LockOwnership, NoLockLeak, Holding
<1>3. /\ LoopsBounded /\ OriginalsRecorded /\ ManifestsAccounted
      /\ BackupIsCommitted /\ CargoLockPreserved
      /\ CapturedReachable /\ PrivateProgress /\ LockRestored
  BY DEF Init, LoopsBounded, OriginalsRecorded, ManifestsAccounted,
         BackupIsCommitted, CargoLockPreserved, CapturedReachable,
         PrivateProgress, Progress, LockRestored, Captured, Nothing, Returned
<1>4. QED
  BY <1>1, <1>2, <1>3 DEF IInv

\* Every step preserves the inductive invariant.
LEMMA IInvStep == IInv /\ [Next]_vars => IInv'
BY TypeStep, LockStep, LoopsStep, OriginalsStep, ManifestsStep, CargoLockStep,
   ReachStep, PrivateStep, LockRestoredStep DEF IInv

\* The inductive invariant is an invariant.
THEOREM Inductive == Spec => []IInv
<1>1. QED
  BY IInvInit, IInvStep, PTL DEF Spec

\* Every variable keeps its type.
THEOREM TypeCorrect == Spec => []TypeOK
<1>1. IInv => TypeOK
  BY DEF IInv
<1>2. QED
  BY Inductive, <1>1, PTL

\* No two calls hold the lock of one project, whatever fails, is killed or is
\* cleaned up by hand.
THEOREM MutualExclusionHolds == Spec => []MutualExclusion
<1>1. IInv => MutualExclusion
  BY DEF IInv, LockOwnership, MutualExclusion
<1>2. QED
  BY Inductive, <1>1, PTL

\* No error path leaves a lock file behind without reporting it.
THEOREM NoLockLeakHolds == Spec => []NoLockLeak
<1>1. IInv => NoLockLeak
  BY DEF IInv
<1>2. QED
  BY Inductive, <1>1, PTL

\* Every manifest without its committed text is accounted for.
THEOREM ManifestsAccountedHolds == Spec => []ManifestsAccounted
<1>1. IInv => ManifestsAccounted
  BY DEF IInv
<1>2. QED
  BY Inductive, <1>1, PTL

\* Every Cargo.lock that is not the committed one is accounted for.
THEOREM CargoLockPreservedHolds == Spec => []CargoLockPreserved
<1>1. IInv => CargoLockPreserved
  BY DEF IInv
<1>2. QED
  BY Inductive, <1>1, PTL

\* Nothing that a build changes is forgotten: its lock file, the manifests, and
\* Cargo.lock (project.rs, FrameworkManifestGuard).
THEOREM AllAccountedHolds == Spec => []AllAccounted
<1>1. NoLockLeak /\ ManifestsAccounted /\ CargoLockPreserved => AllAccounted
  BY DEF AllAccounted
<1>2. QED
  BY NoLockLeakHolds, ManifestsAccountedHolds, CargoLockPreservedHolds, <1>1, PTL

\* Cargo runs against the overlay its process computed.
THEOREM PrivateOverlayStableHolds == Spec => []PrivateOverlayStable
<1>1. IInv => PrivateOverlayStable
  BY DEF IInv, PrivateProgress, Progress, PrivateOverlayStable
<1>2. QED
  BY Inductive, <1>1, PTL

\* A call that returns Ok has restored what it took.
THEOREM OkMeansRestoredHolds == Spec => OkMeansRestored
<1> DEFINE Restored(pr) ==
      pc[pr] = "unlock" /\ pc'[pr] = "done" /\ ~failed'[pr] =>
        /\ lockFile'[proj[pr]] = NoProcess
        /\ proj[pr] \notin unlocked => cargoLock'[proj[pr]] = backup[pr]
        /\ \A f \in Captured(pr) :
             Private(proj[pr], f) => manifest'[f] = orig[pr][f]
<1>1. ASSUME IInv, [Next]_vars, NEW pr \in Process PROVE Restored(pr)
  <2> SUFFICES ASSUME pc[pr] = "unlock", pc'[pr] = "done", ~failed'[pr]
               PROVE  /\ lockFile'[proj[pr]] = NoProcess
                      /\ proj[pr] \notin unlocked => cargoLock'[proj[pr]] = backup[pr]
                      /\ \A f \in Captured(pr) :
                           Private(proj[pr], f) => manifest'[f] = orig[pr][f]
    OBVIOUS
  <2>1. Unlock(pr) \/ UnlockFails(pr)
    <3>1. pc' # pc
      BY <1>1 DEF IInv, TypeOK
    <3>2. PICK qr \in Process :
                 Step(qr) \/ Crash(qr) \/ \E p \in Project : Start(qr, p)
      BY <1>1, <3>1 DEF Next, ClearStaleLock, vars, local
    <3>3. qr = pr
      BY <1>1, <3>2, StepFrame DEF IInv
    <3>4. Step(pr)
      BY <1>1, <3>2, <3>3 DEF Crash, Start, Goto, Returned, IInv, TypeOK
    <3>5. QED
      BY <3>4 DEF Step, ReadKernelRoot, ReadOtherRoot, ScanDone, Recheck, PrepareFails,
           RunBypassed, CreateLock, RefuseLock, BackupLock, BackupFails, InstallLock,
           InstallFails, WriteFails, StartCargo, CargoEnds, PublishLock, PublishFails,
           RestoreLock, RestoreLockFails, Scan, Capture, Truncate, WriteOverlay,
           RestoreManifest, RestoreFails
  <2>2. Unlock(pr) /\ failed' = failed
    BY <1>1, <2>1 DEF Unlock, UnlockFails, Fault, IInv, TypeOK
  <2>3. /\ manifest' = manifest /\ cargoLock' = cargoLock
        /\ lockFile'[proj[pr]] = NoProcess
    BY <1>1, <2>2 DEF Unlock, RemoveLock, IInv, TypeOK
  <2>4. \A f \in Captured(pr) : Private(proj[pr], f) => manifest[f] = orig[pr][f]
    BY <1>1, <2>2 DEF IInv, PrivateProgress, Progress
  <2>5. proj[pr] \notin unlocked => cargoLock[proj[pr]] = backup[pr]
    BY <1>1, <2>2 DEF IInv, LockRestored
  <2>6. QED
    BY <2>3, <2>4, <2>5
<1>2. IInv /\ [Next]_vars => [\A pr \in Process : Restored(pr)]_vars
  BY <1>1
<1>3. QED
  BY Inductive, <1>2, PTL DEF Spec, OkMeansRestored

-----------------------------------------------------------------------------
(* The children of one build-set. *)

\* At most one call is under way or was killed.
OneAtATime ==
    \A pr, qr \in Process :
        pc[pr] \notin Returned /\ pc[qr] \notin Returned => pr = qr

\* Only a call that has started takes a step, and a start waits for the others.
LEMMA ActorIsOut ==
    ASSUME TypeOK, NEW s \in BuildSet, \A pr \in Process : Session[pr] = s,
           NEW pr \in Process, Step(pr) \/ Crash(pr) \/ \E p \in Project : Start(pr, p)
    PROVE  \/ pc[pr] \notin Returned
           \/ \A qr \in Process : pc[qr] \in Returned
<1>1. CASE \E p \in Project : Start(pr, p)
  BY <1>1, ConstantsAssumption DEF Start
<1>2. CASE Crash(pr)
  BY <1>2 DEF Crash, Returned
<1>3. CASE Step(pr)
  BY <1>3 DEF Step, Returned, ReadKernelRoot, ReadOtherRoot, ScanDone, Recheck, PrepareFails,
       RunBypassed, CreateLock, RefuseLock, BackupLock, BackupFails, InstallLock,
       InstallFails, WriteFails, StartCargo, CargoEnds, PublishLock, PublishFails,
       RestoreLock, RestoreLockFails, Unlock, UnlockFails, Scan, Capture, Truncate,
       WriteOverlay, RestoreManifest, RestoreFails
<1>4. QED
  BY <1>1, <1>2, <1>3

\* The children of a set run one after the other.
LEMMA OneAtATimeStep ==
    ASSUME IInv, OneAtATime, [Next]_vars,
           NEW s \in BuildSet, \A pr \in Process : Session[pr] = s
    PROVE  OneAtATime'
<1>1. CASE \E pr \in Process :
             Step(pr) \/ Crash(pr) \/ \E p \in Project : Start(pr, p)
  <2>1. PICK pr \in Process :
               Step(pr) \/ Crash(pr) \/ \E p \in Project : Start(pr, p)
    BY <1>1
  <2>2. \A qr \in Process \ {pr} : pc'[qr] = pc[qr]
    BY <2>1, StepFrame DEF IInv
  <2>3. \A qr \in Process \ {pr} : pc[qr] \in Returned
    BY <2>1, ActorIsOut DEF IInv, OneAtATime
  <2>4. QED
    BY <2>2, <2>3 DEF OneAtATime
<1>2. CASE pc' = pc
  BY <1>2 DEF OneAtATime
<1>3. QED
  BY <1>1, <1>2 DEF Next, ClearStaleLock, local, vars

\* What a step does to the record of what went wrong.
LEMMA RecordFrame ==
    ASSUME TypeOK, NEW pr \in Process,
           Step(pr) \/ Crash(pr) \/ \E p \in Project : Start(pr, p)
    PROVE  /\ lost \subseteq lost'
           /\ pc[pr] # "crashed"
           /\ \/ dirty' = dirty
              \/ \E f \in Manifest : /\ pc[pr] \in {"readRoot", "capture"}
                                     /\ Remember(pr, f, manifest[f])
<1>1. CASE (\E p \in Project : Start(pr, p)) \/ Crash(pr)
  BY <1>1 DEF Start, Crash, ghost, Returned
<1>2. CASE ReadOtherRoot(pr)
  <2>1. Root[proj[pr]] \in Manifest
    BY ConstantsAssumption DEF TypeOK
  <2>2. QED
    BY <1>2, <2>1 DEF ReadOtherRoot
<1>3. CASE \E f \in Manifest : Capture(pr, f)
  BY <1>3 DEF Capture
<1>4. CASE Step(pr) /\ ~ReadOtherRoot(pr) /\ ~(\E f \in Manifest : Capture(pr, f))
  <2>1. dirty' = dirty /\ lost \subseteq lost' /\ pc[pr] # "crashed"
    BY <1>4 DEF Step, ghost, ReadKernelRoot, ScanDone, Recheck, PrepareFails,
       RunBypassed, CreateLock, RefuseLock, BackupLock, BackupFails, InstallLock,
       InstallFails, WriteFails, StartCargo, CargoEnds, PublishLock, PublishFails,
       RestoreLock, RestoreLockFails, Unlock, UnlockFails, Scan, Truncate, Fill,
       WriteOverlay, RestoreManifest, RestoreFails
  <2>2. QED
    BY <2>1
<1>5. QED
  BY <1>1, <1>2, <1>3, <1>4

\* While nothing has gone wrong, a child finds every manifest as committed when
\* it captures: it is the only one under way and has written nothing yet.
LEMMA CapturesStep ==
    ASSUME IInv, OneAtATime, CapturesCommitted, [Next]_vars
    PROVE  CapturesCommitted'
<1> SUFFICES ASSUME lost' = {}, \A qr \in Process : pc'[qr] # "crashed"
             PROVE  dirty' = {}
  BY DEF CapturesCommitted
<1>1. CASE \E pr \in Process :
             Step(pr) \/ Crash(pr) \/ \E p \in Project : Start(pr, p)
  <2>1. PICK pr \in Process :
               Step(pr) \/ Crash(pr) \/ \E p \in Project : Start(pr, p)
    BY <1>1
  <2>2. /\ lost \subseteq lost' /\ pc[pr] # "crashed"
        /\ \/ dirty' = dirty
           \/ \E f \in Manifest : /\ pc[pr] \in {"readRoot", "capture"}
                                  /\ Remember(pr, f, manifest[f])
    BY <2>1, RecordFrame DEF IInv
  <2>3. \A qr \in Process \ {pr} : pc'[qr] = pc[qr]
    BY <2>1, StepFrame DEF IInv
  <2>4. lost = {} /\ dirty = {}
    BY <2>2, <2>3 DEF CapturesCommitted
  <2>5. ASSUME NEW f \in Manifest, pc[pr] \in {"readRoot", "capture"},
               Remember(pr, f, manifest[f])
        PROVE  dirty' = {}
    <3>1. ~\E qr \in Process : OwesManifest(qr, f)
      BY <2>5 DEF OneAtATime, OwesManifest, Returned
    <3>2. manifest[f] = "source"
      BY <2>4, <3>1 DEF IInv, ManifestsAccounted
    <3>3. QED
      BY <2>4, <2>5, <3>2 DEF Remember
  <2>6. QED
    BY <2>2, <2>4, <2>5
<1>2. CASE dirty' = dirty /\ lost' = lost /\ pc' = pc
  BY <1>2 DEF CapturesCommitted
<1>3. QED
  BY <1>1, <1>2 DEF Next, ClearStaleLock, vars, local, ghost

\* How a call gets to the overlay, and what it leaves alone while it writes it.
LEMMA WriteFrame ==
    ASSUME TypeOK, NEW pr \in Process, Step(pr) \/ Crash(pr), pc'[pr] = "write"
    PROVE  \/ InstallLock(pr)
           \/ /\ pc[pr] = "write"
              /\ cargoLock' = cargoLock /\ sharedLock' = sharedLock /\ proj' = proj
<1>1. Step(pr)
  BY DEF Crash, Goto, TypeOK
<1>2. CASE \E f \in Manifest : Truncate(pr, f) \/ WriteOverlay(pr, f)
  BY <1>2 DEF Truncate, WriteOverlay, Fill
<1>3. CASE ~\E f \in Manifest : Truncate(pr, f) \/ WriteOverlay(pr, f)
  BY <1>1, <1>3 DEF TypeOK, Goto, Return, Step, ReadKernelRoot, ReadOtherRoot, ScanDone,
       Recheck, PrepareFails, RunBypassed, CreateLock, RefuseLock, BackupLock,
       BackupFails, InstallFails, WriteFails, StartCargo, CargoEnds, PublishLock,
       PublishFails, RestoreLock, RestoreLockFails, Unlock, UnlockFails, Scan, Capture,
       Fill, RestoreManifest, RestoreFails
<1>4. QED
  BY <1>2, <1>3

\* The lock a child is handed is not replaced while it writes its overlay.
LEMMA SharedLockStep ==
    ASSUME IInv, OneAtATime, OneAtATime', SharedLockReused, [Next]_vars
    PROVE  SharedLockReused'
<1> SUFFICES ASSUME NEW pr \in Process, pc'[pr] = "write", Session[pr] # NoSet
             PROVE  \/ sharedLock'[Session[pr]] = "absent"
                    \/ cargoLock'[proj'[pr]] = sharedLock'[Session[pr]]
  BY DEF SharedLockReused
<1>1. CASE \E qr \in Process : \E p \in Project : Start(qr, p)
  <2>1. PICK qr \in Process : \E p \in Project : Start(qr, p)
    BY <1>1
  <2>2. qr # pr
    BY <2>1 DEF Start, Goto, IInv, TypeOK
  <2>3. pc[pr] = "write" /\ proj'[pr] = proj[pr]
    BY <2>1, <2>2, StepFrame DEF IInv
  <2>4. cargoLock' = cargoLock /\ sharedLock' = sharedLock
    BY <2>1 DEF Start, disk
  <2>5. QED
    BY <2>3, <2>4 DEF SharedLockReused
<1>2. CASE \E qr \in Process : Step(qr) \/ Crash(qr)
  <2>1. PICK qr \in Process : Step(qr) \/ Crash(qr)
    BY <1>2
  <2>2. pc[qr] \notin Returned
    BY <2>1 DEF Crash, Step, Returned, ReadKernelRoot, ReadOtherRoot, ScanDone, Recheck,
       PrepareFails, RunBypassed, CreateLock, RefuseLock, BackupLock, BackupFails,
       InstallLock, InstallFails, WriteFails, StartCargo, CargoEnds, PublishLock,
       PublishFails, RestoreLock, RestoreLockFails, Unlock, UnlockFails, Scan, Capture,
       Truncate, WriteOverlay, RestoreManifest, RestoreFails
  <2>3. qr = pr
    <3> SUFFICES ASSUME qr # pr PROVE FALSE
      OBVIOUS
    <3>1. pc[pr] = "write"
      BY <2>1, StepFrame DEF IInv
    <3>2. QED
      BY <2>2, <3>1 DEF OneAtATime, Returned
  <2>4. CASE InstallLock(pr)
    BY <2>4, ConstantsAssumption DEF InstallLock, IInv, TypeOK
  <2>5. CASE /\ pc[pr] = "write"
             /\ cargoLock' = cargoLock /\ sharedLock' = sharedLock /\ proj' = proj
    BY <2>5 DEF SharedLockReused
  <2>6. QED
    BY <2>1, <2>3, <2>4, <2>5, WriteFrame DEF IInv
<1>3. CASE cargoLock' = cargoLock /\ sharedLock' = sharedLock /\ proj' = proj /\ pc' = pc
  BY <1>3 DEF SharedLockReused
<1>4. QED
  BY <1>1, <1>2, <1>3 DEF Next, ClearStaleLock, vars, disk, local

\* The children of one build-set: as long as no restoring write fails and none
\* is killed, none takes another's overlay for the committed text; and each
\* starts Cargo from the Cargo.lock those before it resolved.  The calls are
\* those of one set, as build_set runs them (project.rs, with_framework_manifest).
THEOREM SetHandsOnHolds ==
    ASSUME NEW s \in BuildSet, \A pr \in Process : Session[pr] = s
    PROVE  Spec => []SetHandsOn
<1>1. Init => OneAtATime /\ SetHandsOn
  BY DEF Init, OneAtATime, SetHandsOn, CapturesCommitted, SharedLockReused, Returned
<1>2. IInv /\ OneAtATime /\ SetHandsOn /\ [Next]_vars => OneAtATime' /\ SetHandsOn'
  <2> SUFFICES ASSUME IInv, OneAtATime, SetHandsOn, [Next]_vars
               PROVE  OneAtATime' /\ SetHandsOn'
    OBVIOUS
  <2>1. OneAtATime'
    BY OneAtATimeStep
  <2>2. CapturesCommitted'
    BY CapturesStep DEF SetHandsOn
  <2>3. SharedLockReused'
    BY <2>1, SharedLockStep DEF SetHandsOn
  <2>4. QED
    BY <2>1, <2>2, <2>3 DEF SetHandsOn
<1>3. QED
  BY Inductive, <1>1, <1>2, PTL DEF Spec
=============================================================================
