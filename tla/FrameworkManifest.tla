-------------------------- MODULE FrameworkManifest --------------------------
(***************************************************************************)
(* The temporary manifest overlay of src/project.rs.                       *)
(*                                                                         *)
(* with_framework_manifest runs one Cargo invocation against manifests     *)
(* whose kernel source paths are replaced by paths into an ELM framework,  *)
(* and puts the committed bytes back afterwards.  A process of this model  *)
(* is one cargo-elm invocation (build or check of one project).  All       *)
(* processes share the files of one kernel checkout: the manifests, every  *)
(* project's Cargo.lock, every project's lock file, and, for the children  *)
(* of a build-set, the set's shared Cargo.lock.                            *)
(*                                                                         *)
(* fs::write truncates a file and then fills it, so a manifest write is    *)
(* two steps and a reader in between sees an empty file ("torn").          *)
(***************************************************************************)
EXTENDS FiniteSets, Naturals

CONSTANTS
    Process,      \* cargo-elm invocations
    Project,      \* ELM projects of the checkout
    BuildSet,     \* build-set sessions that share a framework and a Cargo.lock
    NoSet,        \* the session of an invocation started on its own
    NoProcess,    \* the owner of a lock file that does not exist
    Manifest,     \* Cargo.toml files that name kernel or framework crates
    Root,         \* Root[p] is the Cargo.toml of project p
    PathDeps,     \* PathDeps[f]: manifests f reaches by path inside the checkout
    KernelTree,   \* projects whose committed manifest names kernel source paths
    Standalone,   \* projects whose committed manifest names .elm/framework paths
    HasTables,    \* projects whose committed manifest has the workspace tables
    Session,      \* Session[pr]: the build-set that started pr, or NoSet
    Builds,       \* Builds[pr]: the projects pr is started on
    CommittedLock,\* CommittedLock[p]: "committed" or "absent" (Cargo.lock)
    MayCrash,     \* processes a signal may end
    MaxFaults     \* bound: failing file operations in a behaviour

Framework == Project \cup BuildSet

\* What a manifest holds: the committed text, the empty file of an unfinished
\* write, the workspace tables alone, a standalone text with the tables added,
\* or the committed text with its kernel paths pointing into a framework.
Text == {"source", "torn", "bare", "wrapped"} \cup Framework

\* What a Cargo.lock holds; a process stands for the lock Cargo resolved in it.
LockText == {"absent", "committed", "torn"} \cup Process

ASSUME ConstantsAssumption ==
    /\ NoProcess \notin Process /\ Project # {}
    /\ Root \in [Project -> Manifest]
    /\ \A p, q \in Project : Root[p] = Root[q] => p = q
    /\ PathDeps \in [Manifest -> SUBSET Manifest]
    /\ \A f \in Manifest, p \in Project \ KernelTree : Root[p] \notin PathDeps[f]
    /\ KernelTree \subseteq Project /\ Standalone \subseteq Project
    /\ KernelTree \cap (Standalone \cup HasTables) = {}
    /\ Session \in [Process -> BuildSet \cup {NoSet}]
    /\ NoSet \notin BuildSet
    /\ Builds \in [Process -> SUBSET Project]
    /\ CommittedLock \in [Project -> {"absent", "committed"}]
    /\ {"none", "source", "torn", "bare", "wrapped"} \cap Framework = {}
    /\ {"absent", "committed", "torn"} \cap Process = {}
    /\ Project \cap BuildSet = {}
    /\ MayCrash \subseteq Process
    /\ MaxFaults \in Nat

VARIABLES
    manifest,   \* manifest[f]: the bytes of f on disk
    cargoLock,  \* cargoLock[p]: the bytes of p's Cargo.lock
    lockFile,   \* lockFile[p]: creator of p's .cargo-elm-manifest.lock
    sharedLock, \* sharedLock[s]: Cargo.lock shared by the modules of set s
    pc,         \* pc[pr]: where pr is in with_framework_manifest
    proj,       \* proj[pr]: the project pr builds
    found,      \* found[pr]: manifests reachable_cargo_manifests has found
    todo,       \* todo[pr]: files the current loop has still to visit
    open,       \* open[pr]: the file pr has truncated and not yet filled
    orig,       \* orig[pr][f]: the text pr will restore, or "none"
    backup,     \* backup[pr]: the Cargo.lock bytes pr will restore
    failed,     \* failed[pr]: some step of pr returned an error
    faults,     \* history: file operations that have failed so far
    dirty,      \* history: manifests captured while not holding "source"
    lost,       \* history: manifests whose restoring write failed
    lostLock,   \* history: projects whose Cargo.lock could not be restored
    stuck,      \* history: projects whose lock file could not be removed
    unlocked    \* history: projects Cargo ran on without the lock

disk  == <<manifest, cargoLock, lockFile, sharedLock>>
local == <<pc, proj, found, todo, open, orig, backup, failed>>
ghost == <<faults, dirty, lost, lostLock, stuck, unlocked>>
vars  == <<disk, local, ghost>>

\* Between creating the lock file and removing it.
Holding == {"backup", "install", "write", "run", "publish", "restore", "unlock"}
Returned == {"idle", "done"}
PC == Holding \cup Returned \cup
      {"readRoot", "scan", "capture", "lock", "bypass", "crashed"}

TypeOK ==
    /\ manifest \in [Manifest -> Text]
    /\ cargoLock \in [Project -> LockText]
    /\ lockFile \in [Project -> Process \cup {NoProcess}]
    /\ sharedLock \in [BuildSet -> LockText]
    /\ pc \in [Process -> PC]
    /\ proj \in [Process -> Project]
    /\ found \in [Process -> SUBSET Manifest]
    /\ todo \in [Process -> SUBSET Manifest]
    /\ open \in [Process -> SUBSET Manifest]
    /\ orig \in [Process -> [Manifest -> Text \cup {"none"}]]
    /\ backup \in [Process -> LockText]
    /\ failed \in [Process -> BOOLEAN]
    /\ faults \in Nat
    /\ dirty \subseteq Manifest
    /\ lost \subseteq Manifest
    /\ lostLock \subseteq Project
    /\ stuck \subseteq Project
    /\ unlocked \subseteq Project

Nothing == [f \in Manifest |-> "none"]

Init ==
    /\ manifest = [f \in Manifest |-> "source"]
    /\ cargoLock = CommittedLock
    /\ lockFile = [p \in Project |-> NoProcess]
    /\ sharedLock = [s \in BuildSet |-> "absent"]
    /\ pc = [pr \in Process |-> "idle"]
    /\ proj = [pr \in Process |-> CHOOSE p \in Project : TRUE]
    /\ found = [pr \in Process |-> {}]
    /\ todo = [pr \in Process |-> {}]
    /\ open = [pr \in Process |-> {}]
    /\ orig = [pr \in Process |-> Nothing]
    /\ backup = [pr \in Process |-> "absent"]
    /\ failed = [pr \in Process |-> FALSE]
    /\ faults = 0 /\ dirty = {} /\ lost = {}
    /\ lostLock = {} /\ stuck = {} /\ unlocked = {}

-----------------------------------------------------------------------------
(* Reading and rewriting manifest text. *)

\* configured_framework_root: the set's framework, or the project's own.
FrameworkOf(pr) == IF Session[pr] = NoSet THEN proj[pr] ELSE Session[pr]

\* has_kernel_source_dependencies on the root manifest of p.
HasKernelPaths(p, text) == text = "source" /\ p \in KernelTree

\* has_elm_framework_dependencies: a project's own framework is under its .elm
\* directory, a build-set's framework is an absolute path without that marker.
HasElmPaths(p, text) ==
    \/ text \in {"source", "wrapped"} /\ p \in Standalone
    \/ text \in Project

\* rewrite_kernel_manifest_paths: kernel source paths, and paths an interrupted
\* run left in some project's .elm/framework, are redirected to pr's framework.
RewritePaths(pr, text) ==
    IF text = "source" \/ text \in Project THEN FrameworkOf(pr) ELSE text

\* framework_manifest_source: add the workspace tables that are missing.
AddTables(p, text) ==
    CASE text = "torn" -> "bare"
      [] text = "source" /\ p \notin HasTables -> "wrapped"
      [] OTHER -> text

\* The text pr writes over text in the manifest f of a kernel-tree run.
Rewritten(pr, f, text) ==
    IF f = Root[proj[pr]]
    THEN AddTables(proj[pr], RewritePaths(pr, text))
    ELSE RewritePaths(pr, text)

\* path_dependency_manifests: an empty file, or bare tables, name no paths.
DependenciesIn(f, text) == IF text \in {"torn", "bare"} THEN {} ELSE PathDeps[f]

Captured(pr) == {f \in Manifest : orig[pr][f] # "none"}

\* The text pr installs over what it captured: a project outside the kernel
\* tree only gains the workspace tables.
Overlay(pr, f) ==
    IF proj[pr] \in KernelTree THEN Rewritten(pr, f, orig[pr][f])
                               ELSE AddTables(proj[pr], orig[pr][f])

\* pr remembers text as the original of f.
Remember(pr, f, text) ==
    /\ orig' = [orig EXCEPT ![pr][f] = text]
    /\ dirty' = IF text = "source" THEN dirty ELSE dirty \cup {f}

Goto(pr, label) == pc' = [pc EXCEPT ![pr] = label]

\* The call of pr is over and its local variables are gone.
Return(pr) ==
    /\ Goto(pr, "done")
    /\ found' = [found EXCEPT ![pr] = {}]
    /\ todo' = [todo EXCEPT ![pr] = {}]
    /\ orig' = [orig EXCEPT ![pr] = Nothing]
    /\ backup' = [backup EXCEPT ![pr] = "absent"]
    /\ UNCHANGED <<proj, open>>

\* One more file operation fails.
Fault(pr) ==
    /\ faults < MaxFaults
    /\ faults' = faults + 1
    /\ failed' = [failed EXCEPT ![pr] = TRUE]

-----------------------------------------------------------------------------
(* Before the lock: read the manifests and work out what to rewrite. *)

\* Mutant: the children of a build-set run at the same time.
StartAnyTime(pr, p) ==
    /\ pc[pr] \in Returned /\ p \in Builds[pr]
    /\ Goto(pr, "readRoot")
    /\ proj' = [proj EXCEPT ![pr] = p]
    /\ failed' = [failed EXCEPT ![pr] = FALSE]
    /\ UNCHANGED <<disk, found, todo, open, orig, backup, ghost>>

\* A caller enters with_framework_manifest for project p.  The children of one
\* build-set run one after another, until one of them fails.
Start(pr, p) ==
    /\ pc[pr] \in Returned /\ p \in Builds[pr]
    /\ Session[pr] # NoSet =>
         \A other \in Process : Session[other] = Session[pr] =>
           pc[other] \in Returned /\ ~failed[other]
    /\ Goto(pr, "readRoot")
    /\ proj' = [proj EXCEPT ![pr] = p]
    /\ failed' = [failed EXCEPT ![pr] = FALSE]
    /\ UNCHANGED <<disk, found, todo, open, orig, backup, ghost>>

\* Kernel-tree root: start the walk over the reachable manifests.
ReadKernelRoot(pr) ==
    /\ pc[pr] = "readRoot"
    /\ HasKernelPaths(proj[pr], manifest[Root[proj[pr]]])
    /\ found' = [found EXCEPT ![pr] = {Root[proj[pr]]}]
    /\ todo' = [todo EXCEPT ![pr] = {Root[proj[pr]]}]
    /\ Goto(pr, "scan")
    /\ UNCHANGED <<disk, proj, open, orig, backup, failed, ghost>>

\* Any other root: only the root itself may gain the workspace tables.
ReadOtherRoot(pr) ==
    LET root == Root[proj[pr]]
        text == manifest[root]
    IN /\ pc[pr] = "readRoot"
       /\ ~HasKernelPaths(proj[pr], text)
       /\ IF AddTables(proj[pr], text) # text
          THEN Remember(pr, root, text)
          ELSE UNCHANGED <<orig, dirty>>
       /\ Goto(pr, "capture")
       /\ UNCHANGED <<disk, proj, found, todo, open, backup, failed,
                      faults, lost, lostLock, stuck, unlocked>>

\* Mutant: a manifest already visited is visited again.
ScanAgain(pr, f) ==
    /\ pc[pr] = "scan" /\ f \in todo[pr]
    /\ found' = [found EXCEPT ![pr] = @ \cup DependenciesIn(f, manifest[f])]
    /\ todo' = [todo EXCEPT ![pr] = (@ \ {f}) \cup DependenciesIn(f, manifest[f])]
    /\ UNCHANGED <<disk, pc, proj, open, orig, backup, failed, ghost>>

\* reachable_cargo_manifests pops one manifest and adds its path dependencies.
Scan(pr, f) ==
    LET new == DependenciesIn(f, manifest[f]) \ found[pr]
    IN /\ pc[pr] = "scan" /\ f \in todo[pr]
       /\ found' = [found EXCEPT ![pr] = @ \cup new]
       /\ todo' = [todo EXCEPT ![pr] = (@ \ {f}) \cup new]
       /\ UNCHANGED <<disk, pc, proj, open, orig, backup, failed, ghost>>

\* The walk is over: visit every manifest found.
ScanDone(pr) ==
    /\ pc[pr] = "scan" /\ todo[pr] = {}
    /\ todo' = [todo EXCEPT ![pr] = found[pr]]
    /\ found' = [found EXCEPT ![pr] = {}]
    /\ Goto(pr, "capture")
    /\ UNCHANGED <<disk, proj, open, orig, backup, failed, ghost>>

\* Read f again and remember its text if the rewrite changes it.
Capture(pr, f) ==
    /\ pc[pr] = "capture" /\ f \in todo[pr]
    /\ todo' = [todo EXCEPT ![pr] = @ \ {f}]
    /\ IF Rewritten(pr, f, manifest[f]) # manifest[f]
       THEN Remember(pr, f, manifest[f])
       ELSE UNCHANGED <<orig, dirty>>
    /\ UNCHANGED <<disk, pc, proj, found, open, backup, failed,
                   faults, lost, lostLock, stuck, unlocked>>

\* Nothing to rewrite and a root that names no framework: no lock is taken.  A
\* root that cannot be read this time counts as one that names none.
Recheck(pr) ==
    LET p == proj[pr]
        text == manifest[Root[p]]
    IN /\ pc[pr] = "capture" /\ todo[pr] = {}
       /\ \/ /\ Goto(pr, IF /\ Captured(pr) = {}
                            /\ ~(HasKernelPaths(p, text) \/ HasElmPaths(p, text))
                         THEN "bypass" ELSE "lock")
             /\ UNCHANGED faults
          \/ /\ Captured(pr) = {} /\ faults < MaxFaults
             /\ faults' = faults + 1 /\ Goto(pr, "bypass")
       /\ UNCHANGED <<disk, proj, found, todo, open, orig, backup, failed,
                      dirty, lost, lostLock, stuck, unlocked>>

\* A read fails, or the lock file cannot be created: nothing has been touched.
PrepareFails(pr) ==
    /\ pc[pr] \in {"readRoot", "scan", "capture", "lock"}
    /\ Fault(pr)
    /\ Return(pr)
    /\ UNCHANGED <<disk, dirty, lost, lostLock, stuck, unlocked>>

\* Cargo leaves its Cargo.lock as it was or writes the one it resolved.
CargoResolves(pr) ==
    \E text \in {cargoLock[proj[pr]], pr} :
        cargoLock' = [cargoLock EXCEPT ![proj[pr]] = text]

\* The early return operation(): Cargo runs without lock or overlay.
RunBypassed(pr) ==
    /\ pc[pr] = "bypass"
    /\ CargoResolves(pr)
    /\ unlocked' = unlocked \cup {proj[pr]}
    /\ \E ok \in BOOLEAN : failed' = [failed EXCEPT ![pr] = ~ok]
    /\ Return(pr)
    /\ UNCHANGED <<manifest, lockFile, sharedLock, faults, dirty, lost, lostLock, stuck>>

-----------------------------------------------------------------------------
(* Under the lock: overlay, Cargo, restore. *)

\* Mutant: the lock file is opened with create instead of create_new.
CreateLockAnyway(pr) ==
    /\ pc[pr] = "lock"
    /\ lockFile' = [lockFile EXCEPT ![proj[pr]] = pr]
    /\ Goto(pr, "backup")
    /\ UNCHANGED <<manifest, cargoLock, sharedLock, proj, found, todo, open,
                   orig, backup, failed, ghost>>

\* OpenOptions::create_new: the first creator wins.
CreateLock(pr) ==
    /\ pc[pr] = "lock"
    /\ lockFile[proj[pr]] = NoProcess
    /\ lockFile' = [lockFile EXCEPT ![proj[pr]] = pr]
    /\ Goto(pr, "backup")
    /\ UNCHANGED <<manifest, cargoLock, sharedLock, proj, found, todo, open,
                   orig, backup, failed, ghost>>

\* Anyone else's lock file is an error, and nothing has been written.
RefuseLock(pr) ==
    /\ pc[pr] = "lock"
    /\ lockFile[proj[pr]] # NoProcess
    /\ failed' = [failed EXCEPT ![pr] = TRUE]
    /\ Return(pr)
    /\ UNCHANGED <<disk, ghost>>

\* The Cargo.lock bytes to restore are read under the lock.
BackupLock(pr) ==
    /\ pc[pr] = "backup"
    /\ backup' = [backup EXCEPT ![pr] = cargoLock[proj[pr]]]
    /\ Goto(pr, "install")
    /\ UNCHANGED <<disk, proj, found, todo, open, orig, failed, ghost>>

\* The lock file of p is removed, or its removal fails and it stays.
RemoveLock(p) ==
    /\ lockFile' = [lockFile EXCEPT ![p] = NoProcess]
    /\ UNCHANGED stuck

LeaveLock(p) ==
    /\ stuck' = stuck \cup {p}
    /\ UNCHANGED lockFile

\* Mutant: the error is returned without removing the lock file.
BackupFailsLocked(pr) ==
    /\ pc[pr] = "backup"
    /\ Fault(pr)
    /\ Return(pr)
    /\ UNCHANGED <<disk, dirty, lost, lostLock, stuck, unlocked>>

\* Cargo.lock is unreadable: the lock file is removed, if that works, and the
\* call fails.
BackupFails(pr) ==
    /\ pc[pr] = "backup"
    /\ Fault(pr)
    /\ RemoveLock(proj[pr]) \/ LeaveLock(proj[pr])
    /\ Return(pr)
    /\ UNCHANGED <<manifest, cargoLock, sharedLock, dirty, lost, lostLock, unlocked>>

\* Mutant: a module that has a Cargo.lock keeps it.
InstallLockIfMissing(pr) ==
    LET s == Session[pr]
    IN /\ pc[pr] = "install"
       /\ cargoLock' = [cargoLock EXCEPT ![proj[pr]] =
                          IF s = NoSet THEN "absent"
                          ELSE IF sharedLock[s] = "absent" \/ @ # "absent" THEN @
                          ELSE sharedLock[s]]
       /\ todo' = [todo EXCEPT ![pr] = Captured(pr)]
       /\ Goto(pr, "write")
       /\ UNCHANGED <<manifest, lockFile, sharedLock, proj, found, open, orig,
                      backup, failed, ghost>>

\* A build-set child starts from the set's lock when there is one; a single
\* build starts without any Cargo.lock.
InstallLock(pr) ==
    LET s == Session[pr]
    IN /\ pc[pr] = "install"
       /\ cargoLock' = [cargoLock EXCEPT ![proj[pr]] =
                          IF s = NoSet THEN "absent"
                          ELSE IF sharedLock[s] = "absent" THEN @
                          ELSE sharedLock[s]]
       /\ todo' = [todo EXCEPT ![pr] = Captured(pr)]
       /\ Goto(pr, "write")
       /\ UNCHANGED <<manifest, lockFile, sharedLock, proj, found, open, orig,
                      backup, failed, ghost>>

\* Reading the shared lock, or writing or removing Cargo.lock, fails; the guard
\* is already alive and restores everything.
InstallFails(pr) ==
    /\ pc[pr] = "install"
    /\ Fault(pr)
    /\ \/ UNCHANGED cargoLock
       \/ /\ Session[pr] # NoSet
          /\ sharedLock[Session[pr]] # "absent"
          /\ cargoLock' = [cargoLock EXCEPT ![proj[pr]] = "torn"]
    /\ todo' = [todo EXCEPT ![pr] = Captured(pr)]
    /\ Goto(pr, "restore")
    /\ UNCHANGED <<manifest, lockFile, sharedLock, proj, found, open, orig,
                   backup, dirty, lost, lostLock, stuck, unlocked>>

\* fs::write opens f with O_TRUNC, for the overlay or for the restore.
Truncate(pr, f) ==
    /\ pc[pr] \in {"write", "restore"}
    /\ open[pr] = {} /\ f \in todo[pr]
    /\ manifest' = [manifest EXCEPT ![f] = "torn"]
    /\ open' = [open EXCEPT ![pr] = {f}]
    /\ UNCHANGED <<cargoLock, lockFile, sharedLock, pc, proj, found, todo,
                   orig, backup, failed, ghost>>

\* fs::write fills the file it truncated with text.
Fill(pr, f, text) ==
    /\ f \in open[pr]
    /\ manifest' = [manifest EXCEPT ![f] = text]
    /\ open' = [open EXCEPT ![pr] = {}]
    /\ todo' = [todo EXCEPT ![pr] = @ \ {f}]
    /\ UNCHANGED <<cargoLock, lockFile, sharedLock, pc, proj, found,
                   orig, backup, failed, ghost>>

WriteOverlay(pr, f) == pc[pr] = "write" /\ Fill(pr, f, Overlay(pr, f))

\* Mutant: only the manifests already rewritten are restored.
WriteFailsPartly(pr) ==
    /\ pc[pr] = "write" /\ todo[pr] # {}
    /\ Fault(pr)
    /\ open' = [open EXCEPT ![pr] = {}]
    /\ todo' = [todo EXCEPT ![pr] = Captured(pr) \ todo[pr]]
    /\ Goto(pr, "restore")
    /\ UNCHANGED <<disk, proj, found, orig, backup,
                   dirty, lost, lostLock, stuck, unlocked>>

\* A write of the overlay fails, before or after the truncation: restore all.
WriteFails(pr) ==
    /\ pc[pr] = "write" /\ todo[pr] # {}
    /\ Fault(pr)
    /\ open' = [open EXCEPT ![pr] = {}]
    /\ todo' = [todo EXCEPT ![pr] = Captured(pr)]
    /\ Goto(pr, "restore")
    /\ UNCHANGED <<disk, proj, found, orig, backup,
                   dirty, lost, lostLock, stuck, unlocked>>

\* Mutant: Cargo is started once the root manifest is rewritten.
StartCargoEarly(pr) ==
    /\ pc[pr] = "write" /\ open[pr] = {} /\ Root[proj[pr]] \notin todo[pr]
    /\ Goto(pr, "run")
    /\ UNCHANGED <<disk, proj, found, todo, open, orig, backup, failed, ghost>>

\* Every overlay is in place: Cargo is started.
StartCargo(pr) ==
    /\ pc[pr] = "write" /\ todo[pr] = {}
    /\ Goto(pr, "run")
    /\ UNCHANGED <<disk, proj, found, todo, open, orig, backup, failed, ghost>>

\* Cargo ends.  A build-set child that succeeded publishes its Cargo.lock.
CargoEnds(pr) ==
    /\ pc[pr] = "run"
    /\ CargoResolves(pr)
    /\ \E ok \in BOOLEAN :
         /\ failed' = [failed EXCEPT ![pr] = ~ok]
         /\ Goto(pr, IF ok /\ Session[pr] # NoSet THEN "publish" ELSE "restore")
    /\ todo' = [todo EXCEPT ![pr] = Captured(pr)]
    /\ UNCHANGED <<manifest, lockFile, sharedLock, proj, found, open, orig,
                   backup, ghost>>

\* publish_shared_cargo_lock installs the lock by renaming a temporary file.
PublishLock(pr) ==
    LET text == cargoLock[proj[pr]]
    IN /\ pc[pr] = "publish"
       /\ IF text = "absent"
          THEN /\ failed' = [failed EXCEPT ![pr] = TRUE]
               /\ UNCHANGED sharedLock
          ELSE /\ sharedLock' = [sharedLock EXCEPT ![Session[pr]] = text]
               /\ UNCHANGED failed
       /\ Goto(pr, "restore")
       /\ UNCHANGED <<manifest, cargoLock, lockFile, proj, found, todo, open,
                      orig, backup, ghost>>

PublishFails(pr) ==
    /\ pc[pr] = "publish"
    /\ Fault(pr)
    /\ Goto(pr, "restore")
    /\ UNCHANGED <<disk, proj, found, todo, open, orig, backup,
                   dirty, lost, lostLock, stuck, unlocked>>

RestoreManifest(pr, f) == pc[pr] = "restore" /\ Fill(pr, f, orig[pr][f])

\* Mutant: the error of a restoring write is dropped.
RestoreFailsSilently(pr, f) ==
    /\ pc[pr] = "restore" /\ f \in todo[pr] /\ open[pr] \subseteq {f}
    /\ faults < MaxFaults /\ faults' = faults + 1
    /\ lost' = lost \cup {f}
    /\ open' = [open EXCEPT ![pr] = {}]
    /\ todo' = [todo EXCEPT ![pr] = @ \ {f}]
    /\ UNCHANGED <<disk, pc, proj, found, orig, backup, failed,
                   dirty, lostLock, stuck, unlocked>>

\* A restoring write fails; restore_inner keeps the error and goes on.
RestoreFails(pr, f) ==
    /\ pc[pr] = "restore" /\ f \in todo[pr] /\ open[pr] \subseteq {f}
    /\ Fault(pr)
    /\ lost' = lost \cup {f}
    /\ open' = [open EXCEPT ![pr] = {}]
    /\ todo' = [todo EXCEPT ![pr] = @ \ {f}]
    /\ UNCHANGED <<disk, pc, proj, found, orig, backup, dirty, lostLock, stuck, unlocked>>

\* Mutant: a Cargo.lock that did not exist before is left behind.
RestoreExistingLock(pr) ==
    /\ pc[pr] = "restore" /\ todo[pr] = {}
    /\ cargoLock' = [cargoLock EXCEPT ![proj[pr]] =
                       IF backup[pr] = "absent" THEN @ ELSE backup[pr]]
    /\ Goto(pr, "unlock")
    /\ UNCHANGED <<manifest, lockFile, sharedLock, proj, found, todo, open,
                   orig, backup, failed, ghost>>

\* Cargo.lock gets its bytes back, or is removed if there was none.
RestoreLock(pr) ==
    /\ pc[pr] = "restore" /\ todo[pr] = {}
    /\ cargoLock' = [cargoLock EXCEPT ![proj[pr]] = backup[pr]]
    /\ Goto(pr, "unlock")
    /\ UNCHANGED <<manifest, lockFile, sharedLock, proj, found, todo, open,
                   orig, backup, failed, ghost>>

RestoreLockFails(pr) ==
    /\ pc[pr] = "restore" /\ todo[pr] = {}
    /\ Fault(pr)
    /\ \E text \in {cargoLock[proj[pr]], "torn"} :
         /\ backup[pr] = "absent" => text = cargoLock[proj[pr]]
         /\ cargoLock' = [cargoLock EXCEPT ![proj[pr]] = text]
    /\ lostLock' = lostLock \cup {proj[pr]}
    /\ Goto(pr, "unlock")
    /\ UNCHANGED <<manifest, lockFile, sharedLock, proj, found, todo, open,
                   orig, backup, dirty, lost, stuck, unlocked>>

\* The lock file is removed whatever was or was not restored.
Unlock(pr) ==
    /\ pc[pr] = "unlock"
    /\ RemoveLock(proj[pr])
    /\ Return(pr)
    /\ UNCHANGED <<manifest, cargoLock, sharedLock, failed, faults, dirty, lost, lostLock, unlocked>>

\* The lock file cannot be removed: the call reports it and the file stays.
UnlockFails(pr) ==
    /\ pc[pr] = "unlock"
    /\ Fault(pr)
    /\ LeaveLock(proj[pr])
    /\ Return(pr)
    /\ UNCHANGED <<manifest, cargoLock, sharedLock, dirty, lost, lostLock, unlocked>>

-----------------------------------------------------------------------------
(* The environment: an interrupted process, and the user's cleanup. *)

\* SIGINT or SIGKILL ends the process: Drop does not run.
Crash(pr) ==
    /\ pr \in MayCrash /\ pc[pr] \notin Returned \cup {"crashed"}
    /\ Goto(pr, "crashed")
    /\ UNCHANGED <<disk, proj, found, todo, open, orig, backup, failed, ghost>>

\* The user deletes a lock file left behind by a process that is gone.
ClearStaleLock(p) ==
    /\ \E pr \in Process :
         /\ lockFile[p] = pr
         /\ pc[pr] \in Returned \cup {"crashed"}
    /\ lockFile' = [lockFile EXCEPT ![p] = NoProcess]
    /\ stuck' = stuck \ {p}
    /\ UNCHANGED <<manifest, cargoLock, sharedLock, local,
                   faults, dirty, lost, lostLock, unlocked>>

\* One step of the call pr is in.
Step(pr) ==
    \/ ReadKernelRoot(pr) \/ ReadOtherRoot(pr) \/ ScanDone(pr) \/ Recheck(pr)
    \/ PrepareFails(pr) \/ RunBypassed(pr)
    \/ CreateLock(pr) \/ RefuseLock(pr) \/ BackupLock(pr) \/ BackupFails(pr)
    \/ InstallLock(pr) \/ InstallFails(pr) \/ WriteFails(pr) \/ StartCargo(pr)
    \/ CargoEnds(pr) \/ PublishLock(pr) \/ PublishFails(pr)
    \/ RestoreLock(pr) \/ RestoreLockFails(pr) \/ Unlock(pr) \/ UnlockFails(pr)
    \/ \E f \in Manifest :
         \/ Scan(pr, f) \/ Capture(pr, f) \/ Truncate(pr, f)
         \/ WriteOverlay(pr, f) \/ RestoreManifest(pr, f) \/ RestoreFails(pr, f)

Next ==
    \/ \E pr \in Process :
         \/ \E p \in Project : Start(pr, p)
         \/ Step(pr)
         \/ Crash(pr)
    \/ \E p \in Project : ClearStaleLock(p)

Spec == Init /\ [][Next]_vars

\* Every call goes on while the operating system runs it, and Cargo ends.
FairSpec == Spec /\ \A pr \in Process : WF_vars(Step(pr))

-----------------------------------------------------------------------------
(* Properties. *)

\* The manifests a build of p may rewrite.
Reach(p) ==
    {f \in Manifest : \A S \in SUBSET Manifest :
        (Root[p] \in S /\ \A g \in S : PathDeps[g] \subseteq S) => f \in S}

\* No build of another project rewrites f.
Private(p, f) == \A q \in Project \ {p} : f \notin Reach(q)

\* The lock file serialises the overlay of a project: never two processes of the
\* same project between the creation of the lock and its removal, whatever
\* fails, crashes or is cleaned up by hand.
MutualExclusion ==
    \A pr, qr \in Process :
        pc[pr] \in Holding /\ pc[qr] \in Holding /\ proj[pr] = proj[qr]
          => pr = qr

\* A lock file without a process behind it comes from a killed process or from
\* a removal that failed and was reported: no error path leaks it.
NoLockLeak ==
    \A p \in Project : lockFile[p] # NoProcess =>
        \/ p \in stuck
        \/ /\ proj[lockFile[p]] = p
           /\ pc[lockFile[p]] \in Holding \cup {"crashed"}

\* The holder of the lock is the process the lock file is for.
LockOwnership ==
    \A pr \in Process : pc[pr] \in Holding => lockFile[proj[pr]] = pr

\* Somebody still owes p its Cargo.lock.
OwesCargoLock(p) ==
    \E pr \in Process :
        /\ proj[pr] = p
        /\ pc[pr] \in {"write", "run", "publish", "restore", "crashed"}

\* A project's Cargo.lock is the committed one again once no call is under way,
\* unless a call was killed, the restoring write failed and was reported, or
\* Cargo ran on the early return that takes no lock.
CargoLockPreserved ==
    \A p \in Project : cargoLock[p] # CommittedLock[p] =>
        p \in lostLock \cup unlocked \/ OwesCargoLock(p)

\* pr captured f and will write it back, or was killed before it did.
OwesManifest(pr, f) ==
    /\ orig[pr][f] # "none"
    /\ \/ pc[pr] \in {"write", "run", "publish", "crashed"}
       \/ pc[pr] = "restore" /\ f \in todo[pr]

\* A manifest that does not hold its committed text has a process that will put
\* it back; otherwise a process was killed, a restoring write failed and was
\* reported, or a process took text that was not the committed one for it.
ManifestsAccounted ==
    \A f \in Manifest : manifest[f] # "source" =>
        f \in dirty \cup lost \/ \E pr \in Process : OwesManifest(pr, f)

\* The lock file, the manifests and Cargo.lock: whatever fails, is killed or
\* overlaps, and in whatever order, nothing a build changes is forgotten.  It is
\* as it was, somebody will put it back, or there is a reason on record.
AllAccounted == NoLockLeak /\ ManifestsAccounted /\ CargoLockPreserved

\* When nobody is killed and every restoring write succeeds, what a process
\* captures is the committed text.  This is a property of invocations that do
\* not overlap on a manifest: the children of one build-set, or builds of
\* projects that share no manifest.
CapturesCommitted ==
    lost = {} /\ (\A pr \in Process : pc[pr] # "crashed") => dirty = {}

\* While Cargo runs, a private manifest of the project holds the overlay that
\* the process computed, not a mixture of overlay and committed text.
PrivateOverlayStable ==
    \A pr \in Process : pc[pr] = "run" =>
        \A f \in Captured(pr) :
            Private(proj[pr], f) => manifest[f] = Overlay(pr, f)

\* A call that returns Ok has put back what it captured from the manifests no
\* other project rewrites, has put back Cargo.lock and has removed its lock.
OkMeansRestored ==
    [][\A pr \in Process :
         pc[pr] = "unlock" /\ pc'[pr] = "done" /\ ~failed'[pr] =>
           /\ lockFile'[proj[pr]] = NoProcess
           /\ proj[pr] \notin unlocked => cargoLock'[proj[pr]] = backup[pr]
           /\ \A f \in Captured(pr) :
                Private(proj[pr], f) => manifest'[f] = orig[pr][f]]_vars

\* What makes the properties above inductive.

\* The loops over captured manifests visit captured manifests, one at a time,
\* and the locals of a call are empty when there is no call.
LoopsBounded ==
    \A pr \in Process :
        /\ pc[pr] \in {"write", "restore"} => todo[pr] \subseteq Captured(pr)
        /\ pc[pr] = "publish" => todo[pr] = Captured(pr)
        /\ open[pr] # {} =>
             /\ pc[pr] \in {"write", "restore", "crashed"}
             /\ \E f \in todo[pr] : open[pr] = {f}
        /\ pc[pr] \in Returned \cup {"readRoot"} =>
             found[pr] = {} /\ todo[pr] = {} /\ Captured(pr) = {}

\* Text captured from a manifest that did not hold its committed text is dirty.
OriginalsRecorded ==
    \A pr \in Process, f \in Manifest :
        orig[pr][f] \in {"none", "source"} \/ f \in dirty

\* The Cargo.lock bytes to restore are the committed ones, or something is on
\* record that says why they are not.
BackupIsCommitted ==
    \A pr \in Process :
        pc[pr] \in {"install", "write", "run", "publish", "restore"} =>
            \/ backup[pr] = CommittedLock[proj[pr]]
            \/ proj[pr] \in lostLock \cup unlocked
            \/ \E qr \in Process : proj[qr] = proj[pr] /\ pc[qr] = "crashed"

\* A call visits and captures only manifests its project reaches.
CapturedReachable ==
    \A pr \in Process :
        /\ found[pr] \cup Captured(pr) \subseteq Reach(proj[pr])
        /\ pc[pr] = "scan" => todo[pr] \subseteq found[pr]
        /\ pc[pr] = "capture" => todo[pr] \subseteq Reach(proj[pr])

\* How far the holder of the lock is with its private manifests.
Progress(pr) ==
    \A f \in Captured(pr) : Private(proj[pr], f) =>
        /\ \/ pc[pr] \in {"run", "publish"}
           \/ pc[pr] = "write" /\ f \notin todo[pr]
           => manifest[f] = Overlay(pr, f)
        /\ \/ pc[pr] = "unlock"
           \/ pc[pr] = "restore" /\ f \notin todo[pr]
           => manifest[f] = orig[pr][f] \/ failed[pr]

PrivateProgress == \A pr \in Process : Progress(pr)

\* Cargo.lock between its restoration and the removal of the lock file.
LockRestored ==
    \A pr \in Process : pc[pr] = "unlock" =>
        \/ failed[pr] \/ proj[pr] \in unlocked
        \/ cargoLock[proj[pr]] = backup[pr]

\* The inductive invariant.
IInv ==
    /\ TypeOK /\ LockOwnership /\ NoLockLeak
    /\ LoopsBounded /\ OriginalsRecorded /\ ManifestsAccounted
    /\ BackupIsCommitted /\ CargoLockPreserved
    /\ CapturedReachable /\ PrivateProgress /\ LockRestored

\* Every module of a build-set that takes the lock starts Cargo from the lock
\* the modules before it resolved.
SharedLockReused ==
    \A pr \in Process : pc[pr] = "write" /\ Session[pr] # NoSet =>
        \/ sharedLock[Session[pr]] = "absent"
        \/ cargoLock[proj[pr]] = sharedLock[Session[pr]]

\* The children of a build-set: none takes another's overlay for the committed
\* text, and each hands the Cargo.lock it has resolved on to those after it.
SetHandsOn == CapturesCommitted /\ SharedLockReused

\* Every call returns, with or without an error, unless it is killed: the walk
\* over path dependencies ends even when they are cyclic, and so do the loops
\* that write and restore.
CallsReturn ==
    \A pr \in Process :
        pc[pr] \notin Returned ~> pc[pr] \in Returned \cup {"crashed"}

\* project.rs:741-744: the committed bytes come back when Cargo is done.
OriginalBytesRestored ==
    (\A pr \in Process : pc[pr] \in Returned) =>
        \A f \in Manifest : manifest[f] = "source"
=============================================================================
