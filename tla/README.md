# A TLA+ verification of cargo-elm

`cargo-elm` is the host tool of an operating system whose kernel modules are
called ELM modules. It creates module projects, keeps them in step with the
kernel's exported interfaces, builds them with Cargo against a metadata facade
of the kernel crates, packs, signs and bundles the result, and builds whole sets
of modules. This directory holds TLA+ models of it, the TLC runs that check
them, and TLAPS proofs. Paths are relative to the repository root; the Rust
files are `src/*.rs` there.

## 1. Inventory

The tool is a single-threaded program, but many copies of it run on the same
files: an editor's `check` beside a `build`, the children of one `build-set`,
builds of several modules of one kernel checkout. Its state is the file system.
No file changes together with another, a process can be killed between any two
changes, and `fs::write` truncates before it fills. What is hard in it is
therefore the order of file operations, what other processes do in between, and
what an error path or a kill leaves behind.

| Component | Where | State it keeps | Operations | What is hard, and what makes it correct |
|---|---|---|---|---|
| Manifest overlay | `project.rs` 505-958, 1777-1825 | every `Cargo.toml` a project reaches, its `Cargo.lock`, `.elm/.cargo-elm-manifest.lock`, a build-set's shared `Cargo.lock` | `with_framework_manifest`, `FrameworkManifestGuard` and its `Drop` | Text is captured before the lock is taken; every write may fail, every process may be killed. Committed text must come back, the lock must exclude and not leak, Cargo must see one overlay. |
| Module order | `build_set.rs` 420-457 | a vector of pending modules | `topological_order` | The vector is changed while it is indexed. Dependencies first, nothing lost, cycles found and only cycles. |
| Archive deduplication | `build_set.rs` 704-813 | the archives of the integrated modules | `deduplicate_integrated_archive_objects` | Archives are rewritten one by one. No object lost at any moment, each linked once at the end. |
| Module set build | `build_set.rs` 50-218 | the output directory: images, `.apis`, `modules.manifest`, `integrated.archives` | `build_set` | A chain of children, each relying on what earlier ones published; runs that stop half way. Dependencies are ready, the lists appear last and are true. |
| Module configuration | `build_set.rs` 220-700 | the `.config` file | `configure_set`, `parse_config`, `resolve_modes`, `validate_modes` | What one command writes another reads, after edits, on another target. |
| Interface cache | `project.rs` 425-500, 1830-2340 | per target link, identities, `.elm/framework`, `.elm/kernel-source`, `.cargo/config.toml`, `Elm.lock` | `sync_framework`, `activate_kernel_interface`, the search for repositories | Six places that must agree and change one at a time; the search depends on what the command has just installed. |
| API snapshots | `project.rs` 962-1160 | `<repository>/<provider>/<crate>`, `.elm/api` | `publish_project_api`, `sync_dependency_apis` | Copied, validated and exchanged file by file without a lock; validated and then read again. A place holds a whole snapshot or a visible remainder of one; what is installed was published; somebody succeeds. |
| Build and check of one project | `main.rs` 433-800, `project.rs` 1200-1520, 2133-2300 | `dist/`, Cargo's target directory, the link to the active interface | `cmd_build`, `build_integrated_profiles`, `cmd_check`, `activate_kernel_interface` | The interface is handed from step to step through one link, which every command sets; stale artifacts; the choice of rlibs by their times. What is in `dist` was made for what its name and stamp say. |
| Kernel interface manifest | `kernel_interface.rs` 131-366, 1252- | `manifest.txt` of a package | `load`, `validate`, `encode`, `kernel_api_profile_hash` | What is written must be what is accepted; hashes cover what they claim. |
| Kernel interface export | `kernel_interface.rs` 467-564, 1978-2420 | an interface package | `export_kernel_interface`, `exact_kernel_api_rlibs`, `exact_dependency_rlibs`, `copy_framework` | The same sources and target directory are read several times while Cargo and editors change them; a package is replaced while it is used. Rlibs of exactly one kernel build; a manifest only beside a whole package. |
| Link names of the interface | `kernel_interface.rs` 236-377, 1462-1830 | the import and support libraries | `populate_link_aliases`, `validate`, `build_rust_support_library`, `build_import_library`, `symbol_by_link_name` | Exports are tied to mangled names by their beginning; many rlibs define one compiler symbol. A name leads to one export and back. |
| EKI packing, signing, bundling, verification | `main.rs` 894-1310, 1366-1669 | image files | `pack_elf_project`, `cmd_pack_metadata`, `cmd_hash`, `sign_eki_image`, `cmd_verify`, `cmd_bundle`, `write_variant_bundle` | Digests over an image with zeroed ranges, files changed between commands. What is signed is what is verified; a bundle gives a kernel the image meant for it. |
| ELF layout and relocations | `main.rs` 1053-1082, 1669-2157, 2422-2476, 2614-2963 | none | `ElfImage`, `validate_runtime_layout`, `validate_native_symbols`, `resolve_kernel_mixins`, `dynamic_runtime_relocations`, `native_relocations_block` | Addresses become segment numbers and offsets, names of imports become numbers, while segments and imports are still being sorted, dropped and added. |
| Wire types of a language bridge | `language_package.rs` 938-1306, 1473-1660 | `LanguageBridge.toml` and the generated codecs | `validate_type_graph`, `visit_type`, `render_type_validator` | Types refer forwards; layouts must not overflow; recursion must be found; codecs must read every byte once. |
| Operations of a language bridge | `language_package.rs` 678-936, 1308-1470 | the interface schema, operation identifiers | `build_schema`, `validate_operations`, `register_operation_id` | Collisions, what fingerprints cover. An identifier changes exactly when the call or a layout does. |
| Language package check | `language_package.rs` 149-460, 1719-2400 | a package directory, a trust file | `check_language_package_with_trust`, `validate_interface_schema` | Files with digests of one another, generated, edited and checked at different times. What is accepted belongs together; what the documented steps make is accepted. |
| Native metadata | `rust_metadata.rs` | a section of an ELF file | `NativeMetadata::parse`, `validate_and_sort`, `retain_linked_kernel_symbol_imports` | Lists that name one another; duplicates are looked for between neighbours after sorting. |
| Disassembler front end | `disasm.rs` 526-751 | one temporary file | `disasm`, `build_image_view`, `add_descriptor_function_symbols` | An image has no addresses: they are computed again, and labels inferred from relocations. |
| Output, options, scaffold, migration, doctor | `ui.rs`, `main.rs`, `project.rs` | none or one file each | | Formatting and pure I/O. |

How they interact: `build-set` starts one child `cargo-elm build` per module;
each child activates an interface (cache), copies the APIs of its dependencies
(API snapshots), runs Cargo under the overlay, packs the result into `dist`, and
`build-set` publishes its API, copies the artifact, and at the end deduplicates
the archives and writes the lists. Children of one set share one framework and
one `Cargo.lock`. Projects share the manifests of library crates in the kernel
checkout, the API repository and the exported interface packages.

## 2. Modules

| Module | Models | Its state | Its actions |
|---|---|---|---|
| `FrameworkManifest` | the overlay, `with_framework_manifest` to the end of `Drop` | each manifest's text (`source`, `torn` between truncation and fill, `bare`/`wrapped` with the workspace tables, or an overlay), each `Cargo.lock`, each lock file's owner, the shared lock, and per process the locals of the function | `Start`, `ReadKernelRoot`/`ReadOtherRoot`, `Scan`, `Capture`, `Recheck`, `CreateLock`/`RefuseLock`, `BackupLock`, `InstallLock`, `Truncate`+`WriteOverlay`, `StartCargo`, `CargoEnds`, `PublishLock`, `Truncate`+`RestoreManifest`, `RestoreLock`, `Unlock`, a failing variant of each, `RunBypassed`, `Crash`, `ClearStaleLock` |
| `ModuleOrder` | `topological_order` | the pending vector as what is kept of this sweep and what is left of it, the output | `Emit`, `Skip`, `SweepAgain`, `FindCycle`, `Finish` |
| `ArchiveDedup` | `deduplicate_integrated_archive_objects` | the archives as sets of named bodies, the bodies seen | `MakeTemporary`, `Scan`, `Rebuild`, `Refuse`, `Install`, `ScanEnds`, `Cleanup`, failures, kills |
| `BuildSet` | `build_set`; composes `ModuleOrder` and `ArchiveDedup` by INSTANCE: their steps are its steps `Sort` and `Deduplicate` | the output directory, each file `none`, `old` (an earlier run), `new` or `torn`; each project's artifact | one action per stage, `StopInClean` and `StopElsewhere` for errors and kills |
| `ModuleConfig` | `configure_set`, and `build_set` up to its validation | the lines of `.config`, the set as it is now | `Configure`, `ConfigureRefused`, `Build`, `Edit` |
| `InterfaceCache` | sync, check and build of one project, and the packages it finds | links, identities, framework, sources, Cargo configuration, lock file, packages by commit and those whose manifest does not load, the directory the command searches | one action per replacement in `sync_framework`, `copy_target_interface` and `activate_kernel_interface`; in `ChooseFramework`, `NextTarget`, `Configure` and `WriteLock` a failing lookup leaves its target out (`Skipped`) as the code does, and elsewhere it ends the command; `Fail`, `Kill`, and between commands `Commit`, `Export`, `Edit`, `Forget` |
| `WireTypes`, `WireCodecs` | `validate_type_graph` and `visit_type`; the spans of the generated codecs | the list of types, the place in it, the calls of `visit_type` | `CheckType`, `RefuseType`, `Panic`, `VisitRoot`, `VisitChild`, `SkipVisited`, `MeetCycle`, `Return`, `Accept` |
| `ApiSnapshots` | `publish_project_api`, `sync_dependency_apis`, `validate_api_snapshot`, `copy_api_tree`, `remove_if_exists` | directories and what each holds, file by file; which directory is in each place of the repository and of the projects; per process its place in the calls | `Load`, `List`, `CopyFile`, `ReadFile`, `Seal`, `ReadRecord`, `Accept`, `Look`, `Open`, `Unlink`, `RemoveDirectory`, `Rename`: one per file system call; refusals, `EditFile`, `EditContract`, `Kill` |
| `LanguagePackage` | `generate_interface_schema` and `check_language_package_with_trust`, with what they call | the kernel, the files of a package, the locals of the two commands | `GenerateInterface`, `GeneratePackage`, `GenerateBridge`, `GenerateWrite`; `CheckPackage`, `CheckInterface`, `CheckBridge`, `CheckEki`, `CheckArtifact`: one per file read; seven steps of a developer |
| `DependencyClosure` | `exact_dependency_rlibs` over Cargo's target directory | each unit's marker, rlib and JSON file; what is still to be looked for, what was, what is taken | `VisitAgain`, `VisitFails`, `VisitNone`, `VisitTake`, `EndWalk`; `CargoWrites`, which may change any unit at any time |
| `KernelExport` | `export_kernel_interface`; EXTENDS `DependencyClosure`, whose walk is its step `Walk`, and adds the Cargo that writes that directory | sources, framework, the linked kernel and its copies, Cargo's build, the exporter's step and what it has read, the packages by directory | 20 steps of an export from `ReadKernel` to `Rename`, one per reading or writing; Cargo's (`CargoEmptiesMarker`, `CargoCompiles`, `CargoLinks`, `CargoStops`), `Edit`, `Stop`; `ReadPackages` and `TakeFramework` of a project |
| `KernelSymbols` | the names of the two link libraries, from the listings of `nm` to the packing of a module | exported symbols, rlibs as lists of objects, the loop's place, the names found so far | `AddAlias`, `Validate`, `TakeObject`, `NextRlib`, `LinkSupport`, `BuildImportLibrary`, packing |
| `ProjectBuild` | `cmd_build` in its three modes, `cmd_check`, `activate_kernel_interface`, `cargo_build`, `cargo_build_integrated` | packages, links, what Cargo last made per target (`binary`, `library`; of the API crate the rlib compiled last, `newest`, and those Cargo would not compile again, `fresh`), `dist`, per process its place in the loops over targets and interfaces, with the package roots it was given | `BeginBuild`, `BeginCheck`, `Sweep`, `Sync`, `NextTarget`, `Unlink`, `Link`, `Snapshot`, `Prepare`, `Load`, `Cargo`, `Pack`, `Take`, `Write`, `Archive`, `RenameArchive`, `Stop`; `RemovePackage`, `InstallPackage` |
| `EkiImage` | packing, hashing, signing, verifying and bundling | image files as sequences of blocks, who signed what (history) | `PackElf`, `PackMetadata`, `Rehash`, `Sign`, `WriteBundle`, `ChangeFile` |
| `NativeMetadata`, `NativeImage` | the middle of `pack_elf_project`, from an ELF file to the numbered parts of an image, and what the disassembler makes of the image | the segments, the lists of the metadata, the relocations and the loop's place, the image, the listing | `ReadElf`, `CheckLayout`, `ReadMetadata`, `RetainLinked`, `CheckSymbols`, `RelocateRelative`, `RelocateImport`, `RefuseEntry`, `RelocateSlots`, `WriteImage`, `Show` |

`MC*` modules give the constants for TLC, `*Proofs` modules hold the theorems.
Three of them put parts side by side that have nothing to do with one another:
`MCSmallParts`, `MCPublished` and `MCProjectBuild`. The initial state chooses the
part that moves, and the others stay idle, so that such a run is the union of the
runs of its parts and not their product.
Definitions whose comment begins with "Mutant" are not part of a specification:
each is a plausible bug in the definition after it, and the property it is
listed with in `PROJECT.json` is violated when it takes that definition's place.

Abstractions that hold everywhere: a text, hash or name is a value that is only
compared; hashes are injective (`InterfaceCache.Hash`); formatting and messages
are left out. Tools print what their listings say or fail. A write of a file is two steps where another process can read in
between (`FrameworkManifest`, the schema in `LanguagePackage`) and one step where
only the same process reads it.

## 3. What the runs check

Deadlock is not checked in any run: commands return, and killed processes stop.

**`overlay`** (`Overlay.cfg`): two processes of one project, whose root manifest
and library are in a path cycle; one failing file operation; one of the two may
be killed, and a stale lock may be deleted by hand. Every interleaving of the two
is explored. It checks that the lock excludes (`MutualExclusion`); that a lock
file is not leaked by an error path and a manifest or `Cargo.lock` which is not
the committed one has a process that will restore it or a recorded reason
(`AllAccounted`, the conjunction of `NoLockLeak`, `ManifestsAccounted` and
`CargoLockPreserved`); that Cargo runs on its own overlay
(`PrivateOverlayStable`); and that Ok means restored (`OkMeansRestored`). The
"recorded reasons" are history variables (`dirty`, `lost`, `lostLock`, `stuck`,
`unlocked`): a kill, a failed and reported restoring write, or text that was
captured while another process had changed it. A second reading of the root manifest
that fails (`Recheck`) runs Cargo without the lock, as the code does.

**`overlay_set`**: the two children of a build-set on three projects, two of
which share a library (`virtio`) that is in a cycle with another one; children
run one after another, as `build_set` starts them. What they capture is the
committed text and each starts from the lock its predecessors resolved
(`SetHandsOn`: `CapturesCommitted` and `SharedLockReused`), and every call
returns (`CallsReturn`).

**`overlap_same_project`** finds a counterexample to "the committed bytes come
back", see the findings.

**`small_parts`** (`MCSmallParts`): six parts that run on their own.

- Order: every order of up to three modules, every dependency graph,
  dependencies on unknown modules and on oneself. Three modules are enough for a
  removal in the middle of the vector, for a second sweep that makes progress and
  for cycles of every length a larger vector reduces to; the theorems hold for
  any number. `DependenciesFirst`; `OutcomeIsRight` (no module lost or emitted
  twice, a cycle reported just when there is one); `OrderEnds`.
- Archives: every sequence of up to three archives over two member names and
  three bodies, with a failure or kill anywhere. Three archives give a first
  owner, a middle one that becomes empty and a last one. `EachObjectOnce`, the
  conjunction of `LinkedOnce` and `FirstOwnerKeeps`.
- Configuration: four commands and edits over seven sets and the files a user
  may put in place. Four allow configure, edit, configure again, build.
  `ConfiguredBuilds`.
- Wire types: four types: two integers, any array or struct of up to two fields
  over small sizes, offsets, lengths and strides, and one of thirteen types that
  can be its element, contain it, repeat its name or be invalid; references go
  forwards and backwards. The bound of unsigned integers is 16, so that products
  and sums overflow. `CyclesFound`, the conjunction of `AcceptedEnds` and
  `RecursionIsReal`, defines a cycle as a set of types each of which has a part in
  the set, independently of the search.
  `EveryByteOnce` runs the generated codecs over the layout: the spans they
  decode or compare with zero follow one another without a gap from 0 to the size.
- Link names: ten lists of exports of two functions, one of them nested in the
  other's path, and a method, whose hashes may clash and which may be listed
  twice; three tables of public ABIs; all pairs of rlibs of three objects of
  seven kinds, in which names of `core` and `alloc` and of the exports repeat. Of a
  mangled name the model has the crate and the path, and what of `v0_symbol_crate`'s
  search comes before them: the order of the letters `C` and underscores in front of the
  crate root (`lead`), on which it depends whether the search finds the crate (`Misread`).
  `NamesLeadHome`: a name of the import library is the name of one export, and a
  module that refers to it imports that one or is refused.
  `SupportIsCompilers`: the support library has nothing but symbols of `core` and
  `alloc`, each once, and all those with no underscore before their crate root; what
  happens to the others is described with the findings.
- ELF files: a descriptor, code and data in three layouts that are accepted and
  five that are not, with the program headers in three orders; up to four dynamic
  relocations out of relative ones, references to kernel symbols, unaligned,
  misplaced, unknown and repeated ones; eighteen metadata sections with imports
  that are linked, not linked, unsorted and repeated. Three segments are enough
  for every order of numbers, and two imports besides the root for a sort, a drop
  and an addition to shift one another. `AddressesKept` goes the whole way round:
  from addresses to segments and offsets, and by the disassembler's own layout back
  to the addresses of the file, for locations, relocations, code and inferred
  labels. `ReferencesKept` compares the final numbers of imports with what the
  places in the file asked for.

**`build`**: two runs one after another, each of any of six sets (good, one with
an inactive module, one that needs it, a cyclic one, one that uses an API it does
not declare, one with a wrong name) in all 27 configurations, each run stopping
at any step. Two runs are what `OutputNotMixed` and `DoneIsComplete` are about:
files of the earlier run. `DependenciesReady`: a module is built after what it
needs, in its mode, with the APIs published.

**`cache`**: two commands on two targets, one with two profiles (three packages in
all), while packages are exported from two kernel commits or disappear, and
`Elm.toml` changes between the commands. A command searches the links of the project
it is run in, once one leads to a package, else the kernel's directory; or what the
environment names (`ELM_KERNEL_INTERFACE_ROOT`), a package itself or a directory with
one. One thing goes wrong: an operation fails, the command is killed, one lookup fails
and is skipped (`missed`), or a package is left whose manifest does not load
(`outdated`), which the loops over targets skip again and again. Two
commands show what an interrupted one leaves to the next; two commits make a
mixture of packages possible. `CargoSeesOneInterface`: when Cargo runs, link,
identities, sources and configuration are of one interface, and, unless a lookup of its
target was skipped, so are the framework and the lock file. `SyncCoherent`: after a sync
that ends well the same holds of every target that packages are found of and no lookup
was skipped of. It says nothing of a target that was skipped, whose stale link stays:
that is finding 3. `BackupsRestored`: what was renamed to a backup comes back.

**`published`** (`MCPublished`), its first part: two publications of one crate
and a sync, every file system call
of each a step among those of the others, from a repository and a project that
may hold earlier snapshots. The sync's dependency list is empty, or the crate
twice (refused), or another crate and this one; the sources are edited once, so
the two publications may differ and one may be torn; one process is killed
anywhere, and its half-removed directory stays. Publishers are symmetric. A
directory that is being removed is reached through a handle, as
`std::fs::remove_dir_all` does on Linux: the removal goes on in a directory that
was renamed meanwhile. `WholeOrRemoved`: what stands in a place is all of what a
process made, or something a removal has begun on. `InstalledWasPublished`: a
project has what was published under its contract, unless the crate's place
changed between validation and the end of the copy. `SomeoneInstalls`: processes
that exchange one place may make one another fail, but not all. A variant with
two syncs and one publication was checked as well.

Its second part: a language package that was built, entered and signed by the
first of two keys, for one or two targets; three bridges (one moves a field of an
inner type and has names that collide in C, one has an operation that only the
second kernel offers) and two kernels, the second of which changes one API and drops another. The developer takes any two steps (a new kernel,
bridge or manifest, a rebuild, the digests of artifacts, bridge or schema
entered), the schema is generated once and the package checked once, all of these
interleaved file by file. Two steps and a generation suffice to make any one part
stale and to enter the digests that hide it. `AcceptedIsConsistent`: whatever was
edited while the check read, what it accepted is one manifest, bridge, schema and
set of images of one interface, signed by the trusted key. `ReleasableIsAccepted`:
a package made by the documented steps is accepted, so entering a digest does not
invalidate another. `SameIdSameLayout`: identifiers of an old schema and of the
bridge as it is are equal just when call and layouts are, to the innermost field.

**`export`** (`MCKernelExport`): two exports, and any three of an edit of the
kernel's sources or of the framework, one more build in either of two
configurations (which may be interrupted), a kill of the export, and a project
that takes its framework from the packages. The crates are a chain of two API
crates and one below, and a procedural macro. The second configuration has a unit
of its own for the first crate, another fingerprint in the same unit for the
next, and shares the last: the three ways in which units of two builds lie in one
directory. The second export may run in a process with the number of the first.
`ClosureExact`: the walk takes the closure of the kernel's dependencies and no
other unit. `PackageWhole`: a directory with a manifest has all its parts, from
the export that wrote the manifest. `PackageIsKernels`: exported while Cargo was
quiet, a package has the rlibs its kernel was linked from. `FrameworkAsClaimed`:
a project does not get a framework that changed between hash and copy.

**`project_build`** (`MCProjectBuild`): three builds and checks in any mode, of a
target with two interfaces, or of it and one with two kernels of the same interface
(three turns of the loop over targets in all), with one disturbance: two
commands at once, a package that is exported again, or a kill. The processes are
symmetric. One command is needed to leave something behind and one to trip over
it; the third is there for what an interrupted second one leaves.
`ImageAsRecorded` and `ArchiveAsNamed`: the interface recorded for an image, the
one it was compiled with, the one its compiler saw and the one it is stamped for
are one, unless another command set the link or the package was replaced
meanwhile, cases the history variables `alone` and `calm` record. `DistIsLatest`:
what is in `dist` for a target was made by the last build that selected the
target. `ArchiveOwnApi`: the API crate in an integrated archive is the one compiled with
the module, although it is chosen by its time. This holds because every build begins with
`sync_framework`, which writes `.elm/framework` and `.elm/dependencies` anew (`Sync` empties
`fresh`), so that Cargo compiles an API crate that depends on something there once per
interface; `ApiFollowsElm` says that it does, and that the build had the project to
itself is the history variable `solo`. Its second part: any five packings, hashings, signings and changes of
two image files, two keys, or four and a bundle of one or two of them: five allow
pack, sign, a change (a proof copied, or made out to another key), hash, sign. `SigningWorks`: an image that can be
read can be signed again and then verifies. `VerifiedWasSigned`: what verifies
was signed by the key it names, as it is. `BundleSelects`: a kernel gets the
image that was given for its profile.

**`export_interrupted`**, **`cache_first_sync`** and **`cache_mixture`** find
counterexamples, see the findings.

Fairness. The ordering in `small_parts` is a loop of one process: weak fairness
of its next step (`OrderNext`) says that the process is scheduled.
`overlay_set` assumes it of each process's own steps and not of kills, stale-lock
removal or the start of a call. The code does not wait
for anything: a lock that is taken is refused, not awaited, so nothing stronger
is needed and no starvation can arise.

## 4. Findings

Runs that end in a counterexample, with the documented promise each contradicts:

1. `overlap_same_project`: two invocations of one project. The second one reads
   `Cargo.toml` before it takes the lock (`project.rs:811-843`, lock at 858),
   while the first is between truncation and fill; it takes the lock later and
   "restores" what it read. The comment at 856-857 says the lock prevents this.
2. `cache_first_sync`: `sync .` in a fresh clone with `HITOSHIZUKU_KERNEL_ROOT`
   installs one target: with the first link in place the search for the other
   targets stops at the project's own cache (`project.rs:1957-1960`).
3. `cache_mixture`: a lookup of packages that fails is skipped with its target when the
   framework is chosen and when the targets are installed (`project.rs:1850`, 2189). With
   one manifest that does not load, a sync takes the framework from packages of a
   later commit, keeps the link of the skipped target and returns Ok, where
   `README.md:65` says that packages of different commits are refused. Without such a
   manifest (`MaxFaults = 0`) the property holds on the same bounds.
4. `export_interrupted`: Cargo empties the marker of a unit before it compiles it,
   so a crate whose compilation was interrupted has an empty marker, and
   `exact_dependency_rlibs` goes on without it. The comment at
   `kernel_interface.rs:2317` says that only build scripts and procedural macros
   take this way. The package lacks the crate and all that only it depends on.

Observed while modelling, of the same kind and without a run of their own:

- Projects that share a library manifest take different locks
  (`project.rs:818`). Two builds at once can each capture the other's overlay of
  that manifest; `ManifestsAccounted` therefore lists `dirty` manifests, and
  `PrivateOverlayStable` and `OkMeansRestored` speak of manifests that no other
  project rewrites.
- The decision that nothing has to be rewritten is made before the lock
  (`project.rs:844`): while another invocation has the overlay in place it finds
  no kernel paths, runs Cargo without a lock and may change `Cargo.lock`
  (`unlocked`).
- A kill leaves the overlay in the manifests, and the next invocation that is
  allowed in takes it for the committed text.
- A `sync` in a project whose link is in place does not see a profile the kernel
  exported later, for the reason of finding 2.
- `build-set` looks the interface up after it has emptied the output directory
  (`build_set.rs:85`): a missing interface costs the previous build.
- Two modules of a set may have one key: `configure-set` then writes the key twice
  and `build-set` refuses the file.
- A type with `align = 0` that is the element or a field of a type whose name
  sorts before its own is divided by before it is checked
  (`language_package.rs:1107`, 1153): the command panics, where
  `LANGUAGE-PACKAGE.md:112` lets one expect a message. This is the outcome
  `panic` of `WireTypes`.
- `validate_and_sort` looks for duplicates between neighbours, by other fields than
  it sorted by: imports are sorted by name, contract and slot and compared by name,
  contract and versions (`rust_metadata.rs:435-446`), handlers of kernel Mixins are
  sorted by target, selector and priority and compared by symbol (509-518). Two
  that agree go unnoticed when another one is sorted between them. `NoRepeats` is
  the check as it is.
- A dependency's snapshot is validated and then copied, passing over files that
  have gone (`project.rs:1029`, 1105-1118): a publication in between leaves a
  project with a part of it, without an error. `InstalledWasPublished` therefore
  has an exception for places that changed (`disturbed`).
- The commands that generate a schema do not run `validate_generated_namespaces`:
  a bridge whose names collide in C is generated from and then refused by
  package-check. `Releasable` therefore asks for names that differ.
- package-check has nothing to say of `interface.descriptor.json`, `interface.h`
  and the Rust code generated beside the schema. That an operation's capability is
  one the package requests it does not look at either; only the generator does.
- An export that dies while it writes a manifest leaves half of one beside the
  package, until it is removed by hand or by an export with the same process number
  (`project.rs:2004-2011`). A build of the target refuses; a sync passes over the target
  without a word (1850, 1197, 2189), as in finding 3. A whole one that was left is offered
  like any other; a link to it dangles once it is cleaned up.
- `v0_symbol_crate` takes the first `C` of a mangled name for its crate
  root and the first underscore after it for the end of the disambiguator
  (`kernel_interface.rs:1846`). Where both are of the disambiguator of an impl block, as in
  `_RNvMsC_NtCs1_5alloc3vec4push`, a symbol of `core` or `alloc` is taken for one of no
  crate, made local, and missing from the support library, although the comment at
  1835-1837 says that v0 names are handled. `Misread` is the search as it is, and the rlibs
  of `small_parts` have such a name (`Push`).
- `newest_rlib_for_crate` (`project.rs:1499`) chooses the rlib of an API crate by its time
  among those of all interfaces and modes. An API crate of the project's own that depends
  on nothing below `.elm` is not compiled again by an unchanged second build, so an archive
  can get the one that was compiled for another interface. With
  `ApiFollowsElm = FALSE` the conclusion of `ArchiveOwnApi` is violated by two builds in the
  model. It needs a Cargo that puts RUSTFLAGS into file names, as it does since 1.85.
- The kernel's unit is looked up twice (`active_kernel_unit_manifest`), for the
  API crates and for the walk: with a build in between the package mixes two.
  A package of an older copy of the kernel has whatever rlibs the units it shares
  with later builds have now. `PackageIsKernels` therefore asks for quiet and for
  the kernel linked last.
- Two commands of one project set the same link (`project.rs:2133`): a check by an
  editor changes what a build compiles against or is stamped for. `ImageAsRecorded`
  has the exception `alone` for it.
- `cmd_bundle` does not compare an image's stamped profile with the manifest given
  for it, and the check of `write_variant_bundle` on its own result does not
  compare which image is selected.
- `symbol_by_link_name` compares a legacy name by the path it begins with and
  nothing after it: a name whose path goes on beyond another exported path
  resolves to nothing, and the closure of an exported function would count as the
  function. No such name is in the import library.
- Aliases and link names are not covered by the profile hash.

## 5. What is proved

All theorems are about every value of the constants that satisfies the named
assumptions of the module: `ConstantsAssumption` of the overlay,
`DedupAssumption`, `TypesAssumption` of the type graph, `ClosureAssumption` of the
target directory, `ExportAssumption` of the kernel and its configurations,
`SetsAssumption` of the module sets, `ConfigAssumption` of sets and files,
`CacheAssumption` of targets and profiles, `SnapshotsAssumption` of crates and
processes, `PackageAssumption` of package manifests and bridges, `SymbolAssumption` of symbols
and hashes, `NativeAssumption` of ELF files and metadata, `BuildAssumption` of a
project and `ImageAssumption` of images. They
give shapes (a list is a list, `none` is not a target) and what the code has
checked before; TLC evaluates each of them on the instances it checks. The
inductive invariants were TLC invariants before they were proved.

| Module | Proves about |
|---|---|
| `FrameworkManifestProofs` | `FrameworkManifest` |
| `BuildPartsProofs` | `ModuleOrder`, `ArchiveDedup` |
| `BuildSetProofs` | `BuildSet`, with the two parts inside |
| `SmallPartsProofs` | `WireTypes`, `WireCodecs`, `ModuleConfig`, `KernelSymbols`, `NativeImage` |
| `KernelExportProofs` | `DependencyClosure`, `KernelExport` |
| `ProjectBuildProofs` | `ProjectBuild`, `EkiImage` |
| `InterfaceCacheProofs` | `InterfaceCache` |
| `PublishedProofs` | `ApiSnapshots`, `LanguagePackage` |

**The overlay** (any sets of processes, projects, manifests and
sessions, any number of failures and kills). None of the safety properties is
inductive: that a manifest is accounted for depends on where the loops of its
owner are, that an owner is alone depends on who holds the lock, and that the
restored `Cargo.lock` is the committed one depends on what was backed up. `IInv`
adds `LockOwnership` (a process past the creation of the lock owns the lock file),
`LoopsBounded` (what the write and restore loops still have to do is captured and
at most one file is open), `OriginalsRecorded`, `BackupIsCommitted`,
`CapturedReachable`, `PrivateProgress` (which private manifests hold the overlay
and which the original at each place of the loops) and `LockRestored`. The proof
has one lemma per action; `MutualExclusion`, `NoLockLeak`, `ManifestsAccounted`,
`CargoLockPreserved` and `PrivateOverlayStable` follow from `IInv` (the three in
the middle together are `AllAccounted`), and `OkMeansRestored` from `IInv` and the
only step that returns. `SetHandsOn` is a theorem under one hypothesis, that all
processes belong to one build-set, as in `overlay_set`: then a call starts
only when the earlier ones have returned (`OneAtATime`), and what a call that failed
or was killed leaves behind is recorded.

**Order**: `OrderInv` says that the kept part, the rest and the
output share the modules among them without repetition, that what a sweep
without progress has passed over still waits, and what the verdicts imply.
`CycleIsReal` follows: when a sweep ends without progress the modules that are
left form the cycle. `CycleIsFound` is the least-index argument: the module of
the cycle that was emitted first needs one that was emitted before it. `OutcomeIsRight` is the
conjunction. The lemmas `OrderBegins` and `OrderStepKeeps` say the same of a
single step, for a module that takes the sweeps as a part of its own.

**Archives**: `DedupInv` says that before `index` each archive holds
what the archives before it do not (`IsShare`), and from `index` on what was
built. `NoObjectLost`, `FirstOwnerKeeps` and `LinkedOnce` follow, and the
conjunction of the last two, `EachObjectOnce`. `DedupBegins` and
`DedupStepKeeps` are its lemmas for composition.

**The build of a set** is about the composition: any sets and configurations, any
number of runs on one output directory, each of which may stop at any step. The
theorems of the two parts speak of their own specifications; here their lemmas
are taken by INSTANCE, so that `OrderInv` and `DedupInv` hold at every state of a
run in which the part has begun (`InOrder`, `Deduplicating`). `BuildInv` adds what
the loop over the ordered modules has done at each place: the images and archives
of the modules before `place`, each of this run (`BuiltSoFar`), what is known of
the module at `place` in each stage (`AtPlace`), and that no list is there before
the last stage (`ListsLast`). The list that is sorted comes from a loop of its own
in `active_modules`, modelled as a recursive function; that its result is the
active modules, each once and in file order, is `ActiveIsList`, proved by taking
the least turn of the loop at which it would fail. `DependenciesReady` then is
`DependenciesFirst` at `place`; `DoneIsComplete` needs that each archive is the
one of the module with its number (`NumberIsPlace`), and the two results of the
deduplication; `OutputNotMixed` is part of the invariant, since a run may stop in
the middle of emptying the directory.

**Configuration**: `ConfigInv` ties the file to the set it was written for
(`WrittenInv`: the answers are valid for it on every target) and a verdict of
`build_set` to the set and the file that are there (`JudgedInv`). The theorem is
for sets of any size whose names are listed once, which `parse_module_set` checks.

**Types**: `GraphInv` is the invariant of depth-first search: the
types checked so far name types of the file (`Checked`); the children of a
finished type were finished before it (`VisitedClosed`); each call in progress is
for the child its caller went to last (`StackIsPath`); the children before the
next one are finished or being visited (`ChildrenDone`). `AcceptedEnds` is again
the least index; for `RecursionIsReal` the witness is the part of the stack from the
child on. `CyclesFound` is the conjunction.

**Codecs** (the files `visit_type` accepts, of any number of types): the invariant
is `Laid`: the layout of every checked type fits it, with alignments that are powers
of two. `EveryByteOnce` follows from it where all types have been visited. `Covers`
says of a list of steps that they go from one place to another without gap or
overlap, each write where its alignment allows; it is kept when the list is moved by a
multiple of the alignment, padded, or put behind another one, and hence by the
loops over elements and fields. What the codec of a type does is a recursion over
its parts; that it covers the type's size is proved for the types in the order
in which they were visited, by the first for which it would fail, as the parts of
a type come before it (`VisitedClosed`).

**Link names**: `SymbolsInv` says that an alias is the public method of its
symbol's path with that method's ABI (`AliasInv`), that each name met by the loop
over the rlibs is global in just one of the objects that are linked, and that they are
the names of all objects before the place of the loop (`InputsInv`), and
what the manifest and the libraries hold (`LibrariesInv`). `SymbolAssumption` says
that names in `core` and `alloc` are mangled and that no public method is there;
that path and hash can be read off a mangled name is part of the model, and what the
search for the crate makes of the letters before it is `Misread`. `SupportIsCompilers`
follows for the names that search reads right, whatever is before the crate root of the
others.

**ELF files** (any program headers, symbols, dynamic relocations and metadata; the
tables of a file are finite). `NativeInv` says at each step of packing what has been
made of what. `SegmentsInv`: the segments are numbered in their order and code is
from an executable load. `ImportsInv`: the imports with a slot are the linked ones,
and the root is in front. `RelocationsInv`: each relocation there is lies in its segment
and is that of a dynamic one the loop has passed (`OfEntry`) or of a slot (`OfSlot`),
and each of those, and each import without a slot, has one; here a number must go
on meaning the same import while others are added behind it. `CollectedInv`: the
sorted list has each place once. Sorting is an operator without recursion (`Ranked`: a
place is the number of members before it), so that `RankFacts`, `ArrangedFacts`
and `PickedFacts` can be proved from cardinalities; `SortedApart` is why the code may
compare neighbours only. `ReferencesKept` follows, as no address is in two segments
(`HoldingIsOne`). For `AddressesKept`, `OffsetsReturn` shows that the cursor of the
disassembler stops where `validate_runtime_layout` wants each segment, by the least
segment at which it would not; `LabelSizeFacts` that an inferred label ends before
whatever follows.

**The walk over dependencies**: any target directory and any graph, cyclic ones
included, any order in which the list is worked off, and a Cargo that may write
anything at any time. `ClosureInv` says that what was looked for and what is
still on the list covers the needs of all units found so far (`Covered`) and that
nothing is on it that is not in every closed set (`Needed`), as long as Cargo has
not written since the walk began; at the end the list is empty and both halves of
`ClosureExact` follow.

**The export** (any kernel, configurations and process ids, any number of
exports, builds and readers; the number of edits bounds the versions, and may be
any number). The walk keeps `ClosureInv` here too: its lemmas are cited for the
step `Walk`, for Cargo's writes and for the start of the walk, where it must be
shown that the JSON file of the kernel exists and names crates (`RepositoryInv`)
and that the API crates are units (`ExporterInv`). `PackageWhole` is inductive only
together with `OwnPackage`, which says for each step from the creation of the
temporary directory on which parts are in it, that only this export has written
to it, and that it has no manifest yet; `ExporterInv` adds what has been read by
then, and that the API crates are among the files. `FrameworkAsClaimed` needs that
the reader has compared the framework of the package it holds (`ReaderInv`).
`ExportInv` is the conjunction; TLC checked it on the instance of `export`,
except `Needed`, whose sets of sets are too many there.

`PackageIsKernels` is an invariant of three parties. `TargetInv` is Cargo's: a
build has finished every crate it does not count as left, and when no build runs
and none was interrupted, the units of the kernel linked last are as they were
linked (`Intact`). `CalmInv` is the exporter's, as long as nothing has disturbed it:
what it has read are the units of that kernel, the walk takes those of its closure
(`ClosureExact` where the walk ends), and what it has written was read from them
(`CalmRead`, `CalmWritten`). `KernelsInv` adds the property for the packages that
are there. That there are two copies of the kernel, and the exporter may be given
the older one, is why `CalmInv` asks for the image that was linked last; that a
`stale` unit can never be taken is what the proof comes down to.

**The build of a project** (any targets, interfaces and packages, any number
of commands at once, of exports between them and of stops). The property speaks
of files in `dist` long after the command that made them has gone, so `InterfaceInv`
keeps, for each step of a turn, what the command can rely on (`TurnOK`: the
link, the flags, the binary, the library), for the images it has collected and for
those in `dist`, under the condition that the turn was `calm` and `alone`, or that
all packages of the target are of one interface; and that two commands are never
both alone with a target. `LatestInv` is `DistIsLatest` with what makes it
inductive: while builds do not overlap, a target the build under way has emptied
holds nothing of an earlier one. `OwnApiInv` goes on top of these, for `ArchiveOwnApi`: as
long as a build has the project to itself, none of the API rlibs that Cargo would leave as
they are is of a package the build has yet to come to (`Left`), so the API crate it needs is
compiled in the turn that archives it, and is then the newest.

**Images** (any files, keys, programs and interfaces, any number of
commands): `ImageInv` says that files hold records of blocks and that every
signature in a file is in the history of signings with its key and program
(`Backed`), whatever key and program the proof around it has been made out to;
there is one lemma per action. `VerifiedWasSigned` follows, since what verifies is the first proof
(the one with the least place) and its signature covers program and key. Digests
stay opaque: only their equality is used. `SigningWorks` holds of every image that is a
list of blocks: zeroing the proof out, which the digests were taken with, undoes
putting it in. `BundleSelects` needs `BundleInv`: the bundle is what was made of the
variants given, and no two of these have both interface and priority in common.

**The interface cache** (any targets, profiles, packages and repositories; commands one
after another, each of which may fail, be killed, or skip lookups anywhere). `CacheInv` is
the conjunction of the types, `FoundInv`, `JobInv`, `SyncInv`, `SyncCoherent` and
`BackupInv`. The heart of it is
`FoundInv`: a command searches for packages again and again, and where it searches
depends on the links, which the command sets while it goes: at first a directory
(`SearchesRoot`), then the project's own cache. The invariant therefore says that
whatever either search can find suits the framework that was chosen (`Suits`), unless a
lookup of its target was skipped. `JobInv` says
what is installed at each step of `copy_target_interface` and
`activate_kernel_interface`, `SyncInv` what the loop over targets has behind it: that each
target with a lookup that succeeded has been installed (`Covered`, with `Serves` and
`Served`), and that the sources are those of the first target that loads; `BackupInv` where
a framework that was there is while it is being replaced. `CargoSeesOneInterface`,
`SyncCoherent` and `BackupsRestored` follow.

**API snapshots** (any crates, projects, publications and syncs at once, every
system call a step, kills anywhere). `SnapInv`: `PlaceInv` says that a directory
gets into a place only by the renaming of a process that is done with it; `WholeInv`
that what is about to be renamed is whole; with the two, `WholeOrRemoved` follows
although removals go on in directories that have been renamed. `FillInv` is for
`SomeoneInstalls`: whoever finds a place empty, and fails for it, leaves it to a
process that has emptied it and is to fill it. `RecordInv` and `CopyInv` are for
`InstalledWasPublished`: the record in a crate's directory is a published one, and what
a sync has read, hashed and copied of a snapshot so far agrees with it, as long as the
crate's place has not changed (`disturbed`).

**Language packages** (any kernels, bridges, manifests and keys, any number of
edits). `PackageInv`: what a schema on disk can be is `SchemaInv`, made of one
kernel's interface, a manifest and one bridge, or torn; `GenInv` and `CheckInv` say
what the two commands hold at each of their steps, `CheckInv` with what has been
compared by then (`EntryChecked` for the artifacts before the place of the loop),
and `AcceptedIsConsistent` is its last step. `ReadInv` is for `ReleasableIsAccepted`:
while nothing changes what the check holds is what is on disk, and it has refused only
what is not `Releasable`; each comparison of the check is shown to succeed on what
the documented steps make.

**Operation identifiers** (any two bridges that were accepted, one of them the
schema's): `IdsInv` says that the identifiers of a schema were computed from an
accepted bridge. Types that do not contain one another can be put in an order in
which parts come first (`OrderExists`; a bridge has finitely many types, says
`PackageAssumption`), and a type and its layout are then unfolded step by step
(`Unfolded`). The heart is `TypesAgree`: if the fingerprints of the parts of two
types can be read in only one way (`Agree`: whatever follows them, equal lists begin
with equal fingerprints, and these are of equal layouts), so can those of the two
types, since the number of parts stands before the parts. `PrintsAgree` takes it up
the order, by the first type at which it would fail, and `IdsAgree` to a call with
its two types.

Only model-checked:

- All liveness (`CallsReturn`, `OrderEnds`): the prover does not reason
  about fairness.

Every invariant of the runs is stated by a theorem. Where it speaks of what a
recursive function returns (the list of active modules, codecs, layouts,
fingerprints), the induction is done by hand: the least place at which the claim
would fail.

## 6. What is not modelled, and why

- Within modelled components: the parsers of TOML, `.config` and `Modules.toml`
  (a file is what it parses to); features, inspection of managed images and the
  environment of children in `build_set`; migration of old manifests,
  `ELM_EKI_MAX_VARIANTS` and the other cases of `prepare_target_interface` in the
  cache; two commands at once on one cache (`InterfaceCache` runs them one after
  another: the code takes no lock there, and what Cargo sees under a concurrent
  sync is whatever the last writer left), and the lists of profiles and hashes that the Cargo
  configuration also holds (`kernel_profile_cfg_values`); limits, variants, versions, endianness
  and identifiers of wire types.
- Cargo, rustc, the archive tool, the kernel's exporter and users are
  environment: a step that succeeds with any result, fails, or edits files.
- Within `ApiSnapshots`: a build that empties the output directory while a
  publication writes to it, and nested source directories (a directory is one
  file). Within `LanguagePackage`: collisions of 64-bit identifiers, limits, sizes
  and runtime versions, and the texts rendered from a schema.
- Within `KernelExport`: nested framework files (the framework is one version), and
  the projection of the sources for an editor, which is only the version it was
  made from. Packages are read by one command, in a project whose search finds them.
- Within `KernelSymbols`: names longer than their paths, the bytes of objects, and
  Mixin sites. Within `ProjectBuild`: `Elm.lock`, the Cargo configuration and the
  overlay, which have modules of their own; packages are found outside the project
  (`ELM_KERNEL_INTERFACE_ROOT`), and Cargo puts RUSTFLAGS into file names, as it
  does since 1.85. Within `EkiImage`: the bytes of blocks, encrypted and compressed
  segments, limits; the parser, the trust store and the selection of a variant
  belong to the crate `elm` and are modelled as `main.rs` uses them.
- Within `NativeMetadata` and `NativeImage`: how bytes parse to records, program
  headers, symbols and dynamic relocations (a file is the tables in it); lengths,
  flags and ABI strings of a record, which are one Boolean; 64-bit overflow and
  alignments over a page; the magic and version in the module descriptor; the check
  of the finished image by the parser of `elm`. An image of `EkiImage` is its blocks, one of
  `NativeImage` what four of them say. Of the disassembler only the view is
  modelled: not its options (a base address, which is added to everything, and
  `--symbol`), the choice of a variant, the ELF file it writes and `objdump`.
- Not modelled: the manifest of an interface (`load`, `encode`, the bounds in
  `validate`, the profile hash): pure functions from bytes to bytes, in the plan
  below.
- Not planned: output and help, option parsing, scaffolding, `doctor`: formatting and one-file I/O without behaviour that a
  unit test would not reach.

## 7. Plan

Done, with proofs: the overlay, order, deduplication, configuration, the type graph,
the set build, the export of an interface with its dependency closure, the interface
cache, API snapshots, language packages, link names, the build of a project, images,
metadata and layout of ELF files, the codecs of wire types and the identifiers of
operations.

Next: the interface manifest, that is, what `encode` writes `load` accepts, and
what `kernel_api_profile_hash` covers.

Theorems worth proving next: those of the interface manifest, once it is modelled.
