----------------------------- MODULE KernelExport -----------------------------
(***************************************************************************)
(* export_kernel_interface of src/kernel_interface.rs, beside what it      *)
(* reads and what reads its result: Cargo that builds the kernel again,    *)
(* sources that are edited, kills, and a command of a module project that  *)
(* looks for interface packages while one is being replaced.               *)
(*                                                                         *)
(* Files are modelled by the version of the sources they were made from.   *)
(* The exporter reads the same sources and the same target directory       *)
(* several times; each reading is a step.  It reports no progress, keeps   *)
(* no lock, and cleans nothing up when it fails.                           *)
(***************************************************************************)
EXTENDS DependencyClosure

CONSTANTS
    Api,            \* the crates of kernel-api-crates.txt
    Compiled,       \* the crates with an rlib for the target: no build scripts, no procedural macros
    Config,         \* build configurations of the kernel
    KernelUnit,     \* KernelUnit[c]: the suffix of the kernel in configuration c
    UnitOf,         \* UnitOf[c][x]: the unit of a compiled crate
    FingerprintOf,  \* FingerprintOf[c][x]: what its marker holds
    Depends,        \* Depends[x]: the crates a compiled crate depends on
    KernelNeeds,    \* the crates the kernel depends on
    FirstConfig,    \* the configuration that has been built at first
    Pid,            \* process ids; they are used again
    MaxEdits, MaxBuilds, MaxExports, MaxStops, MaxReads,   \* bounds
    MaxEvents       \* bound on edits, builds, stops and reads together

ASSUME ExportAssumption ==
    /\ Api \subseteq Compiled /\ Compiled \subseteq Crate
    /\ UnitOf \in [Config -> [Compiled -> Unit]]
    /\ \A c \in Config : \A x \in Compiled : CrateOf[UnitOf[c][x]] = x
    /\ FingerprintOf \in [Config -> [Crate -> Fingerprint]]
    /\ Depends \in [Compiled -> SUBSET Crate] /\ KernelNeeds \subseteq Crate
    /\ FirstConfig \in Config /\ IsFiniteSet({KernelUnit[c] : c \in Config})
    /\ MaxEdits \in Nat /\ Version = 1 .. (MaxEdits + 1)
    /\ None \notin [claimed : Version, content : Version]
    /\ \A S \in SUBSET Unit : None \notin [S -> Version \cup {None}]
    /\ None \notin [image : [Compiled -> Version \cup {None}], deps : SUBSET Dependency]
    /\ None \notin [config : Config, left : SUBSET Compiled, crate : Compiled \cup {None}]
    /\ Unit \subseteq Nat                          \* in path order
    /\ Pid \subseteq Nat \ {0}

VARIABLES
    sources,      \* the version of the kernel's crates in the repository
    framework,    \* the version of libs/elm and libs/kernel-symbols
    bins,         \* deps/kernel-<suffix> with its JSON file: [image, deps], or None
    linked,       \* the kernel in the profile directory, a hard link: [config, image]
    images,       \* every image linked so far, of which copies are about (history)
    cargo,        \* a build of the kernel: [config, left, crate], or None
    interrupted,  \* a build has been interrupted (history)
    export,       \* the exporter: its step and what it has read
    packages,     \* the interface packages by directory, or None
    reader,       \* a command that takes the framework from a package
    count         \* edits, builds, exports, stops and reads so far

repositoryVars == <<sources, framework>>
cargoVars == <<units, bins, linked, images, cargo, interrupted>>
exportVars == <<closureVars, repositoryVars, bins, linked, images, cargo, interrupted, export,
                packages, reader, count>>

Kernels == {KernelUnit[c] : c \in Config}

Output == 0                                \* the package directory; Temporary(pid) is beside it
Temporary(pid) == pid
Directory == {Output} \cup Pid

Torn == [torn |-> TRUE]                    \* a manifest whose writing was cut short

\* A package directory that has just been created.
Empty == [metadata |-> [u \in Unit |-> None], support |-> None, imports |-> None,
          source |-> None, framework |-> None, manifest |-> None,
          writers |-> {}, removing |-> FALSE]

-----------------------------------------------------------------------------
(* The repository and Cargo: external. *)

Bump(field) == count' = [count EXCEPT ![field] = @ + 1]
Event(field, bound) ==
    /\ count[field] < bound /\ count.edits + count.builds + count.stops + count.reads < MaxEvents
    /\ Bump(field)

\* Something the exporter reads has changed.
Disturbed == IF export.step = "idle" THEN export ELSE [export EXCEPT !.calm = FALSE]
Disturb == export' = Disturbed /\ moved' = (walk # "off")

Edit ==
    /\ Event("edits", MaxEdits)
    /\ \/ sources' = sources + 1 /\ framework' = framework
       \/ framework' = framework + 1 /\ sources' = sources
    /\ export' = Disturbed
    /\ UNCHANGED <<cargoVars, walkVars, moved, packages, reader>>

NamesOf(c, S) == {[crate |-> x, fingerprint |-> FingerprintOf[c][x]] : x \in S}

\* What a finished compilation leaves in the unit of a crate.
CompiledUnit(c, x, version) ==
    [marker |-> FingerprintOf[c][x], rlib |-> version, deps |-> NamesOf(c, Depends[x])]

\* The crates a build has to compile, and those that depend on them.
Stale(c) == {x \in Compiled : units[UnitOf[c][x]] # CompiledUnit(c, x, sources)}
Affected(S) ==
    {x \in Compiled : \A T \in SUBSET Compiled :
        S \subseteq T /\ (\A y \in Compiled : Depends[y] \cap T # {} => y \in T) => x \in T}

CargoStarts(c) ==
    /\ cargo = None /\ Event("builds", MaxBuilds)
    /\ cargo' = [config |-> c, left |-> Affected(Stale(c)), crate |-> None]
    /\ UNCHANGED <<units, bins, linked, images, interrupted, repositoryVars, walkVars, moved,
                   export, packages, reader>>

\* The marker is emptied before the compiler starts.
CargoEmptiesMarker(x) ==
    /\ cargo # None /\ cargo.crate = None
    /\ x \in cargo.left /\ Depends[x] \cap cargo.left = {}
    /\ units' = [units EXCEPT ![UnitOf[cargo.config][x]].marker = None]
    /\ cargo' = [cargo EXCEPT !.crate = x]
    /\ Disturb
    /\ UNCHANGED <<bins, linked, images, interrupted, repositoryVars, walkVars, packages, reader, count>>

\* The rlib is written in place, then the JSON file and the marker.
CargoCompiles ==
    /\ cargo # None /\ cargo.crate # None
    /\ units' = [units EXCEPT ![UnitOf[cargo.config][cargo.crate]] =
                     CompiledUnit(cargo.config, cargo.crate, sources)]
    /\ cargo' = [cargo EXCEPT !.crate = None, !.left = @ \ {cargo.crate}]
    /\ Disturb
    /\ UNCHANGED <<bins, linked, images, interrupted, repositoryVars, walkVars, packages, reader, count>>

ImageOf(c) == [x \in Compiled |-> units[UnitOf[c][x]].rlib]

CargoLinks ==
    /\ cargo # None /\ cargo.left = {}
    /\ LET c == cargo.config
           new == [config |-> c, image |-> ImageOf(c)]
       IN  /\ bins' = [bins EXCEPT ![KernelUnit[c]] =
                           [image |-> new.image, deps |-> NamesOf(c, KernelNeeds)]]
           /\ linked' = new /\ images' = images \cup {new.image}
    /\ cargo' = None /\ Disturb
    /\ UNCHANGED <<units, interrupted, repositoryVars, walkVars, packages, reader, count>>

\* A compilation fails, or the build is interrupted.
CargoStops ==
    /\ cargo # None /\ cargo' = None /\ interrupted' = TRUE
    /\ UNCHANGED <<units, bins, linked, images, repositoryVars, walkVars, moved, export, packages,
                   reader, count>>

CargoStep ==
    \/ \E c \in Config : CargoStarts(c)
    \/ \E x \in Compiled : CargoEmptiesMarker(x)
    \/ CargoCompiles \/ CargoLinks \/ CargoStops

-----------------------------------------------------------------------------
(* The exporter. *)

Idle == [step |-> "idle"]
At(step) == export.step = step
Go(step) == export' = [export EXCEPT !.step = step]

\* Every error return: nothing is cleaned up.
Fail == export' = Idle

\* All that a reading step leaves alone.
OnlyReads == UNCHANGED <<units, moved, repositoryVars, bins, linked, images, cargo, interrupted,
                         packages, reader>>

\* The command begins with the bytes of an image, the hard link in the profile
\* directory or a copy of it made at some time.
ReadKernel(pid) ==
    /\ At("idle") /\ count.exports < MaxExports /\ Bump("exports")
    /\ \E copy \in BOOLEAN : \E image \in images :
          /\ ~copy => image = linked.image
          /\ export' = [step |-> "sources", pid |-> pid, copy |-> copy, image |-> image,
                        calm |-> cargo = None /\ ~interrupted, last |-> linked, sourceHash |-> None, frameworkHash |-> None,
                        symbols |-> None, unit |-> None, api |-> {}, files |-> {}]
    /\ OnlyReads /\ UNCHANGED walkVars

\* repository_interface_hash
HashSources ==
    /\ At("sources")
    /\ export' = [export EXCEPT !.step = "framework", !.sourceHash = sources]
    /\ OnlyReads /\ UNCHANGED <<walkVars, count>>

\* framework_distribution_hash
HashFramework ==
    /\ At("framework")
    /\ export' = [export EXCEPT !.step = "symbols", !.frameworkHash = framework]
    /\ OnlyReads /\ UNCHANGED <<walkVars, count>>

\* scan_repository_exports
ScanExports ==
    /\ At("symbols")
    /\ export' = [export EXCEPT !.step = "unit", !.symbols = sources]
    /\ OnlyReads /\ UNCHANGED <<walkVars, count>>

\* active_kernel_unit_manifest: the kernel in deps that is the same file as the
\* image, whatever was read from that; else the only one with the same bytes.
SameFile == IF export.copy THEN {} ELSE {KernelUnit[linked.config]}
SameBytes == {k \in Kernels : bins[k] # None /\ bins[k].image = export.image}
ActiveKernel ==
    IF SameFile # {} THEN SameFile
    ELSE IF Cardinality(SameBytes) = 1 THEN SameBytes ELSE {}

\* exact_kernel_api_rlibs begins with the unit of the kernel.
FindKernel ==
    /\ At("unit")
    /\ IF ActiveKernel = {} THEN Fail
       ELSE \E k \in ActiveKernel :
               export' = [export EXCEPT !.step = "api", !.unit = bins[k].deps]
    /\ OnlyReads /\ UNCHANGED <<walkVars, count>>

\* Mutant: the unit of an API crate is looked up by its name alone.
FindApiByName ==
    /\ At("api")
    /\ \E x \in Api \ {CrateOf[u] : u \in export.api} :
          LET found == {u \in Unit : CrateOf[u] = x /\ units[u].rlib # None}
          IN  IF found = {} THEN Fail
              ELSE \E u \in found : export' = [export EXCEPT !.api = @ \cup {u}]
    /\ OnlyReads /\ UNCHANGED <<walkVars, count>>

\* The unit of one API crate: the only one with the fingerprint the kernel's
\* JSON file gives.  Empty and torn markers are passed over.
FindApi ==
    /\ At("api")
    /\ \E x \in Api \ {CrateOf[u] : u \in export.api} :
          LET found == UNION {Candidates(d) : d \in {e \in export.unit : e.crate = x}}
          IN  IF Cardinality(found) = 1 THEN export' = [export EXCEPT !.api = @ \cup found]
                                        ELSE Fail
    /\ OnlyReads /\ UNCHANGED <<walkVars, count>>

\* The unit of the kernel is looked for once more, and the walk begins with
\* what its JSON file says now.
FindKernelAgain ==
    /\ At("api") /\ Api = {CrateOf[u] : u \in export.api}
    /\ IF ActiveKernel = {} THEN Fail /\ UNCHANGED <<walkVars, moved>>
       ELSE /\ Go("walk") /\ moved' = FALSE
            /\ \E k \in ActiveKernel : StartWalk(export.api, bins[k].deps)
    /\ UNCHANGED <<units, repositoryVars, bins, linked, images, cargo, interrupted, packages,
                   reader, count>>

Walk ==
    /\ At("walk") /\ WalkStep
    /\ IF walk' = "walking" THEN UNCHANGED export
       ELSE IF walk' = "failed" THEN Fail
       ELSE export' = [export EXCEPT !.step = "abis", !.files = files]
    /\ OnlyReads /\ UNCHANGED count

\* The walk is over and its variables are gone.
ForgetWalk ==
    /\ roots' = {} /\ rootDeps' = {} /\ pending' = {} /\ visited' = {} /\ files' = {}
    /\ walk' = "off" /\ moved' = FALSE

\* scan_repository_api_abis and populate_link_aliases: the public signatures
\* are read from the sources again, the link names from the rlibs.  An edit
\* since the symbols were scanned may or may not give a conflict.
ScanAbis ==
    /\ At("abis")
    /\ \/ /\ \A u \in export.api : units[u].rlib # None
          /\ Go("sites")
       \/ /\ sources # export.symbols \/ \E u \in export.api : units[u].rlib # export.symbols
          /\ Fail
    /\ ForgetWalk
    /\ UNCHANGED <<units, repositoryVars, bins, linked, images, cargo, interrupted, packages,
                   reader, count>>

\* scan_repository_mixin_sites reads the sources a third time and binds the
\* sites to the hash of the first; then the manifest is validated.
ScanSites ==
    /\ At("sites")
    /\ \/ export' = [export EXCEPT !.step = "clean"]
       \/ sources # export.symbols /\ Fail
    /\ OnlyReads /\ UNCHANGED <<walkVars, count>>

Here == Temporary(export.pid)
OnlyWrites == UNCHANGED <<closureVars, repositoryVars, bins, linked, images, cargo, interrupted,
                          reader, count>>

\* remove_path of a directory: not all at once.
Without(p, gone) ==
    [p EXCEPT !.removing = TRUE,
              !.manifest = IF "manifest" \in gone THEN None ELSE @,
              !.framework = IF "framework" \in gone THEN None ELSE @]
BeginRemove(d) ==
    /\ packages[d] # None /\ ~packages[d].removing
    /\ \E gone \in SUBSET {"manifest", "framework"} :
          packages' = [packages EXCEPT ![d] = Without(@, gone)]

EndRemove(d) ==
    /\ packages[d] # None /\ packages[d].removing
    /\ packages' = [packages EXCEPT ![d] = None]

CleanTemporary ==
    /\ At("clean") /\ (BeginRemove(Here) \/ EndRemove(Here))
    /\ UNCHANGED export /\ OnlyWrites

\* Mutant: what a killed process with this id has left is written over.
CreateOver ==
    /\ At("clean") /\ Go("metadata")
    /\ packages' = [packages EXCEPT ![Here] = IF @ = None THEN Empty ELSE @]
    /\ OnlyWrites

CreateTemporary ==
    /\ At("clean") /\ packages[Here] = None
    /\ packages' = [packages EXCEPT ![Here] = Empty] /\ Go("metadata")
    /\ OnlyWrites

\* Who has written into a directory (history).
With(p, part, value) == [p EXCEPT ![part] = value, !.writers = @ \cup {count.exports}]
Put(part, value) == packages' = [packages EXCEPT ![Here] = With(@, part, value)]

Missing == {u \in export.files : packages[Here].metadata[u] = None}

\* copy_metadata_rlibs, in path order; write_metadata_only_rlib wants the file to be there.
CopyRlib ==
    /\ At("metadata")
    /\ \E u \in Missing :
          /\ \A w \in Missing : u <= w
          /\ IF units[u].rlib = None THEN Fail /\ UNCHANGED packages
             ELSE /\ Put("metadata", [packages[Here].metadata EXCEPT ![u] = units[u].rlib])
                  /\ UNCHANGED export
    /\ OnlyWrites

\* build_rust_support_library, from the same rlibs, read again.
BuildSupport ==
    /\ At("metadata") /\ Missing = {}
    /\ Put("support", [u \in export.files |-> units[u].rlib]) /\ Go("imports")
    /\ OnlyWrites

\* build_import_library
BuildImports ==
    /\ At("imports") /\ Put("imports", export.symbols) /\ Go("snapshot")
    /\ OnlyWrites

\* copy_lsp_source_snapshot: the sources as they are now, with an identity
\* file that says what they hashed to at first.
CopySources ==
    /\ At("snapshot")
    /\ Put("source", [claimed |-> export.sourceHash, content |-> sources]) /\ Go("copy_framework")
    /\ OnlyWrites

\* copy_framework
CopyFramework ==
    /\ At("copy_framework") /\ Put("framework", framework) /\ Go("manifest")
    /\ OnlyWrites

Manifest ==
    [by |-> count.exports, image |-> export.image, sourceHash |-> export.sourceHash,
     frameworkHash |-> export.frameworkHash, symbols |-> export.symbols, api |-> export.api,
     files |-> export.files, calm |-> export.calm, last |-> export.last]

WriteManifest ==
    /\ At("manifest") /\ Put("manifest", Manifest) /\ Go("replace")
    /\ OnlyWrites

RemoveOutput ==
    /\ At("replace") /\ (BeginRemove(Output) \/ EndRemove(Output))
    /\ UNCHANGED export /\ OnlyWrites

Rename ==
    /\ At("replace") /\ packages[Output] = None
    /\ packages' = [packages EXCEPT ![Output] = packages[Here], ![Here] = None]
    /\ export' = Idle
    /\ OnlyWrites

\* A tool or a file operation fails, or the process is killed, at any step; a
\* manifest may be cut short by it.
Stop ==
    /\ ~At("idle") /\ Event("stops", MaxStops)
    /\ export' = Idle
    /\ \/ UNCHANGED packages
       \/ At("manifest") /\ packages' = [packages EXCEPT ![Here].manifest = Torn]
    /\ UNCHANGED <<closureVars, repositoryVars, bins, linked, images, cargo, interrupted, reader>>

ExportStep ==
    \/ HashSources \/ HashFramework \/ ScanExports \/ FindKernel \/ FindApi \/ FindKernelAgain
    \/ Walk \/ ScanAbis \/ ScanSites \/ CleanTemporary \/ CreateTemporary \/ CopyRlib
    \/ BuildSupport \/ BuildImports \/ CopySources \/ CopyFramework \/ WriteManifest
    \/ RemoveOutput \/ Rename

-----------------------------------------------------------------------------
(* A command that takes its framework from the packages. *)

\* collect_interface_manifests: every directory beside the package as well.
Manifests == {d \in Directory : packages[d] # None /\ packages[d].manifest # None}
Key(d) == <<packages[d].manifest.sourceHash, packages[d].manifest.symbols, packages[d].manifest.image>>

\* available_kernel_interfaces: the first directory with an interface and a
\* kernel; a manifest that cannot be read makes all of them unavailable.
Offered == {d \in Manifests : \A e \in Manifests : Key(e) = Key(d) => d <= e}

\* Mutant: the framework is not hashed again.
ReadPackagesUnchecked ==
    /\ reader.step = "idle" /\ Event("reads", MaxReads)
    /\ IF \E d \in Manifests : packages[d].manifest = Torn THEN UNCHANGED reader
       ELSE \E d \in Offered :
               reader' = [step |-> "checked", directory |-> d, package |-> packages[d]]
    /\ UNCHANGED <<closureVars, repositoryVars, bins, linked, images, cargo, interrupted, export,
                   packages>>

\* packaged_framework_root: the framework of every package offered is hashed,
\* and all hashes must agree.
ReadPackages ==
    /\ reader.step = "idle" /\ Event("reads", MaxReads)
    /\ IF \E d \in Manifests : packages[d].manifest = Torn THEN UNCHANGED reader
       ELSE IF /\ Offered # {}
               /\ \A d \in Offered : packages[d].framework = packages[d].manifest.frameworkHash
               /\ \A d, e \in Offered : packages[d].framework = packages[e].framework
       THEN \E d \in Offered :
               reader' = [step |-> "checked", directory |-> d, package |-> packages[d]]
       ELSE UNCHANGED reader
    /\ UNCHANGED <<closureVars, repositoryVars, bins, linked, images, cargo, interrupted, export,
                   packages>>

\* sync_framework then copies it, from a directory that may have been replaced.
TakeFramework ==
    /\ reader.step = "checked"
    /\ LET d == reader.directory
       IN  reader' = IF packages[d] = None THEN [step |-> "idle"]
                     ELSE [step |-> "taken", framework |-> packages[d].framework,
                           claimed |-> reader.package.manifest.frameworkHash,
                           same |-> packages[d] = reader.package]
    /\ UNCHANGED <<closureVars, repositoryVars, bins, linked, images, cargo, interrupted, export,
                   packages, count>>

ReaderStep == ReadPackages \/ TakeFramework

-----------------------------------------------------------------------------

\* The kernel has been built once, in one configuration.
Init ==
    /\ sources = 1 /\ framework = 1
    /\ units = [u \in Unit |->
                   IF \E x \in Compiled : UnitOf[FirstConfig][x] = u
                   THEN CompiledUnit(FirstConfig, CrateOf[u], 1)
                   ELSE [marker |-> None, rlib |-> None, deps |-> {}]]
    /\ linked = [config |-> FirstConfig, image |-> ImageOf(FirstConfig)]
    /\ images = {linked.image}
    /\ bins = [k \in Kernels |->
                  IF k = KernelUnit[FirstConfig]
                  THEN [image |-> linked.image, deps |-> NamesOf(FirstConfig, KernelNeeds)]
                  ELSE None]
    /\ cargo = None /\ interrupted = FALSE
    /\ roots = {} /\ rootDeps = {} /\ pending = {} /\ visited = {} /\ files = {}
    /\ walk = "off" /\ moved = FALSE
    /\ export = Idle /\ packages = [d \in Directory |-> None]
    /\ reader = [step |-> "idle"]
    /\ count = [edits |-> 0, builds |-> 0, exports |-> 0, stops |-> 0, reads |-> 0]

Next ==
    \/ Edit \/ CargoStep
    \/ \E pid \in Pid : ReadKernel(pid)
    \/ ExportStep \/ Stop
    \/ ReaderStep

Spec == Init /\ [][Next]_exportVars

-----------------------------------------------------------------------------
(* Properties. *)

Written(d) == packages[d] # None /\ packages[d].manifest \notin {None, Torn}

\* export_kernel_interface writes the manifest last and into a directory of its
\* own: a package with a manifest has all its parts, each written by the export
\* that wrote the manifest, after kills, and with process ids that come again;
\* unless it is the old one that is being removed, or was when the export died.
PackageWhole ==
    \A d \in Directory :
        LET p == packages[d]
        IN  Written(d) /\ ~p.removing =>
                /\ p.writers = {p.manifest.by}
                /\ \A u \in Unit : p.metadata[u] # None <=> u \in p.manifest.files
                /\ p.manifest.api \subseteq p.manifest.files
                /\ None \notin {p.support, p.imports, p.source, p.framework}

\* The crates the kernel is made of, the ones it reaches through others included.
Parts == {x \in Compiled : \A T \in SUBSET Crate :
             KernelNeeds \subseteq T /\ (\A y \in T \cap Compiled : Depends[y] \subseteq T) => x \in T}

\* exact_kernel_api_rlibs, exact_dependency_rlibs: a package that was exported
\* while Cargo was quiet, of the kernel that was linked last, and when no build
\* had been interrupted, has the rlibs that kernel was linked from, every one
\* of them and no unit of another configuration, and its support library is
\* made of the same.  It does not matter what else lies in the directory.
PackageIsKernels ==
    \A d \in Directory :
        LET p == packages[d]
            m == p.manifest
        IN  Written(d) /\ m.calm /\ m.image = m.last.image =>
                /\ m.files = {UnitOf[m.last.config][x] : x \in Parts}
                /\ \A u \in m.files : p.metadata[u] = m.image[CrateOf[u]]
                /\ p.support = [u \in m.files |-> m.image[CrateOf[u]]]

\* packaged_framework_root: a framework that changed between the hash that
\* export_kernel_interface takes of it and the copy it makes never gets into a
\* project, unless the package is replaced while the project copies it.
FrameworkAsClaimed ==
    reader.step = "taken" /\ reader.same => reader.framework = reader.claimed

\* The comment in exact_dependency_rlibs: a crate without a unit is a build
\* script or a procedural macro.  (While Cargo is not running.)
SkippedHasNoRlib ==
    walk = "done" /\ ~moved /\ cargo = None =>
        \A d \in visited : d.crate \in Compiled => Candidates(d) # {}

-----------------------------------------------------------------------------
(* The inductive invariant. *)

\* What has been counted bounds the versions; what Cargo has linked has its file.
IsCargo(c) == c = [config |-> c.config, left |-> c.left, crate |-> c.crate]
RepositoryInv ==
    /\ count = [edits |-> count.edits, builds |-> count.builds, exports |-> count.exports,
                stops |-> count.stops, reads |-> count.reads]
    /\ count.edits \in 0 .. MaxEdits
    /\ sources \in 1 .. (count.edits + 1) /\ framework \in 1 .. (count.edits + 1)
    /\ cargo # None =>
          /\ IsCargo(cargo) /\ cargo.config \in Config /\ cargo.left \subseteq Compiled
          /\ cargo.crate # None => cargo.crate \in Compiled
    /\ bins = [k \in Kernels |-> bins[k]] /\ linked.config \in Config
    /\ \A k \in Kernels :
          bins[k] # None \/ k = KernelUnit[linked.config] => bins[k].deps \in SUBSET Dependency

Writing == {"metadata", "imports", "snapshot", "copy_framework", "manifest", "replace"}

\* What the exporter has read when it is at a step.
IsExport(e) ==
    e = [step |-> e.step, pid |-> e.pid, copy |-> e.copy, image |-> e.image, calm |-> e.calm,
         last |-> e.last, sourceHash |-> e.sourceHash, frameworkHash |-> e.frameworkHash,
         symbols |-> e.symbols, unit |-> e.unit, api |-> e.api, files |-> e.files]
ExporterInv ==
    ~At("idle") =>
        /\ IsExport(export) /\ export.pid \in Pid
        /\ export.api \subseteq Unit /\ export.files \subseteq Unit
        /\ ~At("sources") => export.sourceHash \in Version
        /\ export.step \notin {"sources", "framework", "symbols"} => export.symbols \in Version
        /\ At("walk") => roots = export.api /\ roots \subseteq files
        /\ export.step \in {"abis", "sites", "clean"} \cup Writing => export.api \subseteq export.files

IsPackage(p) ==
    /\ p = [metadata |-> p.metadata, support |-> p.support, imports |-> p.imports,
            source |-> p.source, framework |-> p.framework, manifest |-> p.manifest,
            writers |-> p.writers, removing |-> p.removing]
    /\ p.metadata = [u \in Unit |-> p.metadata[u]]
PackagesOK ==
    /\ packages = [d \in Directory |-> packages[d]]
    /\ \A d \in Directory : packages[d] # None => IsPackage(packages[d])

\* How far the directory that is being written is.
OwnPackage ==
    LET own == packages[Here] IN
    export.step \in Writing =>
        /\ IsPackage(own) /\ ~own.removing /\ own.writers \subseteq {count.exports}
        /\ \A u \in Unit : own.metadata[u] # None => u \in export.files
        /\ ~At("metadata") =>
              /\ \A u \in export.files : own.metadata[u] # None
              /\ own.support # None /\ own.writers = {count.exports}
        /\ export.step \notin {"metadata", "imports"} => own.imports # None
        /\ export.step \in {"copy_framework", "manifest", "replace"} => own.source # None
        /\ export.step \in {"manifest", "replace"} => own.framework # None
        /\ ~At("replace") => own.manifest = None

ReaderInv ==
    /\ reader.step = "checked" =>
          reader.package.framework = reader.package.manifest.frameworkHash
    /\ FrameworkAsClaimed

\* A unit as the last compilation that finished there has left it.
Finished(c, x) == \E v \in Version : units[UnitOf[c][x]] = CompiledUnit(c, x, v)

\* All that the kernel linked last was made of is still as it was then.
Intact ==
    /\ \A x \in Compiled : Finished(linked.config, x)
    /\ linked.image = ImageOf(linked.config)
    /\ bins[KernelUnit[linked.config]] =
          [image |-> linked.image, deps |-> NamesOf(linked.config, KernelNeeds)]

\* The target directory: a build has finished what it does not count as left,
\* and between builds none of which was interrupted nothing is half done.
TargetInv ==
    /\ linked = [config |-> linked.config, image |-> linked.image]
    /\ \A u \in Unit : units[u].rlib # None => CrateOf[u] \in Compiled
    /\ cargo # None => \A x \in Compiled \ cargo.left : Finished(cargo.config, x)
    /\ cargo = None /\ ~interrupted => Intact

\* What an export has that nothing disturbed, of the kernel that was linked last.
UnitsOf(S) == {UnitOf[linked.config][x] : x \in S}
CalmRead ==
    /\ export.step \in {"sources", "framework", "symbols", "unit"} => export.api = {}
    /\ At("api") => /\ export.unit = NamesOf(linked.config, KernelNeeds)
                    /\ export.api \subseteq UnitsOf(Api \cap KernelNeeds)
    /\ At("walk") => /\ rootDeps = NamesOf(linked.config, KernelNeeds)
                     /\ roots \subseteq UnitsOf(Api \cap KernelNeeds)
    /\ export.step \in {"abis", "sites", "clean"} \cup Writing => export.files = UnitsOf(Parts)
CalmWritten ==
    export.step \in Writing =>
        /\ \A u \in export.files :
              packages[Here].metadata[u] \in {None, export.image[CrateOf[u]]}
        /\ ~At("metadata") =>
              packages[Here].support = [u \in export.files |-> export.image[CrateOf[u]]]
CalmInv ==
    ~At("idle") /\ export.calm =>
        /\ Intact /\ export.last = linked
        /\ At("walk") => ~moved /\ walk = "walking"
        /\ export.image = linked.image => CalmRead /\ CalmWritten

KernelsInv == TargetInv /\ CalmInv /\ PackageIsKernels

ExportInv ==
    /\ RepositoryInv /\ ClosureInv /\ ExporterInv
    /\ PackagesOK /\ PackageWhole /\ OwnPackage /\ ReaderInv
=============================================================================
