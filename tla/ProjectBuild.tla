----------------------------- MODULE ProjectBuild -----------------------------
(***************************************************************************)
(* cmd_build and cmd_check of src/main.rs, with activate_kernel_interface  *)
(* and the cargo_* functions of src/project.rs: one project is built for   *)
(* its targets, once against each of the kernel interfaces selected.       *)
(*                                                                         *)
(* The interface of a build is handed from step to step through a symbolic *)
(* link in the project, which every other command of the project sets too  *)
(* and which leads into the directory of the kernel's packages; it is read *)
(* again by the preparation, for the flags of the compiler, which then goes *)
(* to the package itself, and by the packer.  There is no lock but Cargo's  *)
(* own.  The packages are looked up outside the project                    *)
(* (ELM_KERNEL_INTERFACE_ROOT).                                            *)
(***************************************************************************)
EXTENDS Naturals, Sequences, FiniteSetsExt

CONSTANTS
    Target,        \* Targets of --arch all, in order, as a sequence
    Root,          \* directories of interface packages
    TargetOf,      \* TargetOf[r]
    Profile,       \* Profile[r]: two kernels may be packaged with the same interface
    RootOrder,     \* RootOrder[t]: the directories of a target, by profile
    Selection,     \* what --arch may select: sequences of targets
    Process,
    None, Torn,
    Exported,      \* the packages that are exported again
    ApiFollowsElm, \* whether the API crates depend on what sync_framework writes below .elm
    MaxCommands, MaxTargets, MaxEvents    \* bounds; MaxEvents: commands that begin
                   \* beside another, packages that are exported again, and stops, together

Targets == {Target[i] : i \in DOMAIN Target}

ASSUME BuildAssumption ==
    /\ TargetOf \in [Root -> Targets]
    /\ \A t \in Targets : {RootOrder[t][i] : i \in DOMAIN RootOrder[t]} = {r \in Root : TargetOf[r] = t}
    /\ Target \in Seq(Targets) /\ \A t \in Targets : RootOrder[t] \in Seq(Root)
    /\ \A t \in Targets : \A i, j \in DOMAIN RootOrder[t] : RootOrder[t][i] = RootOrder[t][j] => i = j
    /\ Selection \subseteq Seq(Targets) \ {<<>>}
    /\ \A s \in Selection : \A i, j \in DOMAIN s : s[i] = s[j] => i = j
    /\ ApiFollowsElm \in BOOLEAN
    /\ None \notin Root \cup {Torn} /\ None \notin {Profile[r] : r \in Root} \X Nat
    /\ None \notin [mode : {"m", "y"}, flags : [root : Root, hash : {Profile[r] : r \in Root} \X Nat]]

VARIABLES
    packages,   \* packages[r]: the version of the kernel it was exported from, 0 if it is gone
    link,       \* .elm/kernel-interface/<target>: a link to a package, or None
    source,     \* .elm/kernel-source: a link into a package, or None
    binary,     \* release/<crate> of a target: [flags, seen], or None
    library,    \* release/lib<crate>.rlib, likewise
    newest,     \* release/deps/lib<api>-*.rlib: [mode, flags] of the one compiled last, or None
    fresh,      \* those that Cargo has no reason to compile again
    dist,       \* dist[t]: [image, variants, archives]
    command,    \* what a process is doing
    swept,      \* swept[t]: the last build that removed what was in dist for t (history)
    overlap,    \* two builds have been under way at once (history)
    count       \* [commands, targets, exports, events]

vars == <<packages, link, source, binary, library, newest, fresh, dist, command, swept, overlap, count>>

\* The identity of the interface in a package, None without its manifest.
Hash(r) == IF r = None THEN None
           ELSE IF packages[r] = 0 THEN None ELSE <<Profile[r], packages[r]>>
Active(t) == Hash(link[t])

\* The snapshot of the sources is identified by the version alone.
SourceOf(r) == IF r = None THEN 0 ELSE packages[r]

\* available_kernel_interfaces, selected_kernel_interfaces, with no profile named
\* in Elm.toml: a package for each interface and kernel, in their places by profile.
Interfaces(t) ==
    {[place |-> i, root |-> RootOrder[t][i], version |-> packages[RootOrder[t][i]],
      hash |-> Hash(RootOrder[t][i])] : i \in {i \in DOMAIN RootOrder[t] : packages[RootOrder[t][i]] # 0}}

First(S) == CHOOSE b \in S : \A other \in S : b.place <= other.place

\* cmd_build keeps the first of each interface.
Distinct(S) == {b \in S : \A other \in S : other.hash = b.hash => b.place <= other.place}

Idle == [step |-> "idle"]
At(p, step) == command[p].step = step
Go(p, step) == command' = [command EXCEPT ![p].step = step]
Fail(p) == command' = [command EXCEPT ![p] = Idle]
Now(p) == Head(command[p].targets)       \* the target being built
Current(p) == First(command[p].todo)     \* the interface being built against

\* A package changes under the commands at work.
Disturb ==
    command' = [p \in Process |-> IF command[p] = Idle THEN Idle
                                  ELSE [command[p] EXCEPT !.calm = FALSE, !.solo = FALSE]]

\* The other commands at work on one of these targets are not alone with its
\* link and with what Cargo makes (history).
Touch(p, T, c) ==
    [q \in Process |->
        IF q = p \/ c[q] = Idle THEN c[q]
        ELSE [c[q] EXCEPT !.alone = @ /\ Head(c[q].targets) \notin T]]

projectVars == <<link, source>>
cargoVars == <<binary, library, newest, fresh>>
outputVars == <<dist, swept>>

-----------------------------------------------------------------------------
(* The kernel exports a package again: it is gone for a while, and may stay so. *)

RemovePackage(r) ==
    /\ r \in Exported /\ packages[r] # 0 /\ count.events < MaxEvents
    /\ count' = [count EXCEPT !.exports = @ + 1, !.events = @ + 1]
    /\ packages' = [packages EXCEPT ![r] = 0]
    /\ Disturb
    /\ UNCHANGED <<projectVars, cargoVars, outputVars, overlap>>

InstallPackage(r) ==
    /\ packages[r] = 0
    /\ packages' = [packages EXCEPT ![r] = count.exports + 1]
    /\ Disturb
    /\ UNCHANGED <<projectVars, cargoVars, outputVars, overlap, count>>

-----------------------------------------------------------------------------
(* Beginning and end of a command. *)

Begin(chosen) ==
    /\ count.commands < MaxCommands /\ count.targets + Len(chosen) <= MaxTargets
    /\ LET beside == IF \E q \in Process : ~At(q, "idle") THEN 1 ELSE 0
       IN  /\ count.events + beside <= MaxEvents
           /\ count' = [count EXCEPT !.commands = @ + 1, !.targets = @ + Len(chosen),
                                     !.events = @ + beside]

Started(step, mode, chosen, sweep) ==
    [step |-> step, mode |-> mode, number |-> count.commands + 1, targets |-> chosen,
     sweep |-> sweep, todo |-> {}, several |-> FALSE, flags |-> None,
     variants |-> <<>>, calm |-> TRUE, alone |-> TRUE,
     solo |-> \A q \in Process : At(q, "idle")]

\* Neither p nor those at work have the project to themselves (history).
Join(p, c) ==
    command' = [q \in Process |-> IF q = p THEN c ELSE IF command[q] = Idle THEN Idle
                                  ELSE [command[q] EXCEPT !.solo = FALSE]]

\* cmd_build has read Elm.toml, checked its arguments and chosen its targets.
BeginBuild(p) ==
    /\ At(p, "idle")
    /\ overlap' = (overlap \/ \E q \in Process : ~At(q, "idle") /\ command[q].mode # "check")
    /\ \E mode \in {"n", "m", "y"}, chosen \in Selection :
       /\ Begin(chosen)
       /\ Join(p, Started("sweep", mode, chosen, chosen))
    /\ UNCHANGED <<packages, projectVars, cargoVars, outputVars>>

BeginCheck(p) ==
    /\ At(p, "idle")
    /\ \E chosen \in Selection :
       /\ Begin(chosen)
       /\ Join(p, Started("sync", "check", chosen, <<>>))
    /\ UNCHANGED <<packages, projectVars, cargoVars, outputVars, overlap>>

Nothing == [image |-> None, variants |-> {}, archives |-> {}]

\* mode=n builds nothing.
Swept(c) == IF Tail(c.sweep) # <<>> THEN [c EXCEPT !.sweep = Tail(@)]
            ELSE IF c.mode = "n" THEN Idle
            ELSE [c EXCEPT !.sweep = <<>>, !.step = "sync"]

\* Mutant: only the archive with the plain name is removed.
SweepPlain(p) ==
    /\ At(p, "sweep") /\ command[p].sweep # <<>>
    /\ LET t == Head(command[p].sweep)
       IN  /\ dist' = [dist EXCEPT ![t] =
                  [Nothing EXCEPT !.archives = {a \in dist[t].archives : a.name # None}]]
           /\ swept' = [swept EXCEPT ![t] = command[p].number]
    /\ command' = [command EXCEPT ![p] = Swept(@)]
    /\ UNCHANGED <<packages, projectVars, cargoVars, overlap, count>>

\* remove_selected_build_artifacts: all kinds of output, whatever the mode is now.
Sweep(p) ==
    /\ At(p, "sweep") /\ command[p].sweep # <<>>
    /\ LET t == Head(command[p].sweep)
       IN  /\ dist' = [dist EXCEPT ![t] = Nothing]
           /\ swept' = [swept EXCEPT ![t] = command[p].number]
    /\ command' = [command EXCEPT ![p] = Swept(@)]
    /\ UNCHANGED <<packages, projectVars, cargoVars, overlap, count>>

\* sync_available_target_interfaces links the first package of every target that
\* has one, and the snapshot of the first of these.
Relink ==
    LET found == {i \in DOMAIN Target : Interfaces(Target[i]) # {}}
    IN  /\ link' = [t \in Targets |-> IF Interfaces(t) # {} THEN First(Interfaces(t)).root ELSE link[t]]
        /\ source' = IF found # {} THEN First(Interfaces(Target[Min(found)])).root ELSE source

\* Mutant: .elm/framework and .elm/dependencies are left where nothing has changed.
SyncInPlace(p) ==
    /\ At(p, "sync")
    /\ Relink
    /\ command' = Touch(p, Targets, [command EXCEPT ![p].step = "target"])
    /\ UNCHANGED <<packages, cargoVars, outputVars, overlap, count>>

\* sync_framework writes .elm/framework and .elm/dependencies anew: every file is
\* later than what Cargo compiled from it.
Sync(p) ==
    /\ At(p, "sync")
    /\ Relink
    /\ fresh' = IF ApiFollowsElm THEN [t \in Targets |-> {}] ELSE fresh
    /\ command' = Touch(p, Targets, [command EXCEPT ![p].step = "target"])
    /\ UNCHANGED <<packages, binary, library, newest, outputVars, overlap, count>>

\* The loop over the targets.
NextTarget(p) ==
    /\ At(p, "target")
    /\ LET all == Interfaces(Now(p))
           todo == IF command[p].mode = "m" THEN Distinct(all) ELSE all
       IN  IF all = {} THEN Fail(p)
           ELSE command' = [command EXCEPT ![p] =
                    [command[p] EXCEPT !.step = "unlink", !.todo = todo, !.several = Cardinality(all) > 1,
                              !.variants = <<>>]]
    /\ UNCHANGED <<packages, projectVars, cargoVars, outputVars, overlap, count>>

\* The end of a turn of the loop over the targets, and of that over the interfaces.
TargetDone(c) ==
    IF Tail(c.targets) = <<>> THEN Idle
    ELSE [c EXCEPT !.step = "target", !.targets = Tail(@), !.todo = {}, !.variants = <<>>,
                   !.flags = None]
InterfaceDone(c) ==
    IF c.todo # {First(c.todo)} THEN [c EXCEPT !.step = "unlink", !.todo = @ \ {First(@)}, !.flags = None]
    ELSE IF c.mode = "m" THEN [c EXCEPT !.step = "write"]
    ELSE TargetDone(c)

-----------------------------------------------------------------------------
(* activate_kernel_interface *)

\* Mutant: the interface that is linked is left.
UnlinkNothing(p) ==
    /\ At(p, "unlink")
    /\ command' = [command EXCEPT ![p] = [command[p] EXCEPT !.step = "snapshot", !.alone = TRUE]]
    /\ UNCHANGED <<packages, projectVars, cargoVars, outputVars, overlap, count>>

\* copy_target_interface: the manifest and the libraries are there, the old link goes.
Unlink(p) ==
    /\ At(p, "unlink")
    /\ IF packages[Current(p).root] = 0 THEN Fail(p) /\ UNCHANGED link
       ELSE /\ link' = [link EXCEPT ![Now(p)] = None]
            /\ command' = Touch(p, {Now(p)}, [command EXCEPT ![p] =
                   [command[p] EXCEPT !.step = "link", !.alone = TRUE]])
    /\ UNCHANGED <<packages, source, cargoVars, outputVars, overlap, count>>

\* The new link is renamed into place; the identity file is copied through it.
Link(p) ==
    /\ At(p, "link")
    /\ link' = [link EXCEPT ![Now(p)] = Current(p).root]
    /\ command' = Touch(p, {Now(p)}, IF packages[Current(p).root] = 0
                                   THEN [command EXCEPT ![p] = Idle]
                                   ELSE [command EXCEPT ![p].step = "snapshot"])
    /\ UNCHANGED <<packages, source, cargoVars, outputVars, overlap, count>>

\* install_lsp_source compares the package with the manifest the command read
\* when it chose its interfaces.
Snapshot(p) ==
    /\ At(p, "snapshot")
    /\ IF packages[Current(p).root] # Current(p).version THEN Fail(p) /\ UNCHANGED source
       ELSE /\ source' = Current(p).root
            /\ command' = [command EXCEPT ![p] = [command[p] EXCEPT !.step = "prepare", !.calm = TRUE]]
    /\ UNCHANGED <<packages, link, cargoVars, outputVars, overlap, count>>

-----------------------------------------------------------------------------
(* cargo_build, cargo_build_integrated, cargo_check *)

\* prepare_target_interface: the snapshot is made to agree with the interface
\* that is linked; without one, the first package of the target is linked.
Prepare(p) ==
    /\ At(p, "prepare")
    /\ LET t == Now(p)
           offered == Interfaces(t)
       IN  IF Active(t) # None
           THEN /\ source' = IF SourceOf(source) = SourceOf(link[t]) THEN source ELSE link[t]
                /\ Go(p, "load") /\ UNCHANGED link
           ELSE IF offered = {} THEN Fail(p) /\ UNCHANGED projectVars
           ELSE /\ link' = [link EXCEPT ![t] = First(offered).root]
                /\ source' = IF SourceOf(source) = First(offered).version THEN source
                             ELSE First(offered).root
                /\ command' = Touch(p, {t}, [command EXCEPT ![p].step = "load"])
    /\ UNCHANGED <<packages, cargoVars, outputVars, overlap, count>>

\* The link is followed to its package (target_interface_root); the flags for the
\* compiler are made from the manifest there and name the directory.
Load(p) ==
    /\ At(p, "load")
    /\ IF Active(Now(p)) = None THEN Fail(p)
       ELSE command' = [command EXCEPT ![p] = [command[p] EXCEPT !.step = "cargo",
                            !.flags = [root |-> link[Now(p)], hash |-> Active(Now(p))]]]
    /\ UNCHANGED <<packages, projectVars, cargoVars, outputVars, overlap, count>>

CargoDone(c) == CASE c.mode = "m" -> [c EXCEPT !.step = "pack"]
                  [] c.mode = "y" -> [c EXCEPT !.step = "archive"]
                  [] c.mode = "check" -> InterfaceDone(c)

\* cargo check makes no rlib.  Otherwise the API crate has a file for each set of
\* flags and features; Cargo compiles it, or leaves it if it is fresh.
CompileApi(p) ==
    LET t == Now(p)
        api == [mode |-> command[p].mode, flags |-> command[p].flags]
    IN  \/ /\ command[p].mode # "check"
           /\ newest' = [newest EXCEPT ![t] = api] /\ fresh' = [fresh EXCEPT ![t] = @ \cup {api}]
        \/ /\ command[p].mode = "check" \/ api \in fresh[t]
           /\ UNCHANGED <<newest, fresh>>

\* Cargo reads the package that the flags name.  Where it fails, it may have
\* compiled the API crate before.
Cargo(p) ==
    /\ At(p, "cargo")
    /\ LET t == Now(p)
           c == command[p]
           seen == Hash(c.flags.root)
           built == [flags |-> c.flags.hash, seen |-> seen]
       IN  \/ /\ seen # c.flags.hash /\ Fail(p)
              /\ UNCHANGED <<binary, library>> /\ (CompileApi(p) \/ UNCHANGED <<newest, fresh>>)
           \/ /\ seen # None
              /\ command' = Touch(p, IF c.mode = "check" THEN {} ELSE {t}, [command EXCEPT ![p] = CargoDone(@)])
              /\ binary' = IF c.mode = "m" THEN [binary EXCEPT ![t] = built] ELSE binary
              /\ library' = IF c.mode = "y" THEN [library EXCEPT ![t] = built] ELSE library
              /\ CompileApi(p)
    /\ UNCHANGED <<packages, projectVars, outputVars, overlap, count>>

-----------------------------------------------------------------------------
(* mode=m: an image for each interface, then one file. *)

\* pack_elf_project reads the manifest behind the link once more, for the stamp.
\* An image that was compiled against another interface may not pass its checks.
Pack(p) ==
    /\ At(p, "pack")
    /\ LET t == Now(p)
           new == [flags |-> binary[t].flags, seen |-> binary[t].seen, stamp |-> Active(t)]
       IN  \/ Active(t) # binary[t].seen /\ Fail(p) /\ UNCHANGED dist
           \/ /\ Active(t) # None /\ Go(p, "take")
              /\ dist' = [dist EXCEPT ![t].variants =
                     {v \in @ : v.hash # Current(p).hash} \cup {[hash |-> Current(p).hash, content |-> new]}]
    /\ UNCHANGED <<packages, projectVars, cargoVars, swept, overlap, count>>

\* The temporary image is read, removed and signed.
Take(p) ==
    /\ At(p, "take")
    /\ LET t == Now(p)
           left == {v \in dist[t].variants : v.hash = Current(p).hash}
       IN  IF left = {} THEN Fail(p) /\ UNCHANGED dist
           ELSE /\ dist' = [dist EXCEPT ![t].variants = @ \ left]
                /\ \E v \in left :
                      command' = [command EXCEPT ![p] = InterfaceDone(
                          [command[p] EXCEPT !.variants = Append(command[p].variants,
                              [record |-> v.hash, content |-> v.content,
                               calm |-> command[p].calm, alone |-> command[p].alone])])]
    /\ UNCHANGED <<packages, projectVars, cargoVars, swept, overlap, count>>

\* One image is written as it is, several as write_variant_bundle puts them
\* together; in place, and not all at once.
Write(p) ==
    /\ At(p, "write")
    /\ dist' = [dist EXCEPT ![Now(p)].image = [variants |-> command[p].variants, by |-> command[p].number]]
    /\ command' = [command EXCEPT ![p] = TargetDone(@)]
    /\ UNCHANGED <<packages, projectVars, cargoVars, swept, overlap, count>>

-----------------------------------------------------------------------------
(* mode=y: an archive for each interface. *)

\* The objects of the crate and of the newest rlib of its API crate
\* (newest_rlib_for_crate) become an archive.
Archive(p) ==
    /\ At(p, "archive")
    /\ LET t == Now(p)
           new == [name |-> None, main |-> library[t], api |-> newest[t], by |-> command[p].number,
                   calm |-> command[p].calm, alone |-> command[p].alone, solo |-> command[p].solo]
       IN  dist' = [dist EXCEPT ![t].archives = {a \in @ : a.name # None} \cup {new}]
    /\ command' = [command EXCEPT ![p] =
           IF command[p].several THEN [command[p] EXCEPT !.step = "rename"] ELSE InterfaceDone(@)]
    /\ UNCHANGED <<packages, projectVars, cargoVars, swept, overlap, count>>

\* build_integrated_profiles: with several interfaces each archive gets a name of its own.
Renamed(a, hash, alone) == [a EXCEPT !.name = hash, !.alone = a.alone /\ alone]
AfterRename(archives, hash, alone) ==
    {a \in archives : a.name \notin {None, hash}}
    \cup {Renamed(a, hash, alone) : a \in {a \in archives : a.name = None}}

RenameArchive(p) ==
    /\ At(p, "rename")
    /\ LET t == Now(p)
       IN  IF \A a \in dist[t].archives : a.name # None THEN Fail(p) /\ UNCHANGED dist
           ELSE /\ command' = [command EXCEPT ![p] = InterfaceDone(@)]
                /\ dist' = [dist EXCEPT ![t].archives = AfterRename(@, Current(p).hash, command[p].alone)]
    /\ UNCHANGED <<packages, projectVars, cargoVars, swept, overlap, count>>

\* A file operation or Cargo fails, or the process is killed; an image may be
\* torn, and the API crate compiled.
Stop(p) ==
    /\ ~At(p, "idle") /\ count.events < MaxEvents
    /\ count' = [count EXCEPT !.events = @ + 1]
    /\ Fail(p)
    /\ \/ UNCHANGED <<dist, newest, fresh>>
       \/ /\ At(p, "write") /\ dist' = [dist EXCEPT ![Now(p)].image = Torn]
          /\ UNCHANGED <<newest, fresh>>
       \/ At(p, "cargo") /\ CompileApi(p) /\ UNCHANGED dist
    /\ UNCHANGED <<packages, projectVars, binary, library, swept, overlap>>

-----------------------------------------------------------------------------

\* A project that has been created and never built.
Init ==
    /\ packages = [r \in Root |-> 1]
    /\ link = [t \in Targets |-> None] /\ source = None
    /\ binary = [t \in Targets |-> None] /\ library = [t \in Targets |-> None]
    /\ newest = [t \in Targets |-> None] /\ fresh = [t \in Targets |-> {}]
    /\ dist = [t \in Targets |-> Nothing]
    /\ command = [p \in Process |-> Idle]
    /\ swept = [t \in Targets |-> 0] /\ overlap = FALSE
    /\ count = [commands |-> 0, targets |-> 0, exports |-> 0, events |-> 0]

Step(p) ==
    \/ Sweep(p) \/ Sync(p) \/ NextTarget(p)
    \/ Unlink(p) \/ Link(p) \/ Snapshot(p) \/ Prepare(p) \/ Load(p) \/ Cargo(p)
    \/ Pack(p) \/ Take(p) \/ Write(p) \/ Archive(p) \/ RenameArchive(p)

Next ==
    \/ \E r \in Root : RemovePackage(r) \/ InstallPackage(r)
    \/ \E p \in Process : BeginBuild(p) \/ BeginCheck(p) \/ Step(p) \/ Stop(p)

Spec == Init /\ [][Next]_vars

-----------------------------------------------------------------------------
(* Properties. *)

\* A target with one interface only, whatever number of kernels have it.
Alike(t) == count.exports = 0 /\ \A q, r \in Root : TargetOf[q] = t /\ TargetOf[r] = t => Profile[q] = Profile[r]

\* cmd_build, activate_kernel_interface, pack_elf_project: each image in a file
\* was compiled with the flags and the metadata of the interface it is recorded
\* and stamped for, although these are read at different times: unless the
\* package was replaced after it had been activated, or another command of the
\* project set the link, and to another interface.  Earlier commands, killed
\* ones, and packages that were replaced before do no harm.
ImageAsRecorded ==
    \A t \in Targets :
        dist[t].image \notin {None, Torn} =>
            \A i \in DOMAIN dist[t].image.variants :
                LET v == dist[t].image.variants[i]
                IN  v.calm /\ (v.alone \/ Alike(t)) =>
                        {v.content.flags, v.content.seen, v.content.stamp} = {v.record}

\* build_integrated_profiles: an archive is the one of the interface in its name.
ArchiveAsNamed ==
    \A t \in Targets : \A a \in dist[t].archives :
        a.calm /\ (a.alone \/ Alike(t)) /\ a.name # None =>
            a.main.flags = a.name /\ a.main.seen = a.name

\* remove_selected_build_artifacts: what is in dist was made by the last build
\* that selected the target: not by one before it, in another mode or against
\* interfaces that are no more, also when that last build has failed.
DistIsLatest ==
    ~overlap =>
        \A t \in Targets :
            /\ dist[t].image \notin {None, Torn} => dist[t].image.by = swept[t]
            /\ \A a \in dist[t].archives : a.by = swept[t]

\* The API crate in an archive was compiled as the module was.
OwnApi(a) == a.api # None /\ a.api.mode = "y" /\ a.api.flags.hash = a.main.flags

\* build_integrated_profiles, newest_rlib_for_crate: that rlib is chosen by its
\* time, among those of all interfaces, modes and builds, and yet the API crate in
\* an archive is the one compiled with the module, as long as it depends on what
\* sync_framework writes: whatever builds were killed or failed before, if from
\* the beginning of the build no other command ran and no package changed.
\* (Without the dependency Cargo leaves the API crate as it is, and the newest
\* may be that of another interface or mode.)
ArchiveOwnApi ==
    ApiFollowsElm => \A t \in Targets : \A a \in dist[t].archives : a.solo => OwnApi(a)

-----------------------------------------------------------------------------
(* The inductive invariants. *)

Turn == {"unlink", "link", "snapshot", "prepare", "load", "cargo", "pack", "take", "archive", "rename"}

\* What a command has chosen for a target, when it read the packages.
IsChoice(b, t) ==
    /\ b.place \in Nat /\ b.root \in Root /\ TargetOf[b.root] = t
    /\ b.version \in Nat \ {0}
    /\ b.hash = <<Profile[b.root], b.version>>

IsCommand(c) ==
    /\ c = [step |-> c.step, mode |-> c.mode, number |-> c.number, targets |-> c.targets,
            sweep |-> c.sweep, todo |-> c.todo, several |-> c.several, flags |-> c.flags,
            variants |-> c.variants, calm |-> c.calm, alone |-> c.alone, solo |-> c.solo]
    /\ c.step \in {"sweep", "sync", "target", "write"} \cup Turn
    /\ c.mode \in {"n", "m", "y", "check"} /\ c.calm \in BOOLEAN /\ c.alone \in BOOLEAN
    /\ c.solo \in BOOLEAN
    /\ c.targets \in Seq(Targets) \ {<<>>} /\ c.sweep \in Seq(Targets)
    /\ c.step = "sweep" => c.mode # "check"
    /\ c.step # "sweep" => c.sweep = <<>> /\ c.mode # "n"
    /\ c.step \in {"pack", "take", "write"} => c.mode = "m"
    /\ c.step \in {"archive", "rename"} => c.mode = "y"
    /\ c.step \in Turn => c.todo # {} /\ \A b \in c.todo : IsChoice(b, Head(c.targets))
    /\ c.variants \in Seq({c.variants[i] : i \in DOMAIN c.variants})

IsArchive(a) ==
    /\ a = [name |-> a.name, main |-> a.main, api |-> a.api, by |-> a.by, calm |-> a.calm,
            alone |-> a.alone, solo |-> a.solo]
    /\ a.calm \in BOOLEAN /\ a.alone \in BOOLEAN /\ a.solo \in BOOLEAN

IsOutput(o) ==
    /\ o = [image |-> o.image, variants |-> o.variants, archives |-> o.archives]
    /\ \A a \in o.archives : IsArchive(a)

StoreTyped ==
    /\ packages \in [Root -> Nat]
    /\ count = [commands |-> count.commands, targets |-> count.targets, exports |-> count.exports,
                events |-> count.events]
    /\ count.exports \in Nat /\ (count.exports = 0 => \A r \in Root : packages[r] = 1)
    /\ link \in [Targets -> Root \cup {None}]
    /\ \A t \in Targets : link[t] # None => TargetOf[link[t]] = t
    /\ binary = [t \in Targets |-> binary[t]] /\ library = [t \in Targets |-> library[t]]
    /\ swept = [t \in Targets |-> swept[t]] /\ overlap \in BOOLEAN
    /\ dist = [t \in Targets |-> dist[t]] /\ \A t \in Targets : IsOutput(dist[t])

\* Before a package was exported again there is the first version of each.
FirstVersion(c) == count.exports = 0 /\ c.step \in Turn => \A b \in c.todo : b.version = 1

Typed ==
    /\ StoreTyped
    /\ command = [p \in Process |-> command[p]]
    /\ \A p \in Process : command[p] # Idle => IsCommand(command[p]) /\ FirstVersion(command[p])

\* One build at a time has emptied dist for each of its targets that it is not
\* still to empty, and whatever is there is its own.
Building(p) == command[p] # Idle /\ command[p].mode # "check"
SweptBy(c) ==
    \A i \in DOMAIN c.targets :
        (\E j \in DOMAIN c.sweep : c.sweep[j] = c.targets[i]) \/ swept[c.targets[i]] = c.number
LatestInv ==
    /\ DistIsLatest
    /\ ~overlap => \A p \in Process : Building(p) =>
           SweptBy(command[p]) /\ \A q \in Process : Building(q) => q = p

Built(h) == [flags |-> h, seen |-> h]
Stamped(h) == [flags |-> h, seen |-> h, stamp |-> h]

\* What a command can rely on at each step of a turn, if the package is the one
\* it activated and nobody else had to do with the target, or if it does not matter.
TurnOK(c) ==
    LET t == Head(c.targets)
        mine == First(c.todo)
        fine == (c.calm /\ c.alone) \/ Alike(t)
    IN  /\ c.step \in Turn \ {"unlink", "link", "snapshot"} /\ c.calm => packages[mine.root] = mine.version
        /\ c.step \in Turn \ {"unlink", "link"} /\ c.alone /\ (c.step = "snapshot" \/ c.calm) =>
              link[t] = mine.root
        /\ c.step = "cargo" /\ fine => c.flags.hash = mine.hash /\ Hash(c.flags.root) = mine.hash
        /\ c.step \in {"pack", "take"} /\ fine => binary[t] = Built(mine.hash)
        /\ c.step \in {"archive", "rename"} /\ fine => library[t] = Built(mine.hash)
        /\ c.step = "take" /\ fine =>
              \A v \in dist[t].variants : v.hash = mine.hash => v.content = Stamped(mine.hash)
        /\ c.step = "rename" => \A a \in dist[t].archives :
              a.name = None /\ a.calm /\ ((a.alone /\ c.alone) \/ Alike(t)) => a.main = Built(mine.hash)
VariantsOK(variants, t) ==
    \A i \in DOMAIN variants : variants[i].calm /\ (variants[i].alone \/ Alike(t)) =>
        variants[i].content = Stamped(variants[i].record)

\* Two commands are not both alone with a target.
Alone(p, q) ==
    command[p] # Idle /\ command[q] # Idle /\ Now(p) = Now(q)
    /\ command[p].step \in Turn \ {"unlink"} /\ command[q].step \in Turn \ {"unlink"}
    /\ command[p].alone /\ command[q].alone => p = q

InterfaceInv ==
    /\ \A p \in Process : command[p] # Idle =>
           TurnOK(command[p]) /\ VariantsOK(command[p].variants, Now(p))
    /\ \A p, q \in Process : Alone(p, q)
    /\ \A t \in Targets : dist[t].image \notin {None, Torn} => VariantsOK(dist[t].image.variants, t)
    /\ ArchiveAsNamed

\* What a turn is still to compile against.
Left(c) ==
    IF c.step \in {"pack", "take", "archive", "rename"} THEN c.todo \ {First(c.todo)} ELSE c.todo

\* Nothing that this build is still to compile is fresh, and what it has just
\* compiled is the newest.
OwnApiTurn(c) ==
    LET t == Head(c.targets)
        mine == First(c.todo)
    IN  /\ c.step \in Turn => \A k \in fresh[t] : \A b \in Left(c) : k.flags.root # b.root
        /\ c.step = "target" => fresh[t] = {}
        /\ c.step \in Turn \cup {"target", "write"} =>
              \A i \in DOMAIN c.targets : i # 1 => fresh[c.targets[i]] = {}
        /\ c.step = "archive" =>
              newest[t] = [mode |-> "y", flags |-> [root |-> mine.root, hash |-> mine.hash]]

OwnCommand(c) ==
    /\ \A i, j \in DOMAIN c.targets : c.targets[i] = c.targets[j] => i = j
    /\ c.step \in Turn => \A b, other \in c.todo : b.root = other.root => b = other
    /\ c.solo => /\ c.calm /\ c.alone
                 /\ c.step = "cargo" =>
                       c.flags = [root |-> First(c.todo).root, hash |-> c.flags.hash]
                 /\ ApiFollowsElm /\ c.mode # "check" => OwnApiTurn(c)

OwnApiInv ==
    /\ ArchiveOwnApi
    /\ newest = [t \in Targets |-> newest[t]] /\ fresh = [t \in Targets |-> fresh[t]]
    /\ \A p \in Process : command[p] # Idle =>
           /\ OwnCommand(command[p])
           /\ command[p].solo => \A q \in Process \ {p} : command[q] = Idle
=============================================================================
