------------------------------ MODULE BuildSet ------------------------------
(***************************************************************************)
(* build_set of src/build_set.rs: one run builds every enabled module of a *)
(* set into one output directory.  The set is validated and ordered, the   *)
(* directory is emptied, each module is built by a child cargo-elm that    *)
(* finds the APIs published so far in the directory, its artifact is       *)
(* copied, and at the end the archives are deduplicated and the two lists  *)
(* are written.  Runs follow one another on the same directory and may     *)
(* stop anywhere, by an error or by a kill.                                *)
(***************************************************************************)
EXTENDS Naturals, Sequences, FiniteSets

CONSTANTS
    Module,    \* module names
    Sets,      \* the module sets that are built: records, see SetType
    MayStop,   \* whether an operation may fail or the process be killed
    MaxRuns    \* bound on the runs

Mode == {"y", "m", "n"}       \* Integrated, Managed, Disabled

\* A file is absent, made by an earlier run, made by this run, or half written.
Age == {"none", "old", "new", "torn"}

\* What Modules.toml and the Elm.toml files of the set say.
SetType(s) ==
    /\ s.listing \in Seq(Module)           \* the modules in file order, each once
    /\ \A i, j \in DOMAIN s.listing : s.listing[i] = s.listing[j] => i = j
    /\ s.active \subseteq Module           \* those whose targets admit the target
    /\ s.depends \in [Module -> SUBSET Module]
    /\ s.after \in [Module -> SUBSET Module]
    /\ s.named \subseteq Module            \* those whose Elm.toml has the listed name
    /\ s.api \subseteq Module              \* those that publish an API crate
    /\ s.uses \in [Module -> SUBSET Module]  \* the API crates the Elm.toml asks for

ASSUME SetsAssumption ==
    /\ \A s \in Sets : SetType(s)
    /\ MayStop \in BOOLEAN /\ MaxRuns \in Nat

VARIABLES
    set, mode,   \* the set of the run and the mode its configuration gives each module
    requires, kept, rest, progress, output, verdict,   \* topological_order
    archives, built, seen, index, rebuilt, dedup,      \* the deduplication
    step,        \* where the run is
    place,       \* the module of the loop, a place in output
    managed, integrated,   \* the modules installed so far
    dist,        \* dist[m]: the artifact in the project's dist directory
    image,       \* image[m]: the copy of it in the output directory
    apis,        \* apis[m]: the API snapshot in output/.apis
    manifest,    \* modules.manifest: its age and what it lists
    list,        \* integrated.archives: its age and what it lists
    runs         \* runs started

orderVars == <<requires, kept, rest, progress, output, verdict>>
dedupVars == <<archives, built, seen, index, rebuilt, dedup>>
files == <<dist, image, apis, manifest, list>>
vars == <<set, mode, orderVars, dedupVars, step, place, managed, integrated, files, runs>>

Order == INSTANCE ModuleOrder
Dedup == INSTANCE ArchiveDedup WITH
            Name <- Nat, Body <- Module \X {"module", "api"}, MayFail <- MayStop

NoList == [age |-> "none", lists |-> <<>>]
TornList == [age |-> "torn", lists |-> <<>>]
Elements(s) == {s[i] : i \in DOMAIN s}
Aged(age) == IF age = "new" THEN "old" ELSE age

Waiting == {"idle", "done", "stopped"}
Stop == step' = "stopped"

Start ==
    /\ step \in Waiting /\ runs < MaxRuns
    /\ set' \in Sets /\ mode' \in [Module -> Mode]
    /\ step' = "parse" /\ runs' = runs + 1
    /\ place' = 1 /\ managed' = <<>> /\ integrated' = <<>>
    /\ dist' = [m \in Module |-> Aged(dist[m])]
    /\ image' = [m \in Module |-> Aged(image[m])]
    /\ apis' = [m \in Module |-> Aged(apis[m])]
    /\ manifest' = [manifest EXCEPT !.age = Aged(manifest.age)]
    /\ list' = [list EXCEPT !.age = Aged(list.age)]
    /\ UNCHANGED <<orderVars, dedupVars>>

-----------------------------------------------------------------------------
(* Validation. *)

\* The loop of active_modules that keeps the modules for the target.
Active ==
    LET upTo[i \in 0 .. Len(set.listing)] ==
            IF i = 0 THEN <<>>
            ELSE IF set.listing[i] \in set.active THEN Append(upTo[i - 1], set.listing[i])
            ELSE upTo[i - 1]
    IN  upTo[Len(set.listing)]

\* Hard dependencies, and the soft ones that are active.
Needs == [m \in Elements(Active) |-> set.depends[m] \cup (set.after[m] \cap Elements(Active))]

\* active_modules: a hard dependency that is unknown or inactive is refused.
SelectActive ==
    /\ step = "parse"
    /\ IF \A m \in Elements(Active) : set.depends[m] \subseteq Elements(Active)
       THEN /\ Order!OrderStart(Active, Needs)
            /\ step' = "order"
       ELSE Stop /\ UNCHANGED orderVars
    /\ UNCHANGED <<set, mode, dedupVars, place, managed, integrated, files, runs>>

Sort ==
    /\ step = "order"
    /\ Order!OrderNext
    /\ UNCHANGED <<set, mode, dedupVars, step, place, managed, integrated, files, runs>>

Sorted ==
    /\ step = "order" /\ verdict # "running"
    /\ step' = IF verdict = "ordered" THEN "validate" ELSE "stopped"
    /\ UNCHANGED <<set, mode, orderVars, dedupVars, place, managed, integrated, files, runs>>

Enabled(m) == mode[m] # "n"

\* validate_enabled_dependencies: what an enabled module depends on has its mode.
ModesAgree ==
    \A m \in Elements(output) : Enabled(m) => \A d \in set.depends[m] : mode[d] = mode[m]

Validate ==
    /\ step = "validate"
    /\ step' = IF ModesAgree THEN "clean" ELSE "stopped"
    /\ UNCHANGED <<set, mode, orderVars, dedupVars, place, managed, integrated, files, runs>>

-----------------------------------------------------------------------------
(* The output directory. *)

\* Mutant: the images are removed one by one, the lists are left.
CleanImages ==
    /\ step = "clean"
    /\ image' = [m \in Module |-> "none"] /\ apis' = [m \in Module |-> "none"]
    /\ step' = "interface"
    /\ UNCHANGED <<set, mode, orderVars, dedupVars, place, managed, integrated, dist, manifest, list, runs>>

\* remove_dir_all, then the directory and those for the APIs and the cache.
Clean ==
    /\ step = "clean"
    /\ image' = [m \in Module |-> "none"] /\ apis' = [m \in Module |-> "none"]
    /\ manifest' = NoList /\ list' = NoList
    /\ step' = "interface"
    /\ UNCHANGED <<set, mode, orderVars, dedupVars, place, managed, integrated, dist, runs>>

\* The removal stops with any part of the files gone.
StopInClean ==
    /\ MayStop /\ step = "clean"
    /\ \E gone \in SUBSET Module, gone2 \in SUBSET Module :
          /\ image' = [m \in Module |-> IF m \in gone THEN "none" ELSE image[m]]
          /\ apis' = [m \in Module |-> IF m \in gone2 THEN "none" ELSE apis[m]]
    /\ manifest' \in {manifest, NoList} /\ list' \in {list, NoList}
    /\ Stop
    /\ UNCHANGED <<set, mode, orderVars, dedupVars, place, managed, integrated, dist, runs>>

\* selected_interface: the repository has one profile for the target.
SelectInterface ==
    /\ step = "interface"
    /\ step' = "modules"
    /\ UNCHANGED <<set, mode, orderVars, dedupVars, place, managed, integrated, files, runs>>

-----------------------------------------------------------------------------
(* The loop over the modules. *)

Here == output[place]

Skip ==
    /\ step = "modules" /\ place <= Len(output) /\ ~Enabled(Here)
    /\ place' = place + 1
    /\ UNCHANGED <<set, mode, orderVars, dedupVars, step, managed, integrated, files, runs>>

\* The Elm.toml of the project has another name than the set.
RefuseName ==
    /\ step = "modules" /\ place <= Len(output) /\ Enabled(Here) /\ Here \notin set.named
    /\ Stop
    /\ UNCHANGED <<set, mode, orderVars, dedupVars, place, managed, integrated, files, runs>>

\* Mutant: the child does not remove the artifacts of an earlier build.
StartChildKeeping ==
    /\ step = "modules" /\ place <= Len(output) /\ Enabled(Here) /\ Here \in set.named
    /\ step' = "child"
    /\ UNCHANGED <<set, mode, orderVars, dedupVars, place, managed, integrated, files, runs>>

\* The child starts, and removes the artifacts of an earlier build.
StartChild ==
    /\ step = "modules" /\ place <= Len(output) /\ Enabled(Here) /\ Here \in set.named
    /\ dist' = [dist EXCEPT ![Here] = "none"]
    /\ step' = "child"
    /\ UNCHANGED <<set, mode, orderVars, dedupVars, place, managed, integrated, image, apis, manifest, list, runs>>

\* The child finds the APIs it uses and succeeds; it may have written another
\* artifact than the one the run looks for.
ChildSucceeds ==
    /\ step = "child"
    /\ \A d \in set.uses[Here] : apis[d] # "none"
    /\ dist' \in {[dist EXCEPT ![Here] = "new"]} \cup (IF MayStop THEN {dist} ELSE {})
    /\ step' = "publish"
    /\ UNCHANGED <<set, mode, orderVars, dedupVars, place, managed, integrated, image, apis, manifest, list, runs>>

\* sync_dependency_apis of the child does not find an API.
ChildMissesApi ==
    /\ step = "child"
    /\ \E d \in set.uses[Here] : apis[d] = "none"
    /\ Stop
    /\ UNCHANGED <<set, mode, orderVars, dedupVars, place, managed, integrated, files, runs>>

\* Mutant: the API is published only by a managed module.
PublishManaged ==
    /\ step = "publish"
    /\ apis' = IF Here \in set.api /\ mode[Here] = "m" THEN [apis EXCEPT ![Here] = "new"] ELSE apis
    /\ step' = "install"
    /\ UNCHANGED <<set, mode, orderVars, dedupVars, place, managed, integrated, dist, image, manifest, list, runs>>

Publish ==
    /\ step = "publish"
    /\ apis' = IF Here \in set.api THEN [apis EXCEPT ![Here] = "new"] ELSE apis
    /\ step' = "install"
    /\ UNCHANGED <<set, mode, orderVars, dedupVars, place, managed, integrated, dist, image, manifest, list, runs>>

\* The artifact is there: it is copied and the module noted.
Install ==
    /\ step = "install" /\ dist[Here] # "none"
    /\ image' = [image EXCEPT ![Here] = dist[Here]]
    /\ managed' = IF mode[Here] = "m" THEN Append(managed, Here) ELSE managed
    /\ integrated' = IF mode[Here] = "y" THEN Append(integrated, Here) ELSE integrated
    /\ place' = place + 1 /\ step' = "modules"
    /\ UNCHANGED <<set, mode, orderVars, dedupVars, dist, apis, manifest, list, runs>>

NoArtifact ==
    /\ step = "install" /\ dist[Here] = "none"
    /\ Stop
    /\ UNCHANGED <<set, mode, orderVars, dedupVars, place, managed, integrated, files, runs>>

-----------------------------------------------------------------------------
(* The end of the run. *)

Number(m) == CHOOSE i \in DOMAIN set.listing : set.listing[i] = m

\* The integrated archive of m: its own object, those of the APIs it uses and its API's.
Contents(m) ==
    {[name |-> 0, body |-> <<m, "module">>]} \cup
    {[name |-> Number(d), body |-> <<d, "api">>] : d \in set.uses[m] \cup ({m} \cap set.api)}

StartDedup ==
    /\ step = "modules" /\ place > Len(output)
    /\ Dedup!DedupStart([i \in DOMAIN integrated |-> Contents(integrated[i])])
    /\ step' = "dedup"
    /\ UNCHANGED <<set, mode, orderVars, place, managed, integrated, files, runs>>

Deduplicate ==
    /\ step = "dedup"
    /\ Dedup!DedupNext
    /\ UNCHANGED <<set, mode, orderVars, step, place, managed, integrated, files, runs>>

Deduplicated ==
    /\ step = "dedup" /\ dedup \in {"ok", "error", "killed"}
    /\ step' = IF dedup = "ok" THEN "manifest" ELSE "stopped"
    /\ UNCHANGED <<set, mode, orderVars, dedupVars, place, managed, integrated, files, runs>>

WriteManifest ==
    /\ step = "manifest"
    /\ manifest' = [age |-> "new", lists |-> managed]
    /\ step' = "list"
    /\ UNCHANGED <<set, mode, orderVars, dedupVars, place, managed, integrated, dist, image, apis, list, runs>>

WriteList ==
    /\ step = "list"
    /\ list' = [age |-> "new", lists |-> integrated]
    /\ step' = "done"
    /\ UNCHANGED <<set, mode, orderVars, dedupVars, place, managed, integrated, dist, image, apis, manifest, runs>>

\* An operation fails or the process is killed.  An artifact, a copy or a list that was
\* being written is torn, a snapshot that was being replaced may be gone.
StopElsewhere ==
    /\ MayStop
    /\ \/ /\ step \in {"parse", "interface", "modules", "install", "manifest", "list"}
          /\ UNCHANGED <<dist, image, apis, manifest, list>>
       \/ /\ step = "child" /\ dist' \in {dist, [dist EXCEPT ![Here] = "torn"]}
          /\ UNCHANGED <<image, apis, manifest, list>>
       \/ /\ step = "publish" /\ apis' \in {apis, [apis EXCEPT ![Here] = "none"]}
          /\ UNCHANGED <<dist, image, manifest, list>>
       \/ /\ step = "install" /\ dist[Here] # "none" /\ image' = [image EXCEPT ![Here] = "torn"]
          /\ UNCHANGED <<dist, apis, manifest, list>>
       \/ /\ step = "manifest" /\ manifest' = TornList
          /\ UNCHANGED <<dist, image, apis, list>>
       \/ /\ step = "list" /\ list' = TornList
          /\ UNCHANGED <<dist, image, apis, manifest>>
    /\ Stop
    /\ UNCHANGED <<set, mode, orderVars, dedupVars, place, managed, integrated, runs>>

Steps == \/ SelectActive \/ Sort \/ Sorted \/ Validate \/ Clean \/ SelectInterface
         \/ Skip \/ RefuseName \/ StartChild \/ ChildSucceeds \/ ChildMissesApi \/ Publish \/ Install
         \/ NoArtifact \/ StartDedup \/ Deduplicate \/ Deduplicated \/ WriteManifest \/ WriteList
Next == Start \/ Steps \/ StopInClean \/ StopElsewhere

Init ==
    /\ set \in Sets /\ mode = [m \in Module |-> "n"]
    /\ Order!OrderInit(<<>>, <<>>) /\ Dedup!DedupInit(<<>>)
    /\ step = "idle" /\ place = 1 /\ managed = <<>> /\ integrated = <<>>
    /\ dist = [m \in Module |-> "none"] /\ image = [m \in Module |-> "none"]
    /\ apis = [m \in Module |-> "none"]
    /\ manifest = NoList /\ list = NoList /\ runs = 0

Spec == Init /\ [][Next]_vars

-----------------------------------------------------------------------------
(* Properties. *)

\* build_set: when the child that builds a module runs, each module it depends
\* on has been built by this run in the same mode, and its API is published; of
\* the modules it comes after, those that are built have been built.
DependenciesReady ==
    step = "child" =>
        /\ \A d \in set.depends[Here] :
              mode[d] = mode[Here] /\ image[d] = "new" /\ (d \in set.api => apis[d] = "new")
        /\ \A d \in set.after[Here] \cap Elements(Active) : Enabled(d) => image[d] = "new"

\* write_integrated_archives comes last.  After Ok, and whenever the list of this
\* run is there, the lists name the enabled modules, each with an image of this
\* run, and an object the integrated archives need is linked exactly once.
DoneIsComplete ==
    step = "done" \/ list.age = "new" =>
        /\ manifest.age = "new" /\ list.age = "new"
        /\ Elements(manifest.lists) = {m \in Elements(Active) : mode[m] = "m"}
        /\ Elements(list.lists) = {m \in Elements(Active) : mode[m] = "y"}
        /\ \A m \in Elements(manifest.lists) \cup Elements(list.lists) : image[m] = "new"
        /\ Dedup!Held(archives) = UNION {Dedup!Bodies(Contents(m)) : m \in Elements(list.lists)}
        /\ Dedup!LinkedOnce

\* remove_dir_all before the first module: the lists of one run never stand
\* beside the images of another, also when runs stop half way.
OutputNotMixed ==
    \A l \in {manifest, list} : \A m \in Elements(l.lists) : image[m] \in {l.age, "none"}

-----------------------------------------------------------------------------
(* The inductive invariant. *)

Ordering == {"order", "validate", "clean"}
Loop == {"modules", "child", "publish", "install"}
Ending == {"dedup", "manifest", "list", "done"}
Emptied == {"interface"} \cup Loop \cup Ending

List == [age : Age, lists : Seq(Module)]

BuildTypeOK ==
    /\ set \in Sets /\ mode \in [Module -> Mode]
    /\ dist \in [Module -> Age] /\ image \in [Module -> Age] /\ apis \in [Module -> Age]
    /\ manifest \in List /\ list \in List
    /\ step \in {"idle", "stopped", "parse"} \cup Ordering \cup Emptied
    /\ place \in Nat \ {0} /\ managed \in Seq(Module) /\ integrated \in Seq(Module)

\* What the run knows of the order of its modules.
InOrder ==
    /\ Order!OrderInv
    /\ step \in Ordering \cup Emptied =>
          /\ requires = Needs
          /\ \A m \in Elements(Active) : set.depends[m] \subseteq Elements(Active)
    /\ step \in {"validate", "clean"} \cup Emptied => verdict = "ordered"
    /\ step \in {"clean"} \cup Emptied => ModesAgree

\* The modules before place have been built, published and noted.
BuiltSoFar ==
    /\ step \in {"parse", "interface"} \cup Ordering =>
          place = 1 /\ managed = <<>> /\ integrated = <<>>
    /\ step \in Loop => place <= Len(output) + 1
    /\ step \in Ending => place = Len(output) + 1
    /\ step \in Emptied =>
          /\ Elements(managed) = {output[j] : j \in {j \in 1 .. (place - 1) : mode[output[j]] = "m"}}
          /\ Elements(integrated) = {output[j] : j \in {j \in 1 .. (place - 1) : mode[output[j]] = "y"}}
          /\ \A j \in 1 .. (place - 1) : Enabled(output[j]) =>
                /\ image[output[j]] = "new"
                /\ output[j] \in set.api => apis[output[j]] = "new"
                /\ set.uses[output[j]] \subseteq Elements(output)
          /\ \A d \in Module : apis[d] # "none" => d \in Elements(output)

\* How far the module at place is.
AtPlace ==
    /\ step \in {"child", "publish", "install"} =>
          place <= Len(output) /\ Enabled(Here) /\ dist[Here] \in {"none", "new"}
    /\ step \in {"publish", "install"} => set.uses[Here] \subseteq Elements(output)
    /\ step = "install" /\ Here \in set.api => apis[Here] = "new"

\* The lists are the last files of a run.
ListsLast ==
    /\ OutputNotMixed
    /\ step \in Emptied \ {"list", "done"} => manifest = NoList
    /\ step \in Emptied \ {"done"} => list = NoList
    /\ step \in {"list", "done"} => manifest = [age |-> "new", lists |-> managed]
    /\ step = "done" => list = [age |-> "new", lists |-> integrated]
    /\ list.age = "new" => step = "done"

\* The deduplication walks over the archives of this run.
Deduplicating ==
    /\ Dedup!DedupInv
    /\ step \in Ending => built = [i \in DOMAIN integrated |-> Contents(integrated[i])]
    /\ step \in {"manifest", "list", "done"} => dedup = "ok"

BuildInv == BuildTypeOK /\ InOrder /\ BuiltSoFar /\ AtPlace /\ ListsLast /\ Deduplicating
=============================================================================
