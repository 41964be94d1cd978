--------------------------- MODULE InterfaceCache ---------------------------
(***************************************************************************)
(* How a project gets the kernel interface that its module is compiled     *)
(* against: sync_framework, activate_kernel_interface and the repositories *)
(* they search, in src/project.rs.  The kernel exports interface packages, *)
(* one per target and profile; a project keeps one link per target to a    *)
(* package, one link to kernel sources for the language server, a copy of  *)
(* the framework with the identities of the interfaces, a Cargo            *)
(* configuration and Elm.lock.  None of them changes together with         *)
(* another, and a command may fail or be killed between any two.           *)
(***************************************************************************)
EXTENDS Naturals, Sequences, FiniteSets

CONSTANTS
    Targets,       \* the three targets, in the order of the code
    Package,       \* the packages of a target, numbers ordered like their profiles
    ProfileOf,     \* the kernel API profile each of them is of
    Offered,       \* the directories that may hold a package: target and number
    Repositories,  \* what the directory named by the environment may hold of them
    Checkout,      \* those in build/elm-interface of the kernel
    Home,          \* those in the cache of the user
    Wants,         \* the profile lists Elm.toml may have, by priority
    MaxCommit,     \* bound on the kernel commits
    MaxCommands,   \* bound on the commands
    MaxFaults      \* bound on failing operations, kills and packages that do not load

Target == {Targets[i] : i \in DOMAIN Targets}

ASSUME CacheAssumption ==
    /\ Targets \in Seq(Target) /\ \A i, j \in DOMAIN Targets : Targets[i] = Targets[j] => i = j
    /\ Package \subseteq Nat \ {0} /\ IsFiniteSet(Package)
    /\ Offered \subseteq Target \X Package
    /\ Repositories \subseteq SUBSET Offered /\ Checkout \subseteq Offered /\ Home \subseteq Offered
    /\ \A wants \in Wants : wants \in Seq({ProfileOf[q] : q \in Package})
    /\ MaxCommit \in Nat /\ MaxCommands \in Nat /\ MaxFaults \in Nat

VARIABLES
    commit,      \* the commit the kernel sources are at
    repository,  \* repository[t][q]: the commit the package was exported from, 0: none that loads
    outdated,    \* the directories whose manifest.txt does not load: an older format, half written
    wants,       \* the profiles Elm.toml asks for
    framework,   \* .elm/framework: its commit (0: missing) and the identities in it
    link,        \* link[t]: the package .elm/kernel-interface/t leads to, 0: no link
    sources,     \* the package .elm/kernel-source leads to, <<>>: no link
    cargoConfig, \* the interface .cargo/config.toml was made for
    lock,        \* the interfaces Elm.lock lists
    call,        \* the command: what it is, from where, and the repository of its environment
    pc, loop,    \* where it is; within sync_framework or a build
    index,       \* the target sync_framework is at
    installed,   \* whether it has installed the sources
    chosen,      \* the framework it has chosen
    job,         \* the target and package being installed
    todo,        \* the targets and packages still to be built
    aside,       \* the framework and the source link set aside while they are replaced
    hadSources, hadFramework,   \* whether they were there when the command began (history)
    missed,      \* the targets of a lookup that failed once and was skipped (history)
    faults, killed, commands    \* those so far, whether one was a kill, commands so far

world == <<commit, repository, outdated, wants>>
local == <<framework, link, sources, cargoConfig, lock>>
control == <<call, loop, index, installed, chosen, job, todo, aside>>
had == <<hadSources, hadFramework, killed, commands>>
history == <<had, missed, faults>>
vars == <<world, local, pc, control, history>>

NoHash == <<>>
Hash(t, q) == <<t, ProfileOf[q], repository[t][q]>>
NoFramework == [commit |-> 0, identity |-> [t \in Target |-> NoHash], host |-> NoHash]

-----------------------------------------------------------------------------
(* What a command finds. *)

Exists(x) == repository[x[1]][x[2]] # 0 \/ x \in outdated

\* The links that lead to a directory with a manifest, and those whose
\* manifest loads.
Links == {x \in Target \X Package : link[x[1]] = x[2] /\ Exists(x)}
Loads(t) == link[t] # 0 /\ repository[t][link[t]] # 0

\* interface_bundle_root: the directory of the environment; the links of the
\* project the command was started in, once one leads to a manifest; the
\* kernel's directory or the user's.
Searched == IF call.project /\ Links # {} THEN Links ELSE call.root

\* available_kernel_interfaces: the packages of a target.  The lookup fails if
\* one manifest does not load, and below a directory that is itself a package
\* for every other target.
Available(t) == {q \in Package : <<t, q>> \in Searched /\ repository[t][q] # 0}
Fails(t) == \E x \in Searched : Exists(x) /\ IF x[1] = t THEN x \in outdated ELSE call.single
Found(t) == Available(t) # {} /\ ~Fails(t)

\* What a loop over the targets skips: the lookups that fail, and any that
\* fails this once.
Skipped(T) ==
    /\ T \subseteq {x[1] : x \in {y \in Searched : Exists(y)}}
    /\ T # {} => faults < MaxFaults
    /\ faults' = (IF T = {} THEN faults ELSE faults + 1) /\ missed' = missed \cup T
    /\ UNCHANGED <<world, call, had>>

Lowest(S) == CHOOSE p \in S : \A q \in S : p <= q
Wanted(q) == wants = <<>> \/ \E i \in DOMAIN wants : wants[i] = ProfileOf[q]

\* sync_available_target_interfaces: the first profile Elm.toml asks for, or
\* the first there is.
Asked(t) == {i \in DOMAIN wants : \E q \in Available(t) : ProfileOf[q] = wants[i]}
Choice(t) ==
    IF Asked(t) = {} THEN Lowest(Available(t))
    ELSE Lowest({q \in Available(t) : ProfileOf[q] = wants[Lowest(Asked(t))]})

\* packaged_framework_root: the packages whose framework could be taken, which
\* have to agree on it.
Packages(T) == {x \in Target \X Package :
    x[2] \in Available(x[1]) /\ Wanted(x[2]) /\ ~Fails(x[1]) /\ x[1] \notin T}
CommitOf(x) == repository[x[1]][x[2]]
Agreed(S) == \A x, y \in S : CommitOf(x) = CommitOf(y)

\* The first of them, by target and profile.
FirstPackage(S) ==
    LET t == Targets[Lowest({i \in DOMAIN Targets : \E x \in S : x[1] = Targets[i]})]
    IN  <<t, Lowest({q \in Package : <<t, q>> \in S})>>

\* The framework of a package comes with the identity of its interface.
FrameworkOf(x) ==
    [commit |-> CommitOf(x),
     identity |-> [t \in Target |-> IF t = x[1] THEN Hash(x[1], x[2]) ELSE NoHash],
     host |-> Hash(x[1], x[2])]

-----------------------------------------------------------------------------
(* sync_framework. *)

Go(where) == pc' = where
Waiting == {"idle", "ok", "failed"}
Stay == UNCHANGED <<world, history, call>>

\* Where a command searches: in the directory the environment names, which may
\* itself be one package, or in the kernel's or the user's, if it does not find
\* links of a project it is run in.  The kernel's is taken if it is there, even
\* an empty one.
Places(kernel) ==
    LET default == {r \in {Checkout, Home} :
            IF r = Checkout THEN kernel ELSE ~(kernel /\ \E x \in Checkout : Exists(x))}
    IN  {p \in [project : BOOLEAN, root : Repositories \cup default, single : BOOLEAN] :
            /\ p.project => p.root \in default /\ ~p.single
            /\ p.single => p.root \in Repositories /\ \A x, y \in p.root : x = y}

\* A sync, or a build of one target or of all.
Begin ==
    /\ pc = "idle" /\ commands < MaxCommands /\ commands' = commands + 1
    /\ \E targets \in {<<>>, Targets} \cup {<<t>> : t \in Target}, kernel \in BOOLEAN :
       \E place \in Places(kernel) :
          call' = [targets |-> targets, kernel |-> kernel, project |-> place.project,
                   root |-> place.root, single |-> place.single]
    /\ loop' = "sync" /\ index' = 1 /\ installed' = FALSE /\ todo' = <<>> /\ job' = <<>>
    /\ chosen' = NoFramework /\ aside' = [framework |-> NoFramework, sources |-> <<>>]
    /\ hadSources' = (sources # <<>>) /\ hadFramework' = (framework.commit # 0)
    /\ killed' = FALSE /\ missed' = {}
    /\ Go("choose")
    /\ UNCHANGED <<world, local, faults>>

\* Mutant: packages of different commits are not refused.
ChooseFrameworkAny ==
    /\ pc = "choose"
    /\ \E T \in SUBSET Target :
          /\ Skipped(T)
          /\ IF Packages(T) # {} THEN chosen' = FrameworkOf(FirstPackage(Packages(T))) /\ Go("away")
             ELSE chosen' = chosen /\ Go("failed")
    /\ UNCHANGED <<local, loop, index, installed, job, todo, aside>>

\* The framework of the packages, which have to agree on it; without any, the
\* one of the kernel sources.  A lookup that fails leaves its target out.
\* Only the manifest of a directory that is itself a package has to load.
ChooseFramework ==
    /\ pc = "choose"
    /\ \E T \in SUBSET Target :
          /\ Skipped(T)
          /\ LET S == Packages(T)  broken == call.single /\ call.root \cap outdated # {} IN
             \/ /\ S # {} /\ Agreed(S)
                /\ chosen' = FrameworkOf(FirstPackage(S))
                /\ Go("away")
             \/ /\ S = {} /\ call.kernel /\ ~broken
                /\ chosen' = [NoFramework EXCEPT !.commit = commit]
                /\ Go("away")
             \/ /\ ~Agreed(S) \/ (S = {} /\ (~call.kernel \/ broken))
                /\ chosen' = chosen /\ Go("failed")
    /\ UNCHANGED <<local, loop, index, installed, job, todo, aside>>

\* The framework that is there is renamed to a backup.
FrameworkAway ==
    /\ pc = "away"
    /\ aside' = [aside EXCEPT !.framework = framework]
    /\ framework' = NoFramework
    /\ Go("swap")
    /\ UNCHANGED <<link, sources, cargoConfig, lock, loop, index, installed, chosen, job, todo>> /\ Stay

\* The new one is in its place, and the backup is removed.
FrameworkIn ==
    /\ pc = "swap"
    /\ framework' = chosen
    /\ aside' = [aside EXCEPT !.framework = NoFramework]
    /\ Go("targets")
    /\ UNCHANGED <<link, sources, cargoConfig, lock, loop, index, installed, chosen, job, todo>> /\ Stay

\* sync_available_target_interfaces: the next target that has a package.  A
\* target whose lookup fails is skipped.
NextTarget ==
    /\ pc = "targets" /\ index <= Len(Targets)
    /\ index' = index + 1
    /\ \E T \in SUBSET {Targets[index]} :
          /\ Skipped(T)
          /\ IF T = {} /\ Found(Targets[index])
             THEN job' = <<Targets[index], Choice(Targets[index])>> /\ Go("unlink")
             ELSE job' = job /\ Go("targets")
    /\ UNCHANGED <<local, loop, installed, chosen, todo, aside>>

TargetsDone ==
    /\ pc = "targets" /\ index > Len(Targets)
    /\ Go("config")
    /\ UNCHANGED <<local, loop, index, installed, chosen, job, todo, aside>> /\ Stay

-----------------------------------------------------------------------------
(* copy_target_interface and install_lsp_source. *)

\* The link of the target is removed before the new one is renamed to its place.
Unlink ==
    /\ pc = "unlink"
    /\ link' = [link EXCEPT ![job[1]] = 0]
    /\ Go("link")
    /\ UNCHANGED <<framework, sources, cargoConfig, lock, loop, index, installed, chosen, job, todo, aside>> /\ Stay

Link ==
    /\ pc = "link"
    /\ link' = [link EXCEPT ![job[1]] = job[2]]
    /\ Go("identity")
    /\ UNCHANGED <<framework, sources, cargoConfig, lock, loop, index, installed, chosen, job, todo, aside>> /\ Stay

\* Mutant: an identity that is there is not replaced.
CopyIdentityOnce ==
    /\ pc = "identity"
    /\ framework' = IF framework.identity[job[1]] # NoHash THEN framework
                    ELSE [framework EXCEPT !.identity[job[1]] = Hash(job[1], job[2])]
    /\ Go("host")
    /\ UNCHANGED <<link, sources, cargoConfig, lock, loop, index, installed, chosen, job, todo, aside>> /\ Stay

CopyIdentity ==
    /\ pc = "identity"
    /\ framework' = [framework EXCEPT !.identity = [framework.identity EXCEPT ![job[1]] = Hash(job[1], job[2])]]
    /\ Go("host")
    /\ UNCHANGED <<link, sources, cargoConfig, lock, loop, index, installed, chosen, job, todo, aside>> /\ Stay

CopyHostIdentity ==
    /\ pc = "host"
    /\ framework' = [framework EXCEPT !.host = Hash(job[1], job[2])]
    /\ Go(IF loop = "sync" /\ installed THEN "targets" ELSE "aside")
    /\ UNCHANGED <<link, sources, cargoConfig, lock, loop, index, installed, chosen, job, todo, aside>> /\ Stay

\* The source link, if it leads anywhere, is set aside.
SourcesAside ==
    /\ pc = "aside"
    /\ LET there == sources # <<>> /\ Exists(sources)
       IN  /\ aside' = [aside EXCEPT !.sources = IF there THEN sources ELSE <<>>]
           /\ sources' = IF there THEN <<>> ELSE sources
    /\ Go("sources")
    /\ UNCHANGED <<framework, link, cargoConfig, lock, loop, index, installed, chosen, job, todo>> /\ Stay

\* Mutant: sources that are there are kept.
SourcesInOnce ==
    /\ pc = "sources"
    /\ sources' = IF aside.sources # <<>> THEN aside.sources ELSE job
    /\ aside' = [aside EXCEPT !.sources = <<>>]
    /\ installed' = TRUE
    /\ Go(IF loop = "sync" THEN "targets" ELSE "config")
    /\ UNCHANGED <<framework, link, cargoConfig, lock, loop, index, chosen, job, todo>> /\ Stay

\* The new link is renamed to its place.  A sync does this for the first
\* target it installs, a build whenever it activates an interface.
SourcesIn ==
    /\ pc = "sources"
    /\ sources' = job
    /\ aside' = [aside EXCEPT !.sources = <<>>]
    /\ installed' = TRUE
    /\ Go(IF loop = "sync" THEN "targets" ELSE "config")
    /\ UNCHANGED <<framework, link, cargoConfig, lock, loop, index, chosen, job, todo>> /\ Stay

-----------------------------------------------------------------------------
(* The configuration, the lock file and the builds. *)

\* The first target whose link loads, but for those left out.
Active(T) == LET loading == {i \in DOMAIN Targets : Loads(Targets[i]) /\ Targets[i] \notin T}
                 first == Targets[Lowest(loading)]
             IN  IF loading = {} THEN NoHash ELSE Hash(first, link[first])

\* selected_kernel_interfaces: the profiles Elm.toml asks for, which have to be
\* there, or all there are.  Here a lookup that fails is an error.
Buildable(t) == Found(t) /\ Asked(t) = DOMAIN wants

\* sync_framework configures Cargo for the first target whose manifest it can
\* load; activate_kernel_interface for the one it has installed, and lists
\* what is selected for it.
Configure ==
    /\ pc = "config"
    /\ \/ /\ loop = "sync"
          /\ \E T \in SUBSET {t \in Target : Loads(t)} :
                /\ T # {} => faults < MaxFaults
                /\ faults' = (IF T = {} THEN faults ELSE faults + 1) /\ missed' = missed \cup T
                /\ cargoConfig' = Active(T) /\ Go("lock")
       \/ /\ loop = "build" /\ UNCHANGED <<faults, missed>>
          /\ IF Buildable(job[1]) THEN cargoConfig' = Hash(job[1], job[2]) /\ Go("lock")
             ELSE cargoConfig' = cargoConfig /\ Go("failed")
    /\ UNCHANGED <<framework, link, sources, lock, loop, index, installed, chosen, job, todo, aside>>
    /\ UNCHANGED <<world, call, had>>

\* write_elm_lock, the last step of sync_framework and one of each build: the
\* packages found now, those asked for.
WriteLock ==
    /\ pc = "lock"
    /\ \E T \in SUBSET Target : Skipped(T) /\ lock' = {Hash(x[1], x[2]) : x \in Packages(T)}
    /\ Go(IF loop = "build" THEN "cargo" ELSE IF call.targets = <<>> THEN "ok" ELSE "select")
    /\ loop' = "build"
    /\ index' = IF loop = "sync" THEN 1 ELSE index
    /\ UNCHANGED <<framework, link, sources, cargoConfig, installed, chosen, job, todo, aside>>

\* cmd_build and cmd_check: the interfaces of the next target.
Select ==
    /\ pc = "select" /\ index <= Len(call.targets)
    /\ LET t == call.targets[index] IN
          IF ~Buildable(t) THEN UNCHANGED todo /\ Go("failed")
          ELSE /\ IF wants # <<>>
                  THEN /\ todo' \in [DOMAIN wants -> {t} \X Available(t)]
                       /\ \A i \in DOMAIN todo' : ProfileOf[todo'[i][2]] = wants[i]
                  ELSE /\ todo' \in [1 .. Cardinality(Available(t)) -> {t} \X Available(t)]
                       /\ \A i, j \in DOMAIN todo' : i < j => todo'[i][2] < todo'[j][2]
               /\ Go("activate")
    /\ index' = index + 1
    /\ UNCHANGED <<local, loop, installed, chosen, job, aside>> /\ Stay

\* activate_kernel_interface.
Activate ==
    /\ pc = "activate" /\ todo # <<>>
    /\ job' = Head(todo) /\ todo' = Tail(todo)
    /\ Go("unlink")
    /\ UNCHANGED <<local, loop, index, installed, chosen, aside>> /\ Stay

\* Cargo compiles the module against the interface just installed.
CargoEnds ==
    /\ pc = "cargo"
    /\ Go("activate")
    /\ UNCHANGED <<local, loop, index, installed, chosen, job, todo, aside>> /\ Stay

InterfacesDone ==
    /\ pc = "activate" /\ todo = <<>>
    /\ Go("select")
    /\ UNCHANGED <<local, loop, index, installed, chosen, job, todo, aside>> /\ Stay

BuildDone ==
    /\ pc = "select" /\ index > Len(call.targets)
    /\ Go("ok")
    /\ UNCHANGED <<local, loop, index, installed, chosen, job, todo, aside>> /\ Stay

-----------------------------------------------------------------------------
(* Failures, and the kernel. *)

\* Where a failing operation ends the command: everywhere but in the loop over
\* the targets, before which elm.ld and .cargo are written.
MayFail == pc \notin Waiting /\ (pc = "targets" => index = 1) /\ faults < MaxFaults

\* Mutant: a framework or a link that was set aside is not put back.
FailPlain ==
    /\ MayFail /\ faults' = faults + 1
    /\ Go("failed")
    /\ UNCHANGED <<world, local, control, had, missed>>

\* A file operation fails, or Cargo does.  What was set aside is put back.
Fail ==
    /\ MayFail /\ faults' = faults + 1
    /\ framework' = IF pc = "swap" THEN aside.framework ELSE framework
    /\ sources' = IF pc = "sources" /\ aside.sources # <<>> THEN aside.sources ELSE sources
    /\ Go("failed")
    /\ UNCHANGED <<world, link, cargoConfig, lock, control, had, missed>>

Kill ==
    /\ pc \notin Waiting /\ faults < MaxFaults /\ faults' = faults + 1
    /\ killed' = TRUE
    /\ Go("failed")
    /\ UNCHANGED <<world, local, control, hadSources, hadFramework, missed, commands>>

NoCall == [targets |-> <<>>, kernel |-> FALSE, project |-> FALSE, root |-> {}, single |-> FALSE]

\* The process of a command and its variables are gone.
Forget ==
    /\ call' = NoCall
    /\ loop' = "sync" /\ index' = 1 /\ installed' = FALSE /\ chosen' = NoFramework
    /\ job' = <<>> /\ todo' = <<>> /\ aside' = [framework |-> NoFramework, sources |-> <<>>]
    /\ hadSources' = FALSE /\ hadFramework' = FALSE /\ killed' = FALSE /\ missed' = {}
    /\ Go("idle")
    /\ UNCHANGED <<local, commands>>

\* Between the commands the kernel moves on, its packages are exported again,
\* deleted or left in a format that no longer loads, and Elm.toml is edited.
Commit == /\ pc \in Waiting /\ commit < MaxCommit /\ commit' = commit + 1
          /\ UNCHANGED <<repository, outdated, wants, faults>>

Export ==
    /\ pc \in Waiting
    /\ \E x \in Offered, c \in {0, commit}, old \in BOOLEAN :
          /\ old => c = 0 /\ x \notin outdated /\ faults < MaxFaults
          /\ faults' = (IF old THEN faults + 1 ELSE faults)
          /\ repository' = [repository EXCEPT ![x[1]][x[2]] = c]
          /\ outdated' = IF old THEN outdated \cup {x} ELSE outdated \ {x}
    /\ UNCHANGED <<commit, wants>>

Edit == pc \in Waiting /\ wants' \in Wants /\ UNCHANGED <<commit, repository, outdated, faults>>

Sync == ChooseFramework \/ FrameworkAway \/ FrameworkIn \/ NextTarget \/ TargetsDone
Install == Unlink \/ Link \/ CopyIdentity \/ CopyHostIdentity \/ SourcesAside \/ SourcesIn
Build == Configure \/ WriteLock \/ Select \/ Activate \/ CargoEnds \/ InterfacesDone \/ BuildDone

Next == Begin \/ Sync \/ Install \/ Build \/ Fail \/ Kill \/ (Forget /\ (Commit \/ Export \/ Edit))

\* A clone of a project: nothing generated yet.
Init ==
    /\ commit = 1 /\ wants \in Wants /\ outdated = {}
    /\ \E S \in SUBSET Offered :
          repository = [t \in Target |-> [q \in Package |-> IF <<t, q>> \in S THEN 1 ELSE 0]]
    /\ framework = NoFramework /\ link = [t \in Target |-> 0] /\ sources = <<>>
    /\ cargoConfig = NoHash /\ lock = {}
    /\ call = NoCall
    /\ pc = "idle" /\ loop = "sync" /\ index = 1 /\ installed = FALSE /\ chosen = NoFramework
    /\ job = <<>> /\ todo = <<>> /\ aside = [framework |-> NoFramework, sources |-> <<>>]
    /\ hadSources = FALSE /\ hadFramework = FALSE /\ missed = {}
    /\ faults = 0 /\ killed = FALSE /\ commands = 0

Spec == Init /\ [][Next]_vars

-----------------------------------------------------------------------------
(* Properties. *)

\* activate_kernel_interface and cargo_build: whatever earlier commands left,
\* Cargo runs with a link, identities, sources and a configuration of one
\* interface.  If no lookup of its target was skipped Elm.lock lists it, and
\* the framework is the one exported with it: packages of other commits are
\* refused (packaged_framework_root).
CargoSeesOneInterface ==
    pc = "cargo" =>
        LET t == job[1]  interface == Hash(t, job[2]) IN
        /\ link[t] = job[2]
        /\ framework.identity[t] = interface /\ framework.host = interface
        /\ sources = job
        /\ cargoConfig = interface
        /\ t \notin missed => interface \in lock /\ framework.commit = CommitOf(job)

\* sync_framework: after Ok, whatever earlier commands left, each target that
\* packages are found of, and of which no lookup was skipped, has a link to one
\* of them and its identity; if Elm.toml asks for it, the framework is the one
\* exported with it and Elm.lock lists it.  If no other link loads, Cargo and
\* the language server see the same interface.
SyncCoherent ==
    pc = "ok" /\ call.targets = <<>> =>
        LET served == {t \in Target : Found(t) /\ t \notin missed} IN
        /\ \A t \in served :
              /\ link[t] \in Available(t)
              /\ framework.identity[t] = Hash(t, link[t])
              /\ Wanted(link[t]) => /\ framework.commit = repository[t][link[t]]
                                    /\ Hash(t, link[t]) \in lock
        /\ served # {} /\ (\A t \in Target : Loads(t) => t \in served) =>
              /\ sources # <<>> /\ cargoConfig = Hash(sources[1], sources[2])
              /\ link[sources[1]] = sources[2]

\* The renames to a backup: a command that fails without being killed leaves a
\* framework and a source link where there were any.
BackupsRestored ==
    pc = "failed" /\ ~killed =>
        /\ hadSources => sources # <<>>
        /\ hadFramework => framework.commit # 0

\* The README: after one sync of an independent project each target that the
\* kernel has an interface for can be built.
SyncServesEveryTarget ==
    pc = "ok" /\ call.targets = <<>> /\ call.root = Checkout =>
        \A t \in Target :
            LET there == {q \in Package : <<t, q>> \in Checkout /\ repository[t][q] # 0} IN
            there # {} /\ (\A i \in DOMAIN wants : \E q \in there : ProfileOf[q] = wants[i]) => Buildable(t)

\* The README: interface packages of different kernel commits are refused, so
\* after a sync that ends well, without a lookup that failed by chance, the
\* packages that the project has links to, and Elm.toml asks for, are of one.
SyncRefusesMixtures ==
    pc = "ok" /\ call.targets = <<>> /\ missed = {} =>
        Agreed({x \in Links : Loads(x[1]) /\ Wanted(x[2])})

-----------------------------------------------------------------------------
(* The inductive invariants. *)

Installing == {"unlink", "link", "identity", "host", "aside", "sources"}
Steps == Waiting \cup {"choose", "away", "swap", "targets", "config", "lock", "select", "activate", "cargo"}
             \cup Installing

IsFramework(f) ==
    /\ f = [commit |-> f.commit, identity |-> f.identity, host |-> f.host]
    /\ f.commit \in Nat /\ f.identity = [t \in Target |-> f.identity[t]]

CacheTyped ==
    /\ commit \in Nat \ {0} /\ repository \in [Target -> [Package -> Nat]] /\ wants \in Wants
    /\ outdated \subseteq Offered /\ \A x \in outdated : repository[x[1]][x[2]] = 0
    /\ IsFramework(framework) /\ IsFramework(chosen) /\ IsFramework(aside.framework)
    /\ aside = [framework |-> aside.framework, sources |-> aside.sources]
    /\ link \in [Target -> Package \cup {0}]
    /\ sources \in {<<>>} \cup (Target \X Package) /\ aside.sources \in {<<>>} \cup (Target \X Package)
    /\ pc \in Steps /\ loop \in {"sync", "build"} /\ index \in Nat \ {0} /\ installed \in BOOLEAN
    /\ job \in {<<>>} \cup (Target \X Package) /\ todo \in Seq(Target \X Package)
    /\ call.targets \in Seq(Target) /\ call.root \subseteq Offered
    /\ call.kernel \in BOOLEAN /\ call.project \in BOOLEAN /\ call.single \in BOOLEAN
    /\ call.single => ~call.project /\ \A x, y \in call.root : x = y
    /\ pc \in {"idle", "choose", "away", "swap", "targets"} => loop = "sync"
    /\ pc \in {"choose", "away", "swap"} => index = 1 /\ ~installed
    /\ pc \in {"select", "activate", "cargo"} => loop = "build"
    /\ loop = "sync" => todo = <<>>
    /\ loop = "build" => pc = "ok" \/ call.targets # <<>>

\* A package that may be found, and whose commit is the one of the chosen
\* framework if Elm.toml asks for it and no lookup of its target was skipped.
Suits(x) ==
    /\ x \in Target \X Package /\ CommitOf(x) # 0
    /\ ~call.project => x \in call.root
    /\ Wanted(x[2]) /\ x[1] \notin missed => CommitOf(x) = chosen.commit

\* No link is asked; while one is replaced nothing is looked up.
SearchesRoot == call.project => Links = {} /\ pc # "link"

\* An interface is being installed, or compiled against.
AtJob == pc \in Installing \/ (loop = "build" /\ pc \in {"config", "lock", "cargo"})

\* What a command finds may change with the links it sets, from the packages of
\* a repository to those the project has; but it suits what was chosen.
FoundInv ==
    pc \notin Waiting \cup {"choose"} =>
        /\ chosen.commit # 0 /\ (pc \notin {"away", "swap"} => framework.commit = chosen.commit)
        /\ SearchesRoot => \A t \in Target : Found(t) => \A q \in Available(t) : Suits(<<t, q>>)
        /\ call.project => \A t \in Target : Loads(t) => Suits(<<t, link[t]>>)
        /\ AtJob => Suits(job) /\ (loop = "build" => Wanted(job[2]))
        /\ loop = "build" /\ pc = "lock" => ~Fails(job[1])
        /\ \A i \in DOMAIN todo : Suits(todo[i]) /\ Wanted(todo[i][2])

\* What of an interface is installed at each step, and at those of a build after it.
JobInv ==
    LET at(steps) == pc \in steps \/ (loop = "build" /\ pc \in {"config", "lock", "cargo"})
    IN  /\ at({"identity", "host", "aside", "sources"}) => link[job[1]] = job[2]
        /\ at({"host", "aside", "sources"}) => framework.identity[job[1]] = Hash(job[1], job[2])
        /\ at({"aside", "sources"}) => framework.host = Hash(job[1], job[2])
        /\ at({}) => sources = job
        /\ at({}) /\ pc # "config" => cargoConfig = Hash(job[1], job[2])
        /\ pc = "cargo" /\ job[1] \notin missed => Hash(job[1], job[2]) \in lock

\* The targets sync_framework is through with; those it has to have installed,
\* and what it has to have left of them.
Through(i) == i \in DOMAIN Targets /\ i < IF pc \in Installing THEN index - 1 ELSE index
Serves(t) == t \notin missed /\ IF call.project THEN Loads(t) ELSE Found(t)
Served(t) == /\ Loads(t) /\ framework.identity[t] = Hash(t, link[t])
             /\ ~call.project => <<t, link[t]>> \in call.root
Covered ==
    /\ \A i \in DOMAIN Targets : Through(i) /\ Serves(Targets[i]) => Served(Targets[i])
    /\ call.project /\ SearchesRoot =>
           \A i \in DOMAIN Targets : Through(i) /\ Targets[i] \notin missed => ~Found(Targets[i])
    /\ ~installed => \A i \in DOMAIN Targets : Through(i) => ~Serves(Targets[i])
    /\ installed => \E k \in DOMAIN Targets :
           /\ Through(k) /\ Loads(Targets[k]) /\ sources = <<Targets[k], link[Targets[k]]>>
           /\ \A j \in DOMAIN Targets : j < k => ~Serves(Targets[j])

SyncInv ==
    loop = "sync" /\ pc \in Installing \cup {"targets", "config", "lock"} =>
        /\ pc \in Installing => index - 1 \in DOMAIN Targets /\ job[1] = Targets[index - 1]
        /\ pc \in {"aside", "sources"} => ~installed
        /\ pc \in {"config", "lock"} => index > Len(Targets)
        /\ pc = "lock" /\ (\A t \in Target : Loads(t) => t \notin missed) => cargoConfig = Active({})
        /\ Covered

BackupInv ==
    /\ pc \notin Waiting =>
           /\ hadFramework => IF pc = "swap" THEN aside.framework.commit # 0 ELSE framework.commit # 0
           /\ hadSources => sources # <<>> \/ (pc = "sources" /\ aside.sources # <<>>)
    /\ BackupsRestored

CacheInv == CacheTyped /\ FoundInv /\ JobInv /\ SyncInv /\ SyncCoherent /\ BackupInv
=============================================================================
