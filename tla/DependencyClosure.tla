-------------------------- MODULE DependencyClosure --------------------------
(***************************************************************************)
(* exact_dependency_rlibs of src/kernel_interface.rs: which rlibs of       *)
(* Cargo's target directory a kernel interface package takes along.        *)
(*                                                                         *)
(* Cargo keeps a directory for each unit it has compiled: a crate in one   *)
(* configuration, named by the crate and a suffix.  It holds a marker with *)
(* the fingerprint of the last compilation, and a JSON file that names the *)
(* crates it depends on with theirs.  The fingerprint identifies the       *)
(* configuration and the graph below, not the source.  Units of other      *)
(* configurations lie around, and a compilation that was interrupted has   *)
(* left an empty marker.  The code walks the graph from the kernel, with a *)
(* list of names and fingerprints that are still to be looked for.         *)
(***************************************************************************)
EXTENDS Naturals, FiniteSets

CONSTANTS
    Crate,         \* crate names
    Fingerprint,   \* what a marker may hold
    Unit,          \* the compilation units, by crate and suffix
    CrateOf,       \* CrateOf[u]: the crate of a unit
    Version,       \* versions of the sources an rlib may have been compiled from
    None           \* no such file; for a marker, also one that is empty or torn

ASSUME ClosureAssumption ==
    /\ CrateOf \in [Unit -> Crate] /\ IsFiniteSet(Unit)
    /\ None \notin Fingerprint /\ None \notin Version

VARIABLES
    units,      \* the target directory: for each unit its marker, rlib and JSON file
    roots,      \* the units of the API crates, which the walk starts with
    rootDeps,   \* what the JSON file of the kernel names
    pending,    \* still to be looked for
    visited,    \* looked for
    files,      \* the units whose rlibs are taken
    walk,       \* "off", "walking", "done" or "failed"
    moved       \* Cargo has changed the target directory since the walk began (history)

walkVars == <<roots, rootDeps, pending, visited, files, walk>>
closureVars == <<units, walkVars, moved>>

Dependency == [crate : Crate, fingerprint : Fingerprint]

UnitState == [marker : Fingerprint \cup {None},
              rlib : Version \cup {None},
              deps : SUBSET Dependency]     \* {}: also without a JSON file

\* parse_kernel_dependency_fingerprints refuses a crate named twice.
NamesOnce(deps) == \A d, e \in deps : d.crate = e.crate => d = e

\* The units with the crate, the marker and an rlib.
Candidates(d) ==
    {u \in Unit : CrateOf[u] = d.crate /\ units[u].marker = d.fingerprint /\ units[u].rlib # None}

\* The walk begins at the rlibs of the API crates and the kernel's dependencies.
StartWalk(first, deps) ==
    /\ roots' = first /\ rootDeps' = deps /\ pending' = deps
    /\ visited' = {} /\ files' = first /\ walk' = "walking"

\* Taken off the list a second time.
VisitAgain(d) ==
    /\ walk = "walking" /\ d \in pending \cap visited
    /\ pending' = pending \ {d}
    /\ UNCHANGED <<roots, rootDeps, visited, files, walk>>

\* More than one unit has the fingerprint, or the JSON file names a crate twice.
VisitFails(d) ==
    /\ walk = "walking" /\ d \in pending \ visited
    /\ \/ Cardinality(Candidates(d)) > 1
       \/ \E u \in Unit : Candidates(d) = {u} /\ ~NamesOnce(units[u].deps)
    /\ walk' = "failed"
    /\ UNCHANGED <<roots, rootDeps, pending, visited, files>>

\* No unit has it: taken for a build script or a procedural macro.
VisitNone(d) ==
    /\ walk = "walking" /\ d \in pending \ visited
    /\ Candidates(d) = {}
    /\ visited' = visited \cup {d} /\ pending' = pending \ {d}
    /\ UNCHANGED <<roots, rootDeps, files, walk>>

\* Mutant: a crate is taken, what it depends on is not.
VisitTakeOnly(d) ==
    /\ walk = "walking" /\ d \in pending \ visited
    /\ \E u \in Unit :
          /\ Candidates(d) = {u} /\ NamesOnce(units[u].deps)
          /\ files' = files \cup {u}
          /\ pending' = pending \ {d}
    /\ visited' = visited \cup {d}
    /\ UNCHANGED <<roots, rootDeps, walk>>

\* One unit has it: its rlib is taken, and its dependencies are put on the list.
VisitTake(d) ==
    /\ walk = "walking" /\ d \in pending \ visited
    /\ \E u \in Unit :
          /\ Candidates(d) = {u} /\ NamesOnce(units[u].deps)
          /\ files' = files \cup {u}
          /\ pending' = (pending \ {d}) \cup units[u].deps
    /\ visited' = visited \cup {d}
    /\ UNCHANGED <<roots, rootDeps, walk>>

\* The list is empty.  An rlib that has gone meanwhile, or none at all, is an error.
EndWalk ==
    /\ walk = "walking" /\ pending = {}
    /\ walk' = IF files # {} /\ \A u \in files : units[u].rlib # None THEN "done" ELSE "failed"
    /\ UNCHANGED <<roots, rootDeps, pending, visited, files>>

Visit(d) == VisitAgain(d) \/ VisitFails(d) \/ VisitNone(d) \/ VisitTake(d)

WalkStep == EndWalk \/ \E d \in pending : Visit(d)

-----------------------------------------------------------------------------
(* The walk on its own, beside a Cargo that may write what it likes. *)

CargoWrites == units' \in [Unit -> UnitState] /\ moved' = TRUE /\ UNCHANGED walkVars

ClosureNext == \/ WalkStep /\ UNCHANGED <<units, moved>>
               \/ CargoWrites

ClosureInit ==
    /\ units \in [Unit -> UnitState] /\ moved = FALSE
    /\ roots \in SUBSET Unit /\ rootDeps \in SUBSET Dependency
    /\ pending = rootDeps /\ visited = {} /\ files = roots /\ walk = "walking"

ClosureSpec == ClosureInit /\ [][ClosureNext]_closureVars

-----------------------------------------------------------------------------
(* Properties. *)

\* The units the dependencies of S lead to, and what these depend on.
Found(S) == UNION {Candidates(d) : d \in S}
Closed(S) == \A u \in Found(S) : units[u].deps \subseteq S

\* S is the part of the graph that can be reached from the kernel: the least
\* set with what the kernel names that is closed.
IsReach(S) ==
    /\ rootDeps \subseteq S /\ Closed(S)
    /\ \A T \in SUBSET S : rootDeps \subseteq T /\ Closed(T) => T = S

\* The comment on exact_dependency_rlibs: the closure of the kernel's
\* dependencies is taken, each of them and none of the other units of the
\* target directory, in whatever order the list is worked off and also when
\* crates depend on one another.  It need not hold if Cargo runs meanwhile.
ClosureExact ==
    walk = "done" /\ ~moved =>
        /\ IsReach(visited)
        /\ files = roots \cup Found(visited)

ClosureTypeOK ==
    /\ units \in [Unit -> UnitState] /\ moved \in BOOLEAN
    /\ roots \in SUBSET Unit /\ rootDeps \in SUBSET Dependency
    /\ pending \in SUBSET Dependency /\ visited \in SUBSET Dependency /\ files \in SUBSET Unit
    /\ walk \in {"off", "walking", "done", "failed"}

\* What has been looked for or will be covers what the units found so far need,
\* and one unit at most was found for each.
Covered ==
    /\ rootDeps \subseteq visited \cup pending
    /\ \A u \in Found(visited) : units[u].deps \subseteq visited \cup pending
    /\ files = roots \cup Found(visited)
    /\ \A d \in visited : \A u, w \in Candidates(d) : u = w

\* Nothing is looked for that cannot be reached.
Needed ==
    \A T \in SUBSET Dependency :
        rootDeps \subseteq T /\ Closed(T) => visited \cup pending \subseteq T

ClosureInv ==
    /\ ClosureTypeOK
    /\ walk \in {"walking", "done"} /\ ~moved => Covered /\ Needed
    /\ walk = "done" => pending = {}
=============================================================================
