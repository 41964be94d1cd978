---------------------------- MODULE ArchiveDedup ----------------------------
(***************************************************************************)
(* deduplicate_integrated_archive_objects of src/build_set.rs.  The        *)
(* integrated archives of a module set are linked with --whole-archive, so *)
(* an object two of them hold (an API crate both use) would be defined     *)
(* twice.  The code walks the archives in build order, keeps an object in  *)
(* the first archive that has it and rewrites the later ones without it.   *)
(*                                                                         *)
(* An archive is a set of members [name, body]; an object is identified by *)
(* its body, whose SHA-256 the code compares.  Members other than .o files *)
(* are always carried over and left out here.                              *)
(***************************************************************************)
EXTENDS Naturals, Sequences, FiniteSets

CONSTANTS
    Name,      \* member names, ordered like the paths the code sorts
    Body,      \* contents of object files
    MayFail    \* whether the archive tool and the file system may fail

ASSUME DedupAssumption == Name \subseteq Nat /\ MayFail \in BOOLEAN

VARIABLES
    archives,   \* the archive files, in the order they were built
    built,      \* the archives as they were built (history)
    seen,       \* the bodies met so far
    index,      \* the archive being looked at
    rebuilt,    \* its new contents, once the archive tool has written them
    dedup       \* where the call is: "off", "begin", "archive", "install",
                \* "cleanup", "cleanup_failed", "ok", "error", "killed"

dedupVars == <<archives, built, seen, index, rebuilt, dedup>>

Member == [name : Name, body : Body]
Bodies(a) == {x.body : x \in a}

\* An archive as rustc's unique object names make it.
IsArchive(a) == \A x, y \in a : x.name = y.name => x = y

DedupInit(files) ==
    /\ archives = files /\ built = files
    /\ seen = {} /\ index = 1 /\ rebuilt = {} /\ dedup = "begin"

\* The same as a step, for a caller that deduplicates more than once.
DedupStart(files) ==
    /\ archives' = files /\ built' = files
    /\ seen' = {} /\ index' = 1 /\ rebuilt' = {} /\ dedup' = "begin"

\* One archive, or none, is left alone.
NothingToDo ==
    /\ dedup = "begin" /\ Len(archives) < 2
    /\ dedup' = "ok"
    /\ UNCHANGED <<archives, built, seen, index, rebuilt>>

\* The temporary directory of this process is emptied and created.
MakeTemporary ==
    /\ dedup = "begin" /\ Len(archives) >= 2
    /\ \/ dedup' = "archive"
       \/ MayFail /\ dedup' = "error"
    /\ UNCHANGED <<archives, built, seen, index, rebuilt>>

\* The members that are kept: in path order, the first with a body not met yet.
Retained(a) == {x \in a : /\ x.body \notin seen
                          /\ \A y \in a : y.body = x.body => x.name <= y.name}

\* Mutant: objects are remembered only when the archive is rewritten.
ScanForgets ==
    /\ dedup = "archive" /\ index <= Len(archives)
    /\ Retained(archives[index]) = archives[index]
    /\ archives[index] # {}
    /\ index' = index + 1
    /\ UNCHANGED <<archives, built, seen, rebuilt, dedup>>

\* The archive is unpacked and holds no duplicate: it stays as it is.
Scan ==
    /\ dedup = "archive" /\ index <= Len(archives)
    /\ Retained(archives[index]) = archives[index]
    /\ archives[index] # {}
    /\ seen' = seen \cup Bodies(archives[index])
    /\ index' = index + 1
    /\ UNCHANGED <<archives, built, rebuilt, dedup>>

\* Some members are duplicates: a new archive is made of the others.
Rebuild ==
    /\ dedup = "archive" /\ index <= Len(archives)
    /\ Retained(archives[index]) \notin {archives[index], {}}
    /\ seen' = seen \cup Bodies(archives[index])
    /\ rebuilt' = Retained(archives[index])
    /\ dedup' = "install"
    /\ UNCHANGED <<archives, built, index>>

\* No object at all, or none of its own: the module set is refused.
Refuse ==
    /\ dedup = "archive" /\ index <= Len(archives)
    /\ Retained(archives[index]) = {}
    /\ dedup' = "cleanup_failed"
    /\ UNCHANGED <<archives, built, seen, index, rebuilt>>

\* Mutant: the new archive takes the place of the first one.
InstallFirst ==
    /\ dedup = "install"
    /\ archives' = [archives EXCEPT ![1] = rebuilt]
    /\ index' = index + 1 /\ dedup' = "archive"
    /\ UNCHANGED <<built, seen, rebuilt>>

\* The rename that puts the new archive in place of the old one.
Install ==
    /\ dedup = "install"
    /\ archives' = [archives EXCEPT ![index] = rebuilt]
    /\ index' = index + 1 /\ dedup' = "archive"
    /\ UNCHANGED <<built, seen, rebuilt>>

\* Unpacking, reading, rebuilding or renaming fails: the closure returns early.
StepFails ==
    /\ MayFail /\ dedup \in {"archive", "install"}
    /\ dedup = "archive" => index <= Len(archives)
    /\ dedup' = "cleanup_failed"
    /\ UNCHANGED <<archives, built, seen, index, rebuilt>>

ScanEnds ==
    /\ dedup = "archive" /\ index > Len(archives)
    /\ dedup' = "cleanup"
    /\ UNCHANGED <<archives, built, seen, index, rebuilt>>

\* The temporary directory is removed on every path; a failure to do so is an
\* error even when the archives are done.
Cleanup ==
    /\ dedup \in {"cleanup", "cleanup_failed"}
    /\ \/ dedup' = IF dedup = "cleanup" THEN "ok" ELSE "error"
       \/ MayFail /\ dedup' = "error"
    /\ UNCHANGED <<archives, built, seen, index, rebuilt>>

\* The process is killed: neither the closure nor the clean-up ends.
DedupKilled ==
    /\ MayFail /\ dedup \in {"archive", "install", "cleanup", "cleanup_failed"}
    /\ dedup' = "killed"
    /\ UNCHANGED <<archives, built, seen, index, rebuilt>>

DedupSteps == \/ NothingToDo \/ MakeTemporary \/ Scan \/ Rebuild \/ Refuse \/ Install
              \/ StepFails \/ ScanEnds \/ Cleanup
DedupNext == DedupSteps \/ DedupKilled

-----------------------------------------------------------------------------
(* Properties. *)

Held(files) == UNION {Bodies(files[i]) : i \in DOMAIN files}

DedupTypeOK ==
    /\ built \in Seq(SUBSET Member)
    /\ archives \in [DOMAIN built -> SUBSET Member]
    /\ seen \subseteq Body /\ rebuilt \subseteq Member
    /\ index \in 1 .. (Len(built) + 1)
    /\ dedup \in {"off", "begin", "archive", "install", "cleanup", "cleanup_failed", "ok", "error", "killed"}

\* deduplicate_integrated_archive_objects: an object some archive was built
\* with is in an archive at every moment, also after an error or a kill half
\* way: the first owner keeps its copy before a later one gives its own up.
NoObjectLost == Held(archives) = Held(built)

\* The comment on deduplicate_integrated_archive_objects: after Ok no object
\* is extracted twice by --whole-archive, and every archive keeps one.
LinkedOnce ==
    dedup = "ok" /\ Len(built) >= 2 =>
        /\ \A i, j \in DOMAIN archives : \A x \in archives[i], y \in archives[j] :
               x.body = y.body => i = j /\ x = y
        /\ \A i \in DOMAIN archives : archives[i] # {}

\* The same comment: it is the first archive that owns an object that keeps it.
FirstOwnerKeeps ==
    \A i \in DOMAIN archives : \A x \in built[i] :
        (\A j \in 1 .. (i - 1) : x.body \notin Bodies(built[j])) => x.body \in Bodies(archives[i])

\* deduplicate_integrated_archive_objects: an object that several modules brought
\* is linked from one archive, the one the build met first, whatever fails on
\* the way.
EachObjectOnce == LinkedOnce /\ FirstOwnerKeeps

\* The bodies of the archives before the i-th, as they were built.
Before(i) == UNION {Bodies(built[j]) : j \in 1 .. (i - 1)}

\* a is what should be left of the i-th archive.
IsShare(a, i) ==
    /\ a # {} /\ a \subseteq built[i]
    /\ Bodies(a) = Bodies(built[i]) \ Before(i)
    /\ \A x, y \in a : x.body = y.body => x = y

\* Where the walk is: done before index, as built from index on.
Walked ==
    /\ \A i \in 1 .. (index - 1) : IsShare(archives[i], i)
    /\ \A i \in index .. Len(built) : archives[i] = built[i]
    /\ Before(index) = UNION {Bodies(archives[j]) : j \in 1 .. (index - 1)}

DedupProgress ==
    /\ dedup \in {"begin", "archive"} => seen = Before(index)
    /\ dedup = "install" => /\ index <= Len(built) /\ seen = Before(index + 1)
                            /\ IsShare(rebuilt, index)
    /\ dedup = "cleanup" => index = Len(built) + 1
    /\ dedup = "ok" => Len(built) < 2 \/ index = Len(built) + 1

\* The archives are built with unique member names.
BuiltOK == \A i \in DOMAIN built : IsArchive(built[i])

DedupInv == DedupTypeOK /\ BuiltOK /\ Walked /\ DedupProgress

-----------------------------------------------------------------------------
(* The call on its own, for any archives. *)

Archive == {a \in SUBSET Member : IsArchive(a)}

AnyInit == \E files \in Seq(Archive) : DedupInit(files)

DedupSpec == AnyInit /\ [][DedupNext]_dedupVars
=============================================================================
