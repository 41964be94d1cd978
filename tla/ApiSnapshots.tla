---------------------------- MODULE ApiSnapshots ----------------------------
(***************************************************************************)
(* How the API crate of one module reaches the modules that depend on it:  *)
(* publish_project_api and sync_dependency_apis of src/project.rs.  A      *)
(* publication copies the sources of the crate into a directory of its     *)
(* own, seals it with a digest and exchanges it for the snapshot in the    *)
(* repository; a sync validates each snapshot its project depends on,      *)
(* copies it, and exchanges the copies for .elm/dependencies.  There is no *)
(* lock: validating, copying, removing and renaming are many calls, and    *)
(* every other process may do any of its own between two of them.          *)
(*                                                                         *)
(* Processes: the publications and syncs of builds that have emptied the   *)
(* output directory already, or of a developer; each does one of the two   *)
(* and ends.  Each file system call is one step.                           *)
(***************************************************************************)
EXTENDS Naturals, Sequences, FiniteSets

CONSTANTS
    Crate,      \* the API crates
    Project,    \* the projects that depend on them
    Files,      \* the files of an API crate, in the order of their names
    Contract,   \* the contracts Elm.toml may state for an API
    Publisher, Publishes,   \* the publications, and the crate of each
    Syncer, SyncsFor,       \* the syncs, and the project of each
    Wants,      \* the dependency lists a project's Elm.toml may have
    None,       \* no directory
    MaxEdits,   \* bound on the edits of the API sources
    MaxKills    \* bound on the processes that are killed

File == {Files[i] : i \in DOMAIN Files}
Process == Publisher \cup Syncer
Place == Crate \cup Project

\* A directory: the one a process makes, or one that was in a place already.
Directory == Process \cup Place

ASSUME SnapshotsAssumption ==
    /\ Files \in Seq(File) /\ "Cargo.toml" \in File /\ {"elm-api.txt", "."} \cap File = {}
    /\ Crate \cap Project = {} /\ Publisher \cap Syncer = {} /\ Process \cap Place = {}
    /\ None \notin Directory
    /\ Publishes \in [Publisher -> Crate] /\ SyncsFor \in [Syncer -> Project]
    /\ Wants \subseteq Seq([crate : Crate, contract : Contract])
    /\ MaxEdits \in Nat /\ MaxKills \in Nat

VARIABLES
    source,     \* source[c][f]: the edition and the form of a file of the API's sources
    contract,   \* contract[c]: the contract Elm.toml of the provider states
    disk,       \* disk[d]: the files in a directory, with what is in them
    at,         \* at[h]: the directory that is in a place
    pc,         \* pc[p]: where a process is
    todo,       \* todo[p]: the files it has still to copy or to read
    victim,     \* victim[p]: the directory it is removing, or has removed
    stated,     \* stated[p]: the contract a publication has read in Elm.toml
    record,     \* record[s]: the record a sync has read
    seen,       \* seen[s]: the files it has read for the digest
    wants,      \* wants[s]: the dependencies it found in Elm.toml
    index,      \* index[s]: the dependency it is at
    edits, kills,
    disturbed,  \* disturbed[s]: the crates whose place changed while it was at them (history)
    published   \* published[c]: the records of all sealed snapshots (history)

work == <<disk, at, pc, todo, victim, stated>>
syncing == <<record, seen, wants, index>>
vars == <<source, contract, work, syncing, edits, kills, disturbed, published>>

Home(p) == IF p \in Publisher THEN Publishes[p] ELSE SyncsFor[p]

Record == "elm-api.txt"

\* The names of a directory carry the crate: a project has several of them.
\* <<c, ".">> is the subdirectory itself, which is there when all it held is gone.
Subdirectory == "."

Present(c) == IF at[c] = None THEN {} ELSE {n[2] : n \in DOMAIN disk[at[c]]}

\* The part of a directory that copy_api_tree copies and api_tree_digest covers.
\* The digest puts lengths before names and contents: it is as good as the tree.
Tree(d, c) == [f \in {f \in File : <<c, f>> \in DOMAIN disk[d]} |-> disk[d][<<c, f>>]]

Put(d, n, value) ==
    [disk EXCEPT ![d] = [m \in DOMAIN @ \cup {n} |-> IF m = n THEN value ELSE disk[d][m]]]
Without(d, n) == [disk EXCEPT ![d] = [m \in DOMAIN @ \ {n} |-> disk[d][m]]]

\* The first of some files.
FirstOf(S) ==
    LET places == {i \in DOMAIN Files : Files[i] \in S}
    IN  Files[CHOOSE i \in places : \A j \in places : i <= j]

Goto(p, place) == pc' = [pc EXCEPT ![p] = place]
Crates(list) == {list[i].crate : i \in DOMAIN list}
Current(s) == wants[s][index[s]]

\* A change of a crate's place is noted for the syncs that are at that crate.
Disturb(p) ==
    disturbed' = [s \in Syncer |->
        disturbed[s] \cup
            {c \in {Home(p)} \cap Crate :
                pc[s] \in {"list", "digest", "copy"} /\ Current(s).crate = c}]

-----------------------------------------------------------------------------
(* publish_project_api.  Its temporary directory is its own. *)

\* ElmProjectManifest::load, then copy_api_tree lists the sources.
Load(p) ==
    /\ p \in Publisher /\ pc[p] = "load"
    /\ stated' = [stated EXCEPT ![p] = contract[Home(p)]]
    /\ todo' = [todo EXCEPT ![p] = File]
    /\ Goto(p, "gather")
    /\ UNCHANGED <<source, contract, disk, at, victim, syncing, edits, kills, disturbed, published>>

CopySource(p) ==
    /\ pc[p] = "gather" /\ todo[p] # {}
    /\ LET f == FirstOf(todo[p]) IN
         /\ disk' = Put(p, <<Home(p), f>>, source[Home(p)][f])
         /\ todo' = [todo EXCEPT ![p] = @ \ {f}]
    /\ UNCHANGED <<source, contract, at, pc, victim, stated, syncing, edits, kills, disturbed, published>>

\* normalize_published_api_manifest: paths into the kernel sources become paths
\* to the facades.  A path to .elm/framework from elsewhere is refused.
CannotNormalize(p) == disk[p][<<Home(p), "Cargo.toml">>].form = "misplaced"

SealDigestFirst(p) ==
    /\ pc[p] = "gather" /\ todo[p] = {} /\ ~CannotNormalize(p)
    /\ LET tree == [Tree(p, Home(p)) EXCEPT !["Cargo.toml"].form = "facade"]
           sealed == [contract |-> stated[p], digest |-> Tree(p, Home(p))]
       IN /\ disk' = [disk EXCEPT ![p] =
                        [n \in DOMAIN @ \cup {<<Home(p), Record>>} |->
                            IF n[2] = Record THEN sealed ELSE tree[n[2]]]]
          /\ published' = [published EXCEPT ![Home(p)] = @ \cup {sealed}]
    /\ Goto(p, "look")
    /\ UNCHANGED <<source, contract, at, todo, victim, stated, syncing, edits, kills, disturbed>>

Seal(p) ==
    /\ pc[p] = "gather" /\ todo[p] = {} /\ ~CannotNormalize(p)
    /\ LET tree == [Tree(p, Home(p)) EXCEPT !["Cargo.toml"].form = "facade"]
           sealed == [contract |-> stated[p], digest |-> tree]
       IN /\ disk' = [disk EXCEPT ![p] =
                        [n \in DOMAIN @ \cup {<<Home(p), Record>>} |->
                            IF n[2] = Record THEN sealed ELSE tree[n[2]]]]
          /\ published' = [published EXCEPT ![Home(p)] = @ \cup {sealed}]
    /\ Goto(p, "look")
    /\ UNCHANGED <<source, contract, at, todo, victim, stated, syncing, edits, kills, disturbed>>

RefuseManifest(p) ==
    /\ pc[p] = "gather" /\ todo[p] = {} /\ CannotNormalize(p)
    /\ Goto(p, "refused")
    /\ UNCHANGED <<source, contract, disk, at, todo, victim, stated, syncing, edits, kills,
                   disturbed, published>>

-----------------------------------------------------------------------------
(* remove_if_exists and rename: how both exchange a place for their own     *)
(* directory.  remove_dir_all opens the directory and unlinks through the   *)
(* handle, so that what is renamed into the place meanwhile is not touched; *)
(* what others have unlinked already does not disturb it.                   *)

AfterRemoving(p) == IF p \in Syncer /\ wants[p] = <<>> THEN "done" ELSE "rename"

LookKeepsOld(p) ==
    /\ pc[p] = "look"
    /\ Goto(p, AfterRemoving(p))
    /\ UNCHANGED <<source, contract, disk, at, todo, victim, stated, syncing, edits, kills,
                   disturbed, published>>

Look(p) ==
    /\ pc[p] = "look"
    /\ Goto(p, IF at[Home(p)] = None THEN AfterRemoving(p) ELSE "open")
    /\ UNCHANGED <<source, contract, disk, at, todo, victim, stated, syncing, edits, kills,
                   disturbed, published>>

Open(p) ==
    /\ pc[p] = "open"
    /\ IF at[Home(p)] = None
       THEN Goto(p, "failed") /\ UNCHANGED victim
       ELSE Goto(p, "unlink") /\ victim' = [victim EXCEPT ![p] = at[Home(p)]]
    /\ UNCHANGED <<source, contract, disk, at, todo, stated, syncing, edits, kills,
                   disturbed, published>>

\* Entries come in any order; a subdirectory goes when it is empty.
Unlink(p) ==
    /\ pc[p] = "unlink"
    /\ \E n \in DOMAIN disk[victim[p]] :
         /\ n[2] = Subdirectory =>
              \A m \in DOMAIN disk[victim[p]] : m[1] = n[1] => m = n
         /\ disk' = Without(victim[p], n)
    /\ Disturb(p)
    /\ UNCHANGED <<source, contract, at, pc, todo, victim, stated, syncing, edits, kills, published>>

IsEmpty(d) == DOMAIN disk[d] = {}

\* rmdir by name: it may find another directory, or none.
RemoveDirectory(p) ==
    /\ pc[p] = "unlink" /\ IsEmpty(victim[p])
    /\ IF at[Home(p)] = None
       THEN Goto(p, AfterRemoving(p)) /\ UNCHANGED <<at, disturbed>>
       ELSE IF IsEmpty(at[Home(p)])
       THEN /\ at' = [at EXCEPT ![Home(p)] = None]
            /\ Goto(p, AfterRemoving(p))
            /\ Disturb(p)
       ELSE Goto(p, "failed") /\ UNCHANGED <<at, disturbed>>
    /\ UNCHANGED <<source, contract, disk, todo, victim, stated, syncing, edits, kills, published>>

\* rename(2) replaces an empty directory and no other.
Rename(p) ==
    /\ pc[p] = "rename"
    /\ IF at[Home(p)] = None \/ IsEmpty(at[Home(p)])
       THEN /\ at' = [at EXCEPT ![Home(p)] = p]
            /\ Goto(p, "done")
            /\ Disturb(p)
       ELSE Goto(p, "failed") /\ UNCHANGED <<at, disturbed>>
    /\ UNCHANGED <<source, contract, disk, todo, victim, stated, syncing, edits, kills, published>>

-----------------------------------------------------------------------------
(* sync_dependency_apis. *)

StartSync(s) ==
    /\ s \in Syncer /\ pc[s] = "load"
    /\ \E list \in Wants :
         /\ wants' = [wants EXCEPT ![s] = list]
         /\ Goto(s, IF list = <<>> THEN "look" ELSE "record")
    /\ index' = [index EXCEPT ![s] = 1]
    /\ UNCHANGED <<source, contract, disk, at, todo, victim, stated, record, seen, edits, kills,
                   disturbed, published>>

\* An error before the exchange: the temporary directory goes.
Refuse(s) ==
    /\ Goto(s, "refused")
    /\ disk' = [disk EXCEPT ![s] = <<>>]
    /\ UNCHANGED <<todo, record, seen>>

\* validate_api_snapshot reads the record and compares who it is of.
Repeated(s) == \E i \in 1..(index[s] - 1) : wants[s][i].crate = Current(s).crate

ReadRecord(s) ==
    /\ pc[s] = "record"
    /\ LET c == Current(s).crate IN
         IF \/ Repeated(s) \/ Record \notin Present(c)
            \/ disk[at[c]][<<c, Record>>].contract # Current(s).contract
         THEN Refuse(s)
         ELSE /\ record' = [record EXCEPT ![s] = disk[at[c]][<<c, Record>>]]
              /\ Goto(s, "list")
              /\ UNCHANGED <<disk, todo, seen>>
    /\ UNCHANGED <<source, contract, at, victim, stated, wants, index, edits, kills, disturbed,
                   published>>

Listing(c) == File \cap Present(c)

\* api_tree_digest lists the files, then reads each by its path.
List(s) ==
    /\ pc[s] = "list"
    /\ LET c == Current(s).crate IN
         IF at[c] = None
         THEN Refuse(s)
         ELSE /\ todo' = [todo EXCEPT ![s] = Listing(c)]
              /\ seen' = [seen EXCEPT ![s] = <<>>]
              /\ Goto(s, "digest")
              /\ UNCHANGED <<disk, record>>
    /\ UNCHANGED <<source, contract, at, victim, stated, wants, index, edits, kills, disturbed,
                   published>>

ReadFile(s) ==
    /\ pc[s] = "digest" /\ todo[s] # {}
    /\ LET c == Current(s).crate
           f == FirstOf(todo[s]) IN
         IF f \notin Present(c)
         THEN Refuse(s)
         ELSE /\ seen' = [seen EXCEPT ![s] =
                            [g \in DOMAIN @ \cup {f} |->
                                IF g = f THEN disk[at[c]][<<c, f>>] ELSE seen[s][g]]]
              /\ todo' = [todo EXCEPT ![s] = @ \ {f}]
              /\ UNCHANGED <<disk, record, pc>>
    /\ UNCHANGED <<source, contract, at, victim, stated, wants, index, edits, kills, disturbed,
                   published>>

AcceptUnchecked(s) ==
    /\ pc[s] = "digest" /\ todo[s] = {}
    /\ LET c == Current(s).crate IN
         IF at[c] = None
         THEN Refuse(s)
         ELSE /\ todo' = [todo EXCEPT ![s] = Listing(c)]
              /\ disk' = Put(s, <<c, Subdirectory>>, None)
              /\ Goto(s, "copy")
              /\ UNCHANGED <<record, seen>>
    /\ UNCHANGED <<source, contract, at, victim, stated, wants, index, edits, kills, disturbed,
                   published>>

\* The digests agree; copy_api_tree lists the snapshot again.
Accept(s) ==
    /\ pc[s] = "digest" /\ todo[s] = {}
    /\ LET c == Current(s).crate IN
         IF seen[s] # record[s].digest \/ at[c] = None
         THEN Refuse(s)
         ELSE /\ todo' = [todo EXCEPT ![s] = Listing(c)]
              /\ disk' = Put(s, <<c, Subdirectory>>, None)
              /\ Goto(s, "copy")
              /\ UNCHANGED <<record, seen>>
    /\ UNCHANGED <<source, contract, at, victim, stated, wants, index, edits, kills, disturbed,
                   published>>

\* A listed file that has gone is passed over, or, when it goes between is_file
\* and copy, an error.
CopyFile(s) ==
    /\ pc[s] = "copy" /\ todo[s] # {}
    /\ LET c == Current(s).crate
           f == FirstOf(todo[s]) IN
         \/ /\ f \in Present(c)
            /\ disk' = Put(s, <<c, f>>, disk[at[c]][<<c, f>>])
            /\ todo' = [todo EXCEPT ![s] = @ \ {f}]
            /\ UNCHANGED <<pc, record, seen>>
         \/ /\ f \notin Present(c)
            /\ todo' = [todo EXCEPT ![s] = @ \ {f}]
            /\ UNCHANGED <<disk, pc, record, seen>>
         \/ /\ f \notin Present(c)
            /\ Refuse(s)
    /\ UNCHANGED <<source, contract, at, victim, stated, wants, index, edits, kills, disturbed,
                   published>>

NextDependency(s) ==
    /\ pc[s] = "copy" /\ todo[s] = {}
    /\ IF index[s] < Len(wants[s])
       THEN index' = [index EXCEPT ![s] = @ + 1] /\ Goto(s, "record")
       ELSE UNCHANGED index /\ Goto(s, "look")
    /\ UNCHANGED <<source, contract, disk, at, todo, victim, stated, record, seen, wants, edits, kills,
                   disturbed, published>>

-----------------------------------------------------------------------------
(* Around them: the sources are edited, processes are killed. *)

Ended == {"done", "refused", "failed", "killed"}

EditFile(c) ==
    /\ edits < MaxEdits /\ edits' = edits + 1
    /\ \E f \in File, form \in {"kernel", "misplaced"} :
         /\ form = "misplaced" => f = "Cargo.toml"
         /\ source' = [source EXCEPT ![c][f] = [edition |-> edits', form |-> form]]
    /\ UNCHANGED <<contract, work, syncing, kills, disturbed, published>>

EditContract(c) ==
    /\ edits < MaxEdits /\ edits' = edits + 1
    /\ \E k \in Contract \ {contract[c]} : contract' = [contract EXCEPT ![c] = k]
    /\ UNCHANGED <<source, work, syncing, kills, disturbed, published>>

\* What a killed process was making stays where nobody looks; what it was
\* removing stays as it is.
Kill(p) ==
    /\ pc[p] \notin Ended \cup {"load"}
    /\ kills < MaxKills /\ kills' = kills + 1
    /\ Goto(p, "killed")
    /\ UNCHANGED <<source, contract, disk, at, todo, victim, stated, syncing, edits,
                   disturbed, published>>

Publish(p) == Load(p) \/ CopySource(p) \/ Seal(p) \/ RefuseManifest(p)
Exchange(p) == Look(p) \/ Open(p) \/ Unlink(p) \/ RemoveDirectory(p) \/ Rename(p)
Sync(s) == \/ StartSync(s) \/ ReadRecord(s) \/ List(s) \/ ReadFile(s) \/ Accept(s)
           \/ CopyFile(s) \/ NextDependency(s)

\* Every place is empty, or holds what an earlier process has put there: the
\* first edition of a crate, with the contract it has now.
FirstEdition == [f \in File |-> [edition |-> 0, form |-> "kernel"]]
FirstSnapshot(k) ==
    [contract |-> k, digest |-> [FirstEdition EXCEPT !["Cargo.toml"].form = "facade"]]
Snapshot(c, sealed) ==
    [n \in {c} \X (File \cup {Record}) |->
        IF n[2] = Record THEN sealed ELSE sealed.digest[n[2]]]

\* What an earlier sync has left in a project.
Earlier(c) == [n \in {c} \X (File \cup {Subdirectory}) |->
                 IF n[2] = Subdirectory THEN None ELSE FirstEdition[n[2]]]

Init ==
    /\ source = [c \in Crate |-> FirstEdition]
    /\ contract \in [Crate -> Contract]
    /\ \E filled \in SUBSET Place :
         /\ at = [h \in Place |-> IF h \in filled THEN h ELSE None]
         /\ published = [c \in Crate |-> IF c \in filled THEN {FirstSnapshot(contract[c])} ELSE {}]
         /\ disk = [d \in Directory |->
                       CASE d \in filled \cap Crate -> Snapshot(d, FirstSnapshot(contract[d]))
                         [] d \in filled \cap Project -> Earlier(CHOOSE c \in Crate : TRUE)
                         [] OTHER -> <<>>]
    /\ pc = [p \in Process |-> "load"]
    /\ todo = [p \in Process |-> {}]
    /\ victim = [p \in Process |-> None]
    /\ stated = [p \in Publisher |-> None]
    /\ record = [s \in Syncer |-> None]
    /\ seen = [s \in Syncer |-> <<>>]
    /\ wants = [s \in Syncer |-> <<>>]
    /\ index = [s \in Syncer |-> 1]
    /\ edits = 0 /\ kills = 0
    /\ disturbed = [s \in Syncer |-> {}]

Next == \/ \E p \in Publisher : Publish(p)
        \/ \E s \in Syncer : Sync(s)
        \/ \E p \in Process : Exchange(p) \/ Kill(p)
        \/ \E c \in Crate : EditFile(c) \/ EditContract(c)

Spec == Init /\ [][Next]_vars

-----------------------------------------------------------------------------
(* Properties. *)

Removed(d) == \E p \in Process : victim[p] = d

\* What a directory in a place should be: a crate's has the record of just
\* what it holds, a project's has every crate of the list it was made for.
Whole(h, d) ==
    IF h \in Crate
    THEN /\ <<h, Record>> \in DOMAIN disk[d]
         /\ disk[d][<<h, Record>>].digest = Tree(d, h)
    ELSE d \in Syncer => \A c \in Crates(wants[d]) : <<c, Subdirectory>> \in DOMAIN disk[d]

\* What is in a place is whole, or some process has begun to remove it: no
\* half-made directory is ever where others look, whoever is killed when.
WholeOrRemoved ==
    \A h \in Place : at[h] # None => Whole(h, at[h]) \/ Removed(at[h])

\* The dependencies a sync has installed are, crate by crate, snapshots that
\* were published under the contract the project asks for, unless the crate's
\* place changed between its validation and the end of its copy.  What a killed
\* publication has left, half removed, is not installed.
InstalledWasPublished ==
    \A x \in Project : at[x] \in Syncer /\ ~Removed(at[x]) =>
        LET s == at[x] IN
        \A i \in DOMAIN wants[s] : wants[s][i].crate \notin disturbed[s] =>
            [contract |-> wants[s][i].contract, digest |-> Tree(s, wants[s][i].crate)]
                \in published[wants[s][i].crate]

\* When several processes exchange one place at once, some may fail, but not
\* all: unless one was killed, the place holds in the end what one of those that
\* got so far has made, whole.
Exchangers(h) == {p \in Process : Home(p) = h /\ pc[p] \in {"done", "failed"}}

SomeoneInstalls ==
    \A h \in Place :
        /\ \A p \in Process : Home(p) = h => pc[p] \in {"load", "done", "refused", "failed"}
        /\ Exchangers(h) # {}
        => \/ at[h] \in Exchangers(h) /\ Whole(h, at[h])
           \/ at[h] = None /\ \E s \in Exchangers(h) \cap Syncer : wants[s] = <<>>

-----------------------------------------------------------------------------
(* The inductive invariants. *)

Comparing == {"record", "list", "digest", "copy"}
Exchanging == {"look", "open", "unlink", "rename"}

SnapTyped ==
    /\ at \in [Place -> Directory \cup {None}] /\ disk = [d \in Directory |-> disk[d]]
    /\ pc \in [Process -> {"load", "gather"} \cup Comparing \cup Exchanging \cup Ended]
    /\ todo \in [Process -> SUBSET File] /\ victim \in [Process -> Directory \cup {None}]
    /\ record = [s \in Syncer |-> record[s]] /\ seen = [s \in Syncer |-> seen[s]]
    /\ wants \in [Syncer -> Seq([crate : Crate, contract : Contract])] /\ index \in [Syncer -> Nat \ {0}]
    /\ disturbed \in [Syncer -> SUBSET Crate] /\ published = [c \in Crate |-> published[c]]
    /\ \A p \in Publisher : pc[p] \notin Comparing
    /\ \A s \in Syncer : /\ pc[s] # "gather"
                         /\ pc[s] \in Comparing => index[s] \in DOMAIN wants[s]

\* Whatever is or was in a place was there from the start, or is of a process
\* that has ended; what a process has removed is there no more.
OfPlace(h, d) == d = h \/ (d \in Process /\ Home(d) = h /\ pc[d] = "done")
PlaceInv ==
    /\ \A h \in Place : at[h] # None => OfPlace(h, at[h])
    /\ \A p \in Process :
          /\ victim[p] # None => OfPlace(Home(p), victim[p])
          /\ pc[p] \in {"load", "gather", "look", "open"} \cup Comparing => victim[p] = None
          /\ pc[p] = "unlink" => victim[p] # None
          /\ victim[p] # None /\ pc[p] \notin {"unlink", "killed"} => at[Home(p)] # victim[p]
          /\ pc[p] \in {"rename", "done", "failed"} => at[Home(p)] # Home(p)

\* The dependencies a sync is through with, and those it has begun to copy.
Behind(s, i) == pc[s] \in Comparing => i < index[s]
Begun(s, i) == i < index[s] \/ (i = index[s] /\ pc[s] = "copy")

\* What is to be put into a place is whole.
WholeInv ==
    /\ WholeOrRemoved
    /\ \A p \in Process : pc[p] \in Exchanging => Whole(Home(p), p)
    /\ \A s \in Syncer : pc[s] \in Comparing =>
          \A i \in DOMAIN wants[s] : Begun(s, i) => <<wants[s][i].crate, Subdirectory>> \in DOMAIN disk[s]

\* Who finds a place empty leaves it to one that has emptied it, and fills it.
Empties(s) == s \in Syncer /\ wants[s] = <<>> /\ pc[s] = "done"
FillInv ==
    \A h \in Place :
        /\ at[h] = None
        /\ \A p \in Process : Home(p) = h => pc[p] # "killed"
        /\ \E p \in Process : Home(p) = h /\ pc[p] \in {"open", "unlink", "failed", "done"}
        => \E p \in Process : Home(p) = h /\ (pc[p] = "rename" \/ Empties(p))

\* The records in the directories of a crate are published ones.
RecordInv ==
    \A c \in Crate :
        /\ \A r \in published[c] : r = [contract |-> r.contract, digest |-> r.digest]
        /\ \A d \in {c} \cup {p \in Publisher : Publishes[p] = c} :
              /\ DOMAIN disk[d] \subseteq {c} \X (File \cup {Record})
              /\ <<c, Record>> \in DOMAIN disk[d] => disk[d][<<c, Record>>] \in published[c]

\* What a sync has read and copied of a snapshot that has not changed meanwhile.
SoFar(s, c) ==
    /\ at[c] # None /\ <<c, Record>> \in DOMAIN disk[at[c]] /\ record[s] = disk[at[c]][<<c, Record>>]
    /\ record[s].contract = Current(s).contract
    /\ pc[s] \in {"digest", "copy"} => todo[s] \subseteq Listing(c)
    /\ pc[s] = "digest" => seen[s] = [f \in Listing(c) \ todo[s] |-> disk[at[c]][<<c, f>>]]
    /\ pc[s] = "copy" =>
          record[s].digest = Tree(at[c], c) /\ Tree(s, c) = [f \in Listing(c) \ todo[s] |-> disk[at[c]][<<c, f>>]]

Copying(s) ==
    pc[s] \in {"list", "digest", "copy"} =>
        ~Repeated(s) /\ (Current(s).crate \notin disturbed[s] => SoFar(s, Current(s).crate))

\* Nothing else is in its directory.
NothingElse(s) ==
    /\ pc[s] = "load" => DOMAIN disk[s] = {}
    /\ pc[s] \in Comparing =>
          \A n \in DOMAIN disk[s] : \E i \in DOMAIN wants[s] : Begun(s, i) /\ n[1] = wants[s][i].crate

Copied(s) ==
    pc[s] \in Comparing \cup Exchanging \cup {"done"} /\ ~Removed(s) =>
        \A i \in DOMAIN wants[s] : Behind(s, i) /\ wants[s][i].crate \notin disturbed[s] =>
            [contract |-> wants[s][i].contract, digest |-> Tree(s, wants[s][i].crate)]
                \in published[wants[s][i].crate]

CopyInv == \A s \in Syncer : Copying(s) /\ NothingElse(s) /\ Copied(s)

SnapInv == SnapTyped /\ PlaceInv /\ WholeInv /\ FillInv /\ RecordInv /\ CopyInv
=============================================================================
