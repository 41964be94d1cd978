----------------------------- MODULE MCPublished -----------------------------
(* What is published for others: the API snapshots of modules, and language *)
(* packages.  Only one of the parts moves; the other is held at one state.  *)
EXTENDS MCApiSnapshots, MCLanguagePackage
CONSTANTS k1, k2

Symmetry == Permutations(Publisher)

SnapshotsIdle ==
    /\ source = <<>> /\ contract = <<>> /\ disk = <<>> /\ published = <<>>
    /\ at = [h \in Place |-> None]
    /\ pc = [p \in Process |-> "idle"]
    /\ todo = <<>> /\ victim = [p \in Process |-> None] /\ stated = <<>>
    /\ record = <<>> /\ seen = <<>> /\ index = <<>> /\ disturbed = <<>>
    /\ wants = [s \in Syncer |-> <<>>]
    /\ edits = MaxEdits /\ kills = MaxKills

PackageIdle ==
    /\ kernel = Missing /\ package = Missing /\ bridge = Missing
    /\ schema = Missing /\ stored = <<>>
    /\ gen = IdleGen /\ check = [IdleCheck EXCEPT !.pc = "off"]
    /\ moves = MaxMoves /\ generations = MaxGenerations /\ undisturbed = FALSE

\* The second crate starts with the contract projects ask for; the package has a schema, and
\* the first key has signed it: which of them does is no matter.
MCInit ==
    \/ Init /\ contract[net] = 1 /\ PackageIdle
    \/ SnapshotsIdle /\ PackageInit /\ schema # Missing
       /\ \A i \in DOMAIN package.artifacts : package.artifacts[i].signature.key = k1
MCNext ==
    \/ kernel = Missing /\ Next /\ UNCHANGED packageVars
    \/ kernel # Missing /\ PackageNext /\ UNCHANGED vars

MCSpec == MCInit /\ [][MCNext]_<<vars, packageVars>>
=============================================================================
