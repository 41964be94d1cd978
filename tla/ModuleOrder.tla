----------------------------- MODULE ModuleOrder -----------------------------
(***************************************************************************)
(* topological_order of src/build_set.rs: the order in which build-set     *)
(* builds the modules of a set.                                            *)
(*                                                                         *)
(* The code sweeps a vector of pending modules again and again.  A module  *)
(* whose dependencies have all been emitted is taken out and appended to   *)
(* the output, any other is left where it is, and a sweep that takes       *)
(* nothing out reports a cycle.  Here the vector is split at the index of  *)
(* the inner loop: kept is what the sweep has passed over, rest what it    *)
(* has still to look at.                                                   *)
(***************************************************************************)
EXTENDS Naturals, Sequences, FiniteSets

CONSTANT Module   \* the module names

VARIABLES
    requires,   \* requires[m]: the names in the depends and after lists of a module m of the set
    kept,       \* pending modules the current sweep has left in place
    rest,       \* pending modules the current sweep has not looked at
    progress,   \* the current sweep has emitted a module
    output,     \* the modules emitted so far
    verdict     \* "running", "ordered", or the error: "unknown", "cycle"

orderVars == <<requires, kept, rest, progress, output, verdict>>

Elements(s) == {s[i] : i \in DOMAIN s}
Distinct(s) == \A i, j \in DOMAIN s : s[i] = s[j] => i = j

\* Every dependency of m has been emitted.
Ready(m) == requires[m] \subseteq Elements(output)

\* The modules in file order, with the names each of them lists.  A name none
\* of them has is refused before the first sweep.
FirstVerdict(listing, needs) ==
    IF \A m \in Elements(listing) : needs[m] \subseteq Elements(listing) THEN "running" ELSE "unknown"

OrderInit(listing, needs) ==
    /\ requires = needs /\ verdict = FirstVerdict(listing, needs)
    /\ kept = <<>> /\ rest = listing /\ progress = FALSE /\ output = <<>>

\* The same as a step, for a caller that orders more than one list.
OrderStart(listing, needs) ==
    /\ requires' = needs /\ verdict' = FirstVerdict(listing, needs)
    /\ kept' = <<>> /\ rest' = listing /\ progress' = FALSE /\ output' = <<>>

\* Mutant: being listed after a module is taken for depending on an emitted one.
EmitAny ==
    /\ verdict = "running" /\ rest # <<>>
    /\ Ready(Head(rest)) \/ output # <<>>
    /\ output' = Append(output, Head(rest))
    /\ rest' = Tail(rest)
    /\ progress' = TRUE
    /\ UNCHANGED <<requires, kept, verdict>>

Emit ==
    /\ verdict = "running" /\ rest # <<>>
    /\ Ready(Head(rest))
    /\ output' = Append(output, Head(rest))
    /\ rest' = Tail(rest)
    /\ progress' = TRUE
    /\ UNCHANGED <<requires, kept, verdict>>

\* Mutant: a module that has to wait is dropped.
SkipAndDrop ==
    /\ verdict = "running" /\ rest # <<>>
    /\ ~Ready(Head(rest))
    /\ rest' = Tail(rest)
    /\ UNCHANGED <<requires, kept, progress, output, verdict>>

Skip ==
    /\ verdict = "running" /\ rest # <<>>
    /\ ~Ready(Head(rest))
    /\ kept' = Append(kept, Head(rest))
    /\ rest' = Tail(rest)
    /\ UNCHANGED <<requires, progress, output, verdict>>

\* Mutant: the next sweep starts whether or not this one emitted anything.
SweepAgainAlways ==
    /\ verdict = "running" /\ rest = <<>> /\ kept # <<>>
    /\ rest' = kept /\ kept' = <<>> /\ progress' = FALSE
    /\ UNCHANGED <<requires, output, verdict>>

SweepAgain ==
    /\ verdict = "running" /\ rest = <<>> /\ kept # <<>> /\ progress
    /\ rest' = kept /\ kept' = <<>> /\ progress' = FALSE
    /\ UNCHANGED <<requires, output, verdict>>

\* Mutant: any module left over after a sweep is called a cycle.
FindCycleEarly ==
    /\ verdict = "running" /\ rest = <<>> /\ kept # <<>>
    /\ verdict' = "cycle"
    /\ UNCHANGED <<requires, kept, rest, progress, output>>

FindCycle ==
    /\ verdict = "running" /\ rest = <<>> /\ kept # <<>> /\ ~progress
    /\ verdict' = "cycle"
    /\ UNCHANGED <<requires, kept, rest, progress, output>>

Finish ==
    /\ verdict = "running" /\ rest = <<>> /\ kept = <<>>
    /\ verdict' = "ordered"
    /\ UNCHANGED <<requires, kept, rest, progress, output>>

OrderNext == Emit \/ Skip \/ SweepAgain \/ FindCycle \/ Finish

\* Every list of distinct modules, with every dependency graph over the names.
Listings == {s \in UNION {[1 .. n -> Module] : n \in 0 .. Cardinality(Module)} : Distinct(s)}

Init == \E listing \in Listings : \E needs \in [Elements(listing) -> SUBSET Module] :
            OrderInit(listing, needs)

Spec == Init /\ [][OrderNext]_orderVars

\* The loop runs on while it has something to do.
FairSpec == Spec /\ WF_orderVars(OrderNext)

-----------------------------------------------------------------------------
(* Properties. *)

Members == DOMAIN requires
Pending == Elements(kept) \cup Elements(rest)

TypeOK ==
    /\ Members \subseteq Module
    /\ requires \in [Members -> SUBSET Module]
    /\ kept \in Seq(Members) /\ rest \in Seq(Members) /\ output \in Seq(Members)
    /\ progress \in BOOLEAN
    /\ verdict \in {"running", "ordered", "unknown", "cycle"}

\* A set of modules none of which can be built before another one of them.
Circular(S) == S # {} /\ \A m \in S : requires[m] \cap S # {}

\* topological_order: no module is emitted before a module it depends on or
\* comes after, however the file lists them.
DependenciesFirst ==
    \A i \in DOMAIN output : requires[output[i]] \subseteq {output[j] : j \in 1 .. (i - 1)}

\* topological_order: taking modules out of the vector while indexing it drops
\* none and emits none twice, and Ok is returned with all of them.
EachModuleOnce ==
    /\ Distinct(output)
    /\ Pending \cap Elements(output) = {}
    /\ Pending \cup Elements(output) = Members
    /\ verdict = "ordered" => Pending = {}

\* topological_order: the cycle error is reported only for a set that has a cycle.
CycleIsReal == verdict = "cycle" => \E S \in SUBSET Members : Circular(S)

\* topological_order: a set with a cycle is never ordered.
CycleIsFound == verdict = "ordered" => \A S \in SUBSET Members : ~Circular(S)

\* topological_order, all of its outcomes: no module is lost or doubled, and it
\* is a cycle in the set, and nothing else, that keeps it from being ordered.
OutcomeIsRight == EachModuleOnce /\ CycleIsReal /\ CycleIsFound

\* topological_order: the sweeps come to an end.
OrderEnds == <>(verdict # "running")

-----------------------------------------------------------------------------
(* The inductive invariant. *)

\* The three sequences share the modules among them.
Partition ==
    /\ Distinct(kept) /\ Distinct(rest) /\ Distinct(output)
    /\ Elements(kept) \cap Elements(rest) = {}
    /\ Pending \cap Elements(output) = {}
    /\ Pending \cup Elements(output) = Members

\* What a sweep without progress has passed over still waits for something.
KeptWait == ~progress => \A m \in Elements(kept) : ~Ready(m)

Known == verdict # "unknown" => \A m \in Members : requires[m] \subseteq Members

VerdictInv ==
    /\ verdict = "cycle" => rest = <<>> /\ kept # <<>> /\ ~progress
    /\ verdict = "ordered" => rest = <<>> /\ kept = <<>>

OrderInv == TypeOK /\ Partition /\ DependenciesFirst /\ KeptWait /\ Known /\ VerdictInv
=============================================================================
