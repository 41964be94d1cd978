--------------------------- MODULE MCProjectBuild ---------------------------
(* The commands of a project, on one target with two interfaces and one     *)
(* with two kernels of the same interface; or the commands on two image     *)
(* files.  Only one of the parts moves.                                     *)
EXTENDS ProjectBuild, EkiImage, TLC
CONSTANTS riscv64, x86_64, P, Q, p1, p2, a, b, k1, k2

VARIABLE part

MCTarget == <<riscv64, x86_64>>
MCSelection == {<<riscv64>>, MCTarget}
MCTargetOf == (1 :> riscv64) @@ (2 :> riscv64) @@ (3 :> x86_64) @@ (4 :> x86_64)
MCProfile == (1 :> P) @@ (2 :> Q) @@ (3 :> P) @@ (4 :> P)
MCRootOrder == (riscv64 :> <<1, 2>>) @@ (x86_64 :> <<3, 4>>)

MCElf == {[id |-> 1, target |-> riscv64, parts |-> {}],
          [id |-> 2, target |-> x86_64, parts |-> {"menu", "exports"}]}
MCInterface == {[profile |-> P, target |-> riscv64], [profile |-> Q, target |-> riscv64],
                [profile |-> P, target |-> x86_64]}

Symmetry == Permutations(Process) \cup Permutations(EkiFile) \cup Permutations(Signer)

MCInit == part \in {"build", "images"} /\ Init /\ ImageInit
MCNext ==
    \/ part = "build" /\ Next /\ UNCHANGED <<imageVars, part>>
    \/ part = "images" /\ ImageNext /\ UNCHANGED <<vars, part>>

MCSpec == MCInit /\ [][MCNext]_<<vars, imageVars, part>>
=============================================================================
