-------------------------- MODULE MCInterfaceCache --------------------------
(* Two of the three targets.  The kernel's directory holds packages of two   *)
(* profiles for riscv and one for x86.  The environment may name the package *)
(* of x86, or a directory with a link to it.                                 *)
EXTENDS InterfaceCache
CONSTANTS riscv, x86

TwoTargets == <<riscv, x86>>
FirstProfile == {<<riscv, 1>>, <<x86, 1>>}
OneEach == [q \in {1} |-> 1]
AnyProfile == {<<>>}
OnlyKernel == {FirstProfile}

TwoProfiles == [q \in {1, 2} |-> q]
ThreePackages == {<<riscv, 1>>, <<riscv, 2>>, <<x86, 1>>}
OnePackage == {{<<x86, 1>>}}
SomeWants == {<<>>, <<2, 1>>}
=============================================================================
