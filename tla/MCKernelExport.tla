--------------------------- MODULE MCKernelExport ---------------------------
(* Two API crates, one the other depends on, a crate below that is no API,  *)
(* and a procedural macro; the second configuration has a unit of its own   *)
(* for one crate, another fingerprint in the same unit for the next, and    *)
(* shares the last.                                                         *)
EXTENDS KernelExport, TLC
CONSTANTS vfs, mm, bits, macros, A, B, kernelA, kernelB

bitsA == 1
mmA == 2
vfsA == 3
vfsB == 4

MCCrateOf == (vfsA :> vfs) @@ (vfsB :> vfs) @@ (mmA :> mm) @@ (bitsA :> bits)
MCKernelUnit == (A :> kernelA) @@ (B :> kernelB)
MCUnitOf == (A :> (vfs :> vfsA @@ mm :> mmA @@ bits :> bitsA))
         @@ (B :> (vfs :> vfsB @@ mm :> mmA @@ bits :> bitsA))
MCFingerprintOf == (A :> (vfs :> 1 @@ mm :> 2 @@ bits :> 3 @@ macros :> 4))
                @@ (B :> (vfs :> 5 @@ mm :> 6 @@ bits :> 3 @@ macros :> 4))
MCDepends == (vfs :> {mm, macros}) @@ (mm :> {bits}) @@ (bits :> {})
=============================================================================
