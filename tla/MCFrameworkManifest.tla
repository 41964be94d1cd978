------------------------ MODULE MCFrameworkManifest ------------------------
(***************************************************************************)
(* Instances of FrameworkManifest.  A checkout has two modules, net and    *)
(* blk, whose root manifests reach two library manifests, netlib and       *)
(* virtio: either netlib belongs to net alone and is in a path cycle with  *)
(* its root (a dev-dependency), or both modules share virtio, which is in  *)
(* a cycle with netlib.  A third project, ext, is outside the kernel tree  *)
(* and names its framework directly.                                       *)
(***************************************************************************)
EXTENDS FrameworkManifest, TLC

CONSTANTS p1, p2, net, blk, ext, set1, netToml, blkToml, extToml, netlib, virtio

Tomls == (net :> netToml) @@ (blk :> blkToml) @@ (ext :> extToml)

MCRoot == [p \in Project |-> Tomls[p]]

\* net -> netlib -> net, nothing shared.
PrivateDeps ==
    [f \in Manifest |-> CASE f = netToml -> {netlib} \cap Manifest
                          [] f = netlib -> {netToml}
                          [] OTHER -> {}]

\* net and blk both reach virtio, which is in a path cycle with netlib.
SharedDeps ==
    [f \in Manifest |-> CASE f \in {netToml, blkToml} -> {virtio}
                          [] f = virtio -> {netlib}
                          [] f = netlib -> {virtio}
                          [] OTHER -> {}]

NoSession == [pr \in Process |-> NoSet]
OneSession == [pr \in Process |-> set1]
BuildAny == [pr \in Process |-> Project]

\* net has no committed Cargo.lock, the others have one.
MCCommittedLock == [p \in Project |-> IF p = net THEN "absent" ELSE "committed"]
=============================================================================
