------------------------- MODULE MCLanguagePackage -------------------------
(* Two APIs, two targets, two kernels, and the bridges and manifests edited in. *)
EXTENDS LanguagePackage, TLC

CONSTANTS t1, t2, io

Query == "query" :> [capabilities |-> {}, abi |-> 1]
Control == "control" :> [capabilities |-> {io}, abi |-> 1]

\* The second kernel changes one API and has the other no more.
MCKernels == {
    [source |-> 1, profile |-> "default", symbols |-> Query @@ Control],
    [source |-> 2, profile |-> "default", symbols |-> "query" :> [capabilities |-> {}, abi |-> 2]]}

Scalar == [kind |-> "integer", size |-> 4, shape |-> "unsigned", parts |-> <<>>, macros |-> {"SIZE_U32"}]
Field(label, offset, type) == [label |-> label, offset |-> offset, type |-> type]
Pair(second) ==
    [kind |-> "struct", size |-> 12, shape |-> "value", macros |-> {"SIZE_PAIR"},
     parts |-> <<Field("first", 0, "U32"), Field("second", second, "U32")>>]
Box ==
    [kind |-> "struct", size |-> 12, shape |-> "value", macros |-> {"SIZE_BOX"},
     parts |-> <<Field("pair", 0, "Pair")>>]
Types == "U32" :> Scalar @@ "Pair" :> Pair(4) @@ "Box" :> Box

QueryOp == [api |-> "query", wire |-> "q", macro |-> "OP_Q", request |-> "U32", response |-> "Box",
            version |-> 1, capability |-> Missing, limits |-> <<4, 12>>]
ControlOp == [QueryOp EXCEPT !.api = "control", !.wire = "c", !.macro = "OP_C", !.response = "Pair",
                                !.capability = io]

Full == [types |-> Types, operations |-> <<ControlOp, QueryOp>>]

\* A field of an inner type moves, and macros of a type and of an operation collide; the one
\* operation the second kernel has.
MCBridges == {
    Full,
    [Full EXCEPT !.types["Pair"] = Pair(8), !.types["U32"].macros = {"SIZE_U32", "OP_Q"}],
    [Full EXCEPT !.operations = <<QueryOp>>]}

Entry(path, kind, t) ==
    [path |-> path, kind |-> kind, target |-> t, sha |-> Missing, signature |-> Missing]
Plain == [targets |-> {t1}, profile |-> "default", requested |-> {io}, meta |-> 1,
          eki |-> "main", ekiSha |-> Missing, interfaceSha |-> Missing, bridgeSha |-> Missing,
          artifacts |-> <<Entry("main", "eki", t1)>>]

\* No capability, images for a second target, and a blob and another image before package.eki.
MCManifests == {
    Plain,
    [Plain EXCEPT !.targets = {t1, t2}, !.requested = {},
                  !.artifacts = <<Entry("data", "blob", t1), Entry("second", "eki", t2),
                                  Entry("third", "eki", t1), Entry("main", "eki", t1)>>]}
=============================================================================
