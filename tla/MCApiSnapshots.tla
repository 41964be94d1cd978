--------------------------- MODULE MCApiSnapshots ---------------------------
EXTENDS ApiSnapshots, TLC

CONSTANTS bus, net, x, p1, p2, s1

\* Two publications of one crate; a project with an earlier dependency on another.
MCFiles == <<"Cargo.toml", "src">>
MCPublishes == [p \in Publisher |-> bus]
MCSyncsFor == [s \in Syncer |-> x]
\* None; the same crate twice, which is refused; two crates.
MCWants == {<<>>, <<[crate |-> bus, contract |-> 1], [crate |-> bus, contract |-> 1]>>,
            <<[crate |-> net, contract |-> 1], [crate |-> bus, contract |-> 1]>>}

=============================================================================
