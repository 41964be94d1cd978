--------------------------- MODULE MCKernelSymbols ---------------------------
(* Two functions, one of which has a closure and one an item in it that is   *)
(* exported too, and a method, which may be mangled in either way.  Names of  *)
(* core and alloc are in several objects, and so may be others; one is of an  *)
(* impl block whose disambiguator has a C, one of a closure.                   *)
EXTENDS KernelSymbols

Open == <<"vfs", "open">>
Inner == <<"vfs", "open", "inner">>
Read == <<"vfs", "File", "read">>
Legacy(path, hash) == [form |-> "legacy", lead |-> <<>>, path |-> path, hash |-> hash]
Led(lead, path) == [form |-> "v0", lead |-> lead, path |-> path, hash |-> 1]
V0(path) == Led(<<>>, path)
Panic1 == Legacy(<<"core", "panic">>, 1)
Grow == V0(<<"alloc", "grow">>)
Push == Led(<<"C", "_">>, <<"alloc", "push">>)
Drop == Led(<<"_", "C">>, <<"core", "drop">>)
Closure == Legacy(<<"vfs", "open", "closure">>, 1)
Memcpy == [form |-> "plain", lead |-> <<>>, path |-> <<"memcpy">>, hash |-> 1]

ObjectSet == {{}, {Legacy(Open, 1), Panic1, Memcpy}, {Closure, Grow, Panic1, Push}, {V0(Read), Grow, Memcpy, Drop},
              {Legacy(Open, 2), Grow}, {Legacy(Read, 1), V0(Read)}, {Legacy(Inner, 1), Legacy(Open, 1)}}

Exported(path, kind, abi, sameLeaf) ==
    [path |-> path, kind |-> kind, abi |-> abi, sameLeaf |-> sameLeaf, exact |-> TRUE, aliases |-> {}]
OpenAs(sameLeaf) == Exported(Open, "function", "f", sameLeaf)
ReadAs(abi) == Exported(Read, "method", abi, TRUE)
InnerAs == Exported(Inner, "function", "f", TRUE)

MCExports == {<<>>, <<OpenAs(TRUE)>>, <<OpenAs(FALSE)>>, <<ReadAs("m")>>, <<ReadAs("m"), OpenAs(TRUE)>>,
              <<ReadAs("f"), OpenAs(TRUE)>>, <<OpenAs(TRUE), InnerAs>>, <<OpenAs(TRUE), OpenAs(TRUE)>>,
              <<ReadAs("m"), InnerAs>>, <<[OpenAs(TRUE) EXCEPT !.exact = FALSE]>>}

\* The hashes of two paths happen to be equal.
MCStableName == [path \in {Open, Inner, Read} |-> IF path = Open THEN "h1" ELSE "h2"]

MCPublicAbis == {[path \in {} |-> "f"], [path \in {Open, Read} |-> IF path = Open THEN "f" ELSE "m"],
                 [path \in {Open, Inner} |-> "f"]}

MCRlibs == {<<>>} \cup
    {<<[api |-> TRUE, objects |-> <<x, y>>], [api |-> other, objects |-> <<z>>]>> :
        x \in ObjectSet, y \in ObjectSet, z \in ObjectSet, other \in BOOLEAN}
=============================================================================
