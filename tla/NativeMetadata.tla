--------------------------- MODULE NativeMetadata ---------------------------
(***************************************************************************)
(* What a module says of itself: the records of the section .elm.meta, as  *)
(* NativeMetadata::parse and validate_and_sort of src/rust_metadata.rs     *)
(* read them.                                                              *)
(*                                                                         *)
(* Names, contracts and symbols are numbers ordered like the strings they  *)
(* stand for.  The fields of a record that are compared with one constant  *)
(* only (flags, ABI versions) are one Boolean, plain.                      *)
(***************************************************************************)
EXTENDS Integers, FiniteSets, Sequences

CONSTANTS
    ApiRoot,      \* the import of the ELM API, which every module has
    Descriptor    \* the symbol of the module descriptor

NoSymbol == 0

\* left comes before right, compared field by field.
KeyLess(left, right) ==
    \E k \in DOMAIN left : left[k] < right[k] /\ \A m \in 1 .. (k - 1) : left[m] = right[m]

\* The members of D, one after another by the order before.
Ranked(D, before) ==
    [n \in 1 .. Cardinality(D) |->
        CHOOSE i \in D : n = 1 + Cardinality({j \in D : <<j, i>> \in before})]

\* The numbers of S in their order, and the items of s that pass a test in theirs.
Ascending(S) == Ranked(S, {p \in S \X S : p[1] < p[2]})
Picked(s, S) == [n \in 1 .. Cardinality(S) |-> s[Ascending(S)[n]]]
Kept(s, Test(_)) == Picked(s, {i \in DOMAIN s : Test(s[i])})

\* sort_by: entries with equal keys stay in their order.
Arranged(s, key) ==
    LET before == {p \in (DOMAIN s) \X (DOMAIN s) :
                      \/ KeyLess(key[p[1]], key[p[2]])
                      \/ key[p[1]] = key[p[2]] /\ p[1] < p[2]}
    IN  [n \in DOMAIN s |-> s[Ranked(DOMAIN s, before)[n]]]
SortedBy(s, Key(_)) == Arranged(s, [i \in DOMAIN s |-> Key(s[i])])

\* windows(2): two neighbours agree.
Repeats(s, Same(_)) == \E i \in 1 .. (Len(s) - 1) : Same(s[i]) = Same(s[i + 1])

Entry(s) == {s[i] : i \in DOMAIN s}

-----------------------------------------------------------------------------
(* NativeMetadata::parse. *)

\* The point is named for its stage and the payload is the one of its contract.
StageFits(r) == r.stage \in 1 .. 4 /\ r.suffix = r.stage /\ r.payload = r.contract

StageMode(stage) == CASE stage = 2 -> "exclusive" [] stage = 4 -> "observer" [] OTHER -> "chain"

MaxPayload == 256

Readable(r) ==
    /\ r.plain
    /\ r.kind \in {"module", "import", "export", "provider", "snapshot", "point", "extension",
                   "mixin", "payload"}
    /\ r.kind \in {"point", "extension"} => StageFits(r)
    /\ r.kind = "point" => r.mode = StageMode(r.stage)
    /\ r.kind = "payload" => r.size <= MaxPayload
    /\ r.kind = "module" => r.symbol = Descriptor

Of(records, kind) == Kept(records, LAMBDA r : r.kind = kind)

-----------------------------------------------------------------------------
(* validate_and_sort. *)

\* Every list in the order it is packed in.  The root keeps the first place.
Sorted(records) ==
    [imports    |-> <<ApiRoot>> \o SortedBy(Of(records, "import"), LAMBDA x : <<x.name, x.contract, x.slot>>),
     exports    |-> SortedBy(Of(records, "export"), LAMBDA x : <<x.name, x.contract, x.version>>),
     providers  |-> SortedBy(Of(records, "provider"), LAMBDA x : <<x.contract>>),
     points     |-> SortedBy(Of(records, "point"), LAMBDA x : <<x.point>>),
     extensions |-> SortedBy(Of(records, "extension"), LAMBDA x : <<x.target, x.point, -x.priority>>),
     mixins     |-> SortedBy(Of(records, "mixin"), LAMBDA x : <<x.api, x.selector, -x.priority, x.handler>>),
     payloads   |-> SortedBy(Of(records, "payload"), LAMBDA x : <<x.contract>>),
     snapshots  |-> SortedBy(Of(records, "snapshot"), LAMBDA x : <<x.contract>>)]

\* Neighbours in the sorted lists are compared, by other fields than they are sorted by.
NoRepeats(m) ==
    /\ ~Repeats(m.imports, LAMBDA x : <<x.name, x.contract, x.min, x.max>>)
    /\ ~Repeats(m.exports, LAMBDA x : <<x.name, x.contract, x.version>>)
    /\ ~Repeats(m.providers, LAMBDA x : x.contract)
    /\ ~Repeats(m.snapshots, LAMBDA x : x.contract)
    /\ ~Repeats(m.points, LAMBDA x : x.point)
    /\ ~Repeats(m.extensions, LAMBDA x : <<x.target, x.point>>)
    /\ ~Repeats(m.mixins, LAMBDA x : x.handler)
    /\ ~Repeats(m.payloads, LAMBDA x : x.contract)

\* What one list names is in the other: the provider of a snapshot, the payload of
\* a point, and the payload and the handler of an extension.
Connected(m) ==
    /\ \A x \in Entry(m.exports) : x.symbol = x.name
    /\ \A x \in Entry(m.snapshots) : \E p \in Entry(m.providers) : p.contract = x.contract
    /\ \A x \in Entry(m.points) \cup Entry(m.extensions) :
          \E p \in Entry(m.payloads) : p.contract = x.contract
    /\ \A x \in Entry(m.extensions) :
          \E p \in Entry(m.providers) : p.contract = x.handler /\ p.control

Accepted(records) ==
    /\ records # <<>> /\ \A r \in Entry(records) : Readable(r)
    /\ Len(Of(records, "module")) = 1
    /\ NoRepeats(Sorted(records)) /\ Connected(Sorted(records))

\* retain_linked_kernel_symbol_imports: the imports of kernel symbols that no code
\* of the module refers to are dropped.
RetainedImports(imports, linked) == Kept(imports, LAMBDA x : x.kernel => x.slot \in linked)

\* The functions the kernel calls.
Functions(m) ==
    {x.symbol : x \in Entry(m.exports) \cup Entry(m.snapshots)}
    \cup {x.symbol : x \in Entry(m.providers)} \cup {x.handler : x \in Entry(m.mixins)}

Slots(m) == {x.slot : x \in Entry(m.imports)} \ {NoSymbol}

\* symbol_names: those whose locations are packed.
SymbolNames(m) == {Descriptor} \cup Slots(m) \cup Functions(m)
=============================================================================
