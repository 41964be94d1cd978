----------------------------- MODULE NativeImage -----------------------------
(***************************************************************************)
(* How the addresses of an ELF file become the segments, locations and     *)
(* relocations of an EKI image (pack_elf_project and ElfImage of           *)
(* src/main.rs), and those the listing of objdump (build_image_view of     *)
(* src/disasm.rs).  The image names places by segment and offset; whoever  *)
(* reads it lays the segments out again.                                   *)
(*                                                                         *)
(* Segments, imports and slots are numbered from 1.                        *)
(***************************************************************************)
EXTENDS NativeMetadata

CONSTANTS
    Elfs,             \* ELF files: [loads, symbols, entries, apart]
    Sections,         \* sections .elm.meta: sequences of records
    KernelSymbol,     \* the exported symbol that a link name leads to
    Sites,            \* the Mixin sites: [api, selector, accepts]
    Page,             \* the size of a page
    DescriptorSize, PointerOffset,   \* of a module descriptor, and of its function pointers
    Lifecycle         \* the labels of those functions, in their order

VARIABLES
    elf,          \* the file being packed
    records,      \* its metadata section
    segments,     \* its PT_LOAD segments by address
    meta,         \* the lists made of the records
    relocations,  \* the run-time relocations found so far
    nextEntry,    \* the dynamic relocation that the loop is at
    eki,          \* the image: segments, imports, locations, relocations
    view,         \* what objdump is given: sections and symbols
    packing       \* where the command is, or "refused"

nativeVars == <<elf, records, segments, meta, relocations, nextEntry, eki, view, packing>>

\* What the tables of an ELF file and the records of its metadata hold.
ProgramHeader == [flags : STRING, vaddr : Nat, file : Nat, mem : Nat, offset : Nat]
ElfSymbol == [name : Nat, type : STRING, value : Nat, size : Nat]
Dynamics == [type : STRING, target : Nat, symbol : Nat, addend : Int]

\* Every import of the metadata has a slot, the one of the API root too.
IsImport(x) ==
    /\ x.slot \in Nat \ {NoSymbol} /\ x.kernel \in BOOLEAN
    /\ {x.name, x.contract, x.min, x.max, x.abi} \subseteq Nat

ASSUME NativeAssumption ==
    /\ Page \in Nat \ {0} /\ DescriptorSize \in Nat /\ PointerOffset \in Nat
    /\ IsImport(ApiRoot) /\ ~ApiRoot.kernel
    /\ Lifecycle \in Seq(Nat)
    /\ \A e \in Elfs : /\ e.loads \in Seq(ProgramHeader) /\ e.entries \in Seq(Dynamics)
                       /\ e.symbols \subseteq ElfSymbol /\ IsFiniteSet(e.symbols)
    /\ \A s \in Sections : /\ s \in Seq(Entry(s))
                          /\ \A x \in Entry(s) : x.kind = "import" => IsImport(x)
    /\ \A n \in DOMAIN KernelSymbol :
          {KernelSymbol[n].name, KernelSymbol[n].contract, KernelSymbol[n].version, KernelSymbol[n].abi} \subseteq Nat

NoView == [sections |-> <<>>, symbols |-> {}]
NoImageYet == [segments |-> <<>>, imports |-> <<>>, locations |-> {}, relocations |-> <<>>]

AlignUp(n) == ((n + Page - 1) \div Page) * Page
WordSize == 8

\* The next step if the checks succeed.
Proceed(ok, where) == packing' = IF ok THEN where ELSE "refused"

-----------------------------------------------------------------------------
(* ElfImage. *)

KindOf(load) ==
    CASE load.flags = "rx" -> "code"
      [] load.flags = "rw" -> IF load.file = 0 THEN "bss" ELSE "data"
      [] load.flags = "r"  -> "rodata"

LoadValid(load) ==
    /\ load.file <= load.mem /\ load.flags \in {"r", "rx", "rw"}
    /\ load.vaddr % Page = 0 /\ load.offset % Page = 0
    /\ load.flags # "rw" => load.file # 0

Segment(load, number) ==
    [vaddr |-> load.vaddr, file |-> load.file, mem |-> load.mem, offset |-> load.offset,
     number |-> number, kind |-> KindOf(load)]

\* Mutant: the segments keep the numbers of the program headers.
NumberedAsRead(loads) ==
    LET numbered == [i \in DOMAIN loads |-> Segment(loads[i], i)]
    IN  SortedBy(numbered, LAMBDA x : <<x.vaddr>>)

\* The segments by address, numbered in that order.
Numbered(loads) ==
    LET ordered == SortedBy(loads, LAMBDA x : <<x.vaddr>>)
    IN  [i \in DOMAIN ordered |-> Segment(ordered[i], i)]

Occupied(loads) == Kept(loads, LAMBDA x : x.mem # 0)

\* ElfImage::parse.
ReadElf ==
    /\ packing = "elf"
    /\ LET loads == Occupied(elf.loads)
           ok == loads # <<>> /\ \A x \in Entry(loads) : LoadValid(x)
       IN  /\ segments' = IF ok THEN Numbered(loads) ELSE segments
           /\ Proceed(ok, "layout")
    /\ UNCHANGED <<elf, records, meta, relocations, nextEntry, eki, view>>

\* Mutant: the segments may leave a gap.
LayoutOrdered == segments[1].vaddr = 0

\* validate_runtime_layout: from 0, page after page, none from the same bytes of the file.
LayoutValid ==
    /\ \A i \in DOMAIN segments :
          segments[i].vaddr = IF i = 1 THEN 0 ELSE AlignUp(segments[i - 1].vaddr + segments[i - 1].mem)
    /\ \A i, j \in DOMAIN segments : i < j =>
          ~(/\ segments[i].offset < segments[j].offset + segments[j].file
            /\ segments[j].offset < segments[i].offset + segments[i].file)

\* Then elm_metadata_section: no segment has the section in it.
CheckLayout ==
    /\ packing = "layout"
    /\ Proceed(LayoutValid /\ elf.apart, "metadata")
    /\ UNCHANGED <<elf, records, segments, meta, relocations, nextEntry, eki, view>>

\* The symbol of that name, which must be the only one.
Named(name) == {s \in elf.symbols : s.name = name}
IsSymbol(name) == Cardinality(Named(name)) = 1
SymbolOf(name) == CHOOSE s \in Named(name) : TRUE

Holding(address) ==
    {x \in Entry(segments) : x.vaddr <= address /\ address < x.vaddr + x.mem}

\* symbol_location.
Located(name) ==
    /\ IsSymbol(name) /\ SymbolOf(name).size > 0
    /\ \E x \in Holding(SymbolOf(name).value) :
          SymbolOf(name).value + SymbolOf(name).size <= x.vaddr + x.mem

Location(name) ==
    LET s == SymbolOf(name)
        x == CHOOSE x \in Holding(s.value) : TRUE
    IN  [name |-> name, segment |-> x.number, offset |-> s.value - x.vaddr, size |-> s.size]

-----------------------------------------------------------------------------
(* pack_elf_project. *)

ReadMetadata ==
    /\ packing = "metadata"
    /\ meta' = IF Accepted(records) THEN Sorted(records) ELSE meta
    /\ Proceed(Accepted(records), "retain")
    /\ UNCHANGED <<elf, records, segments, relocations, nextEntry, eki, view>>

RetainLinked ==
    /\ packing = "retain"
    /\ meta' = [meta EXCEPT !.imports = RetainedImports(meta.imports, {s.name : s \in elf.symbols})]
    /\ packing' = "symbols"
    /\ UNCHANGED <<elf, records, segments, relocations, nextEntry, eki, view>>

\* The segment that a location is numbered after.
SegmentOf(name) == segments[Location(name).segment]

\* validate_native_symbols: a complete descriptor in a read-only segment, functions
\* in code, and slots of one word in data.
SymbolsValid ==
    /\ \A name \in SymbolNames(meta) : Located(name)
    /\ LET d == Location(Descriptor) IN
          /\ SymbolOf(Descriptor).type = "object" /\ d.size >= DescriptorSize
          /\ SegmentOf(Descriptor).kind = "rodata" /\ d.offset % WordSize = 0
    /\ \A name \in Functions(meta) : SymbolOf(name).type = "func" /\ SegmentOf(name).kind = "code"
    /\ \A name \in Slots(meta) :
          /\ SymbolOf(name).type = "object" /\ SymbolOf(name).size = WordSize
          /\ SegmentOf(name).kind \in {"data", "bss"} /\ Location(name).offset % WordSize = 0

\* resolve_kernel_mixins: one site, which accepts what the handler does.
MixinsResolved ==
    \A x \in Entry(meta.mixins) :
        LET found == {s \in Sites : s.api = x.api /\ s.selector = x.selector}
        IN  Cardinality(found) = 1 /\ \A s \in found : x.behaviour \in s.accepts

CheckSymbols ==
    /\ packing = "symbols"
    /\ Proceed(SymbolsValid /\ MixinsResolved, "relocate")
    /\ UNCHANGED <<elf, records, segments, meta, relocations, nextEntry, eki, view>>

-----------------------------------------------------------------------------
(* dynamic_runtime_relocations and native_relocations_block. *)

Relocation(kind, x, address, import, addend) ==
    [kind |-> kind, segment |-> x.number, offset |-> address - x.vaddr, import |-> import, addend |-> addend]

\* relocation_target: the segments that have the whole word and are not code.
TargetsOf(address) ==
    {x \in Holding(address) : address + WordSize <= x.vaddr + x.mem /\ x.kind # "code"}

HasNext == packing = "relocate" /\ nextEntry <= Len(elf.entries)
Here == elf.entries[nextEntry]

RelativeValid(e) ==
    /\ TargetsOf(e.target) # {} /\ e.type = "relative" /\ e.symbol = NoSymbol
    /\ e.target % WordSize = 0 /\ e.addend >= 0 /\ Holding(e.addend) # {}

RelocateRelative ==
    /\ HasNext /\ RelativeValid(Here)
    /\ \E x \in TargetsOf(Here.target) :
          relocations' = Append(relocations, Relocation("base", x, Here.target, 0, Here.addend))
    /\ nextEntry' = nextEntry + 1
    /\ UNCHANGED <<elf, records, segments, meta, eki, view, packing>>

\* The symbol is undefined here and exported by the kernel.
AbsoluteValid(e) ==
    TargetsOf(e.target) # {} /\ e.type = "absolute" /\ e.symbol \in DOMAIN KernelSymbol

Serves(import, s) ==
    /\ import.name = s.name /\ import.contract = s.contract /\ import.abi = s.abi
    /\ import.min <= s.version /\ s.version <= import.max

ImportOf(s) ==
    [slot |-> NoSymbol, name |-> s.name, contract |-> s.contract, abi |-> s.abi,
     min |-> s.version, max |-> s.version, kernel |-> TRUE]

Least(S) == CHOOSE n \in S : \A k \in S : n <= k
Serving(s) == {i \in DOMAIN meta.imports : Serves(meta.imports[i], s)}

\* Mutant: the number of a new import is taken before it is pushed.
ImportNumberBefore(s) == IF Serving(s) # {} THEN Least(Serving(s)) ELSE Len(meta.imports)

\* The first import that serves the symbol, or a new one at the end.
ImportNumber(s) == IF Serving(s) # {} THEN Least(Serving(s)) ELSE Len(meta.imports) + 1

RelocateImport ==
    /\ HasNext /\ AbsoluteValid(Here)
    /\ LET s == KernelSymbol[Here.symbol] IN
          /\ meta' = IF Serving(s) # {} THEN meta
                     ELSE [meta EXCEPT !.imports = Append(meta.imports, ImportOf(s))]
          /\ \E x \in TargetsOf(Here.target) :
                relocations' = Append(relocations,
                                      Relocation("import", x, Here.target, ImportNumber(s), Here.addend))
    /\ nextEntry' = nextEntry + 1
    /\ UNCHANGED <<elf, records, segments, eki, view, packing>>

RefuseEntry ==
    /\ HasNext /\ ~RelativeValid(Here) /\ ~AbsoluteValid(Here)
    /\ packing' = "refused"
    /\ UNCHANGED <<elf, records, segments, meta, relocations, nextEntry, eki, view>>

\* The relocation of each slot, for the import that it belongs to.
SlotRelocations ==
    LET numbers == Ascending({i \in DOMAIN meta.imports : meta.imports[i].slot # NoSymbol})
    IN  [k \in DOMAIN numbers |->
            LET place == Location(meta.imports[numbers[k]].slot)
            IN  [kind |-> "import", segment |-> place.segment, offset |-> place.offset,
                 import |-> numbers[k], addend |-> 0]]

\* All of them by place; two for one place are refused.
RelocateSlots ==
    /\ packing = "relocate" /\ nextEntry > Len(elf.entries)
    /\ LET all == SortedBy(relocations \o SlotRelocations, LAMBDA r : <<r.segment, r.offset>>)
           ok == ~Repeats(all, LAMBDA r : <<r.segment, r.offset>>)
       IN  /\ relocations' = IF ok THEN all ELSE relocations
           /\ Proceed(ok, "write")
    /\ UNCHANGED <<elf, records, segments, meta, nextEntry, eki, view>>

\* The blocks.  A segment block has the bytes from its offset in the file on.
WriteImage ==
    /\ packing = "write"
    /\ eki' = [segments |-> [i \in DOMAIN segments |->
                                [kind |-> segments[i].kind, mem |-> segments[i].mem,
                                 file |-> segments[i].file, bytes |-> segments[i].offset]],
               imports |-> meta.imports,
               locations |-> {Location(name) : name \in SymbolNames(meta)},
               relocations |-> relocations]
    /\ packing' = "packed"
    /\ UNCHANGED <<elf, records, segments, meta, relocations, nextEntry, view>>

-----------------------------------------------------------------------------
(* build_image_view of the disassembler. *)

\* Where each segment begins at run time: they follow one another page by page.
\* The one of the relocations, which comes last, is not mapped.
RuntimeOffset(i) ==
    LET cursor[k \in 0 .. i] ==
            IF k = 0 THEN 0 ELSE AlignUp(cursor[k - 1]) + AlignUp(eki.segments[k].mem)
    IN  AlignUp(cursor[i - 1])

\* The code segments, all or the one that is asked for.
CodeSections(only) ==
    LET numbers == Ascending({i \in DOMAIN eki.segments : eki.segments[i].kind = "code" /\ only \in {0, i}})
    IN  [k \in DOMAIN numbers |->
            [segment |-> numbers[k], start |-> RuntimeOffset(numbers[k]),
             bytes |-> eki.segments[numbers[k]].bytes, size |-> eki.segments[numbers[k]].file]]

\* The packed locations in those sections.
InSections(sections) == {l \in eki.locations : \E x \in Entry(sections) : x.segment = l.segment}
NamedSymbols(sections) ==
    {[name |-> l.name, value |-> RuntimeOffset(l.segment) + l.offset, size |-> l.size] :
        l \in InSections(sections)}

\* add_descriptor_function_symbols: the one relocation of each pointer says where
\* its function is.
PointerPlaces(k) ==
    {r \in Entry(eki.relocations) :
        \E d \in eki.locations :
            /\ d.name = Descriptor
            /\ d.offset + DescriptorSize <= eki.segments[d.segment].file
            /\ r.kind = "base" /\ r.segment = d.segment
            /\ r.offset = d.offset + PointerOffset + WordSize * (k - 1)}

Inside(x, value) == x.start <= value /\ value < x.start + x.size

Labelled(sections) ==
    {k \in DOMAIN Lifecycle :
        /\ Cardinality(PointerPlaces(k)) = 1
        /\ \E r \in PointerPlaces(k), x \in Entry(sections) : Inside(x, r.addend)}
LabelValue(k) == (CHOOSE r \in PointerPlaces(k) : TRUE).addend

\* Such a label ends where the next symbol of its section begins, or after one byte.
LabelSize(value, known, sections) ==
    LET later == {v \in known : v > value /\ \E x \in Entry(sections) : Inside(x, v) /\ Inside(x, value)}
    IN  IF later = {} THEN 1 ELSE Least(later) - value

Labels(sections) ==
    LET known == {s.value : s \in NamedSymbols(sections)} \cup {LabelValue(k) : k \in Labelled(sections)}
    IN  {[name |-> Lifecycle[k], value |-> LabelValue(k),
          size |-> LabelSize(LabelValue(k), known, sections)] :
            k \in {k \in Labelled(sections) : \A s \in NamedSymbols(sections) : s.name # Lifecycle[k]}}

\* A symbol must end within the bytes of its section.
Show ==
    /\ packing = "packed"
    /\ \E only \in 0 .. Len(eki.segments) :
          LET sections == CodeSections(only)
              ok == /\ sections # <<>>
                    /\ \A l \in InSections(sections) : l.offset + l.size <= eki.segments[l.segment].file
          IN  /\ view' = IF ok THEN [sections |-> sections, symbols |-> NamedSymbols(sections) \cup Labels(sections)]
                         ELSE view
              /\ Proceed(ok, "shown")
    /\ UNCHANGED <<elf, records, segments, meta, relocations, nextEntry, eki>>

NativeInit ==
    /\ elf \in Elfs /\ records \in Sections
    /\ segments = <<>> /\ meta = [imports |-> <<>>] /\ relocations = <<>> /\ nextEntry = 1
    /\ eki = NoImageYet /\ view = NoView /\ packing = "elf"

NativeNext ==
    \/ ReadElf \/ CheckLayout \/ ReadMetadata \/ RetainLinked \/ CheckSymbols
    \/ RelocateRelative \/ RelocateImport \/ RefuseEntry \/ RelocateSlots \/ WriteImage \/ Show

NativeSpec == NativeInit /\ [][NativeNext]_nativeVars
-----------------------------------------------------------------------------
(* Properties. *)

Packed == packing \in {"packed", "shown"}
Address(r) == RuntimeOffset(r.segment) + r.offset

\* The records of imports whose slot the module has.
LinkedImports == {ApiRoot} \cup
    {x \in Entry(records) : x.kind = "import" /\ (x.kernel => Named(x.slot) # {})}

Dynamic(type) == {e \in Entry(elf.entries) : e.type = type}

\* An inferred label is the address that the pointer in the descriptor gets, and
\* ends before the next symbol.
LabelRight(s) ==
    /\ \E k \in DOMAIN Lifecycle, e \in Dynamic("relative") :
          /\ s.name = Lifecycle[k] /\ s.value = e.addend
          /\ e.target = SymbolOf(Descriptor).value + PointerOffset + WordSize * (k - 1)
    /\ \A t \in view.symbols : t.value > s.value => s.value + s.size <= t.value

\* ElfImage, native_relocations_block and build_image_view: an image has no
\* addresses, and whoever lays out its segments in their order and page by page
\* gets those of the ELF file back, for every location and relocation, for the
\* code that objdump shows and for the labels it infers.
AddressesKept ==
    /\ Packed =>
          /\ \A l \in eki.locations : RuntimeOffset(l.segment) + l.offset = SymbolOf(l.name).value
          /\ {<<Address(r), r.addend>> : r \in {r \in Entry(eki.relocations) : r.kind = "base"}}
             = {<<e.target, e.addend>> : e \in Dynamic("relative")}
          /\ {Address(r) : r \in {r \in Entry(eki.relocations) : r.kind = "import"}}
             = {e.target : e \in Dynamic("absolute")} \cup {SymbolOf(x.slot).value : x \in LinkedImports}
    /\ packing = "shown" =>
          /\ \A x \in Entry(view.sections) : \E load \in Entry(elf.loads) :
                /\ load.flags = "rx" /\ x.start = load.vaddr
                /\ x.bytes = load.offset /\ x.size = load.file
          /\ \A s \in view.symbols :
                IF \E l \in InSections(view.sections) : l.name = s.name
                THEN s.value = SymbolOf(s.name).value ELSE LabelRight(s)

\* pack_elf_project: though imports are sorted, dropped and added on the way, each
\* relocation has the number of the import that its place in the ELF file asks
\* for, no place has two, the API root is the first import, and an import of a
\* kernel symbol that no code refers to is not in the image (the test
\* unreferenced_kernel_symbol_metadata_is_not_projected).
ReferencesKept ==
    Packed =>
        /\ eki.imports[1] = ApiRoot
        /\ \A r \in {r \in Entry(eki.relocations) : r.kind = "import"} :
              LET import == eki.imports[r.import] IN
                 \/ \E e \in Dynamic("absolute") :
                       e.target = Address(r) /\ e.addend = r.addend /\ Serves(import, KernelSymbol[e.symbol])
                 \/ import \in LinkedImports /\ Address(r) = SymbolOf(import.slot).value
        /\ \A i, j \in DOMAIN eki.relocations :
              Address(eki.relocations[i]) = Address(eki.relocations[j]) => i = j
        /\ \A i \in DOMAIN eki.imports : eki.imports[i].kernel =>
              \E r \in Entry(eki.relocations) : r.kind = "import" /\ r.import = i
=============================================================================
