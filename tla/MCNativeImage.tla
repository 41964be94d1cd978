---------------------------- MODULE MCNativeImage ----------------------------
(* Modules of a descriptor, code and data, in several layouts and orders of  *)
(* the program headers, with up to four dynamic relocations.  The numbers    *)
(* 1 .. 9 are symbols, 11 .. 19 names, contracts and link names.             *)
EXTENDS NativeImage, TLC

MCApiRoot == [slot |-> 2, name |-> 15, contract |-> 15, min |-> 1, max |-> 9, kernel |-> FALSE, abi |-> 0]
MCLifecycle == <<6, 7>>

Load(flags, vaddr, file, mem, offset) ==
    [flags |-> flags, vaddr |-> vaddr, file |-> file, mem |-> mem, offset |-> offset]

\* Where the descriptor, the code and the data begin, and the segments.
Tight == [ro |-> 0, code |-> 32, data |-> 96,
          loads |-> <<Load("r", 0, 24, 24, 0), Load("rx", 32, 40, 40, 32), Load("rw", 96, 8, 32, 96)>>]
CodeFirst == [ro |-> 64, code |-> 0, data |-> 96,
              loads |-> <<Load("rx", 0, 40, 40, 64), Load("r", 64, 24, 24, 0), Load("rw", 96, 0, 32, 128)>>]
TwoCodes == [ro |-> 0, code |-> 64, data |-> 96,
             loads |-> <<Load("r", 0, 24, 24, 0), Load("rx", 32, 8, 8, 32), Load("rx", 64, 32, 32, 64),
                         Load("rw", 96, 32, 32, 96)>>]
\* The program headers name the second code segment first.
Swapped == [TwoCodes EXCEPT !.loads = <<@[1], @[3], @[2], @[4]>>]
Gap == [Tight EXCEPT !.data = 128, !.loads[3].vaddr = 128]
Late == [Tight EXCEPT !.loads[1].mem = 0]
SharedBytes == [Tight EXCEPT !.loads[2].offset = 96]
Odd == [Tight EXCEPT !.loads[3].vaddr = 97]

Symbol(name, type, value, size) == [name |-> name, type |-> type, value |-> value, size |-> size]

\* Slot 3 is there if the code refers to it.
SymbolsOf(l, linked) ==
    {Symbol(1, "object", l.ro, 24), Symbol(2, "object", l.data, 8), Symbol(4, "object", l.data + 16, 8),
     Symbol(5, "func", l.code + 8, 8), Symbol(7, "func", l.code + 16, 8)}
    \cup (IF linked THEN {Symbol(3, "object", l.data + 8, 8)} ELSE {})

Dyn(type, target, symbol, addend) == [type |-> type, target |-> target, symbol |-> symbol, addend |-> addend]

Pointers(l) == {<<>>, <<Dyn("relative", l.ro + 16, 0, l.code + 16), Dyn("relative", l.ro + 8, 0, l.code)>>}
Others(l) == {Dyn("absolute", l.data + 24, 11, 0), Dyn("absolute", l.data + 24, 12, 4),
              Dyn("absolute", l.data + 16, 12, 0), Dyn("absolute", l.data + 8, 11, 0),
              Dyn("relative", l.data + 24, 0, l.ro), Dyn("relative", l.data + 24, 0, 200),
              Dyn("absolute", l.code + 8, 11, 0), Dyn("absolute", l.data + 24, 13, 0)}
EntriesOf(l) == {p \o q : p \in Pointers(l),
                          q \in {<<>>} \cup {<<x>> : x \in Others(l)} \cup {<<x, y>> : x, y \in Others(l)}}

Turned(s, k) == [i \in DOMAIN s |-> s[((i + k - 1) % Len(s)) + 1]]

ElfOf(l, k, entries, linked) ==
    [loads |-> Turned(l.loads, k), symbols |-> SymbolsOf(l, linked), entries |-> entries, apart |-> TRUE]

\* All relocations in one order of the headers, and the pointers in all orders.
MCElfs ==
    UNION {{ElfOf(l, 1, entries, linked) : entries \in EntriesOf(l)} :
               l \in {Tight, CodeFirst, TwoCodes}, linked \in BOOLEAN}
    \cup UNION {{ElfOf(l, k, entries, linked) : entries \in Pointers(l)} :
                   l \in {Tight, CodeFirst, TwoCodes}, k \in {0, 2}, linked \in BOOLEAN}
    \cup {ElfOf(l, k, <<>>, TRUE) : l \in {Swapped, Gap, Late, SharedBytes, Odd}, k \in 0 .. 2}
    \cup {[ElfOf(Tight, 0, <<>>, TRUE) EXCEPT !.apart = FALSE],
          [ElfOf(Tight, 0, <<>>, TRUE) EXCEPT !.symbols = {s \in @ : s.name # 4}],
          [ElfOf(Tight, 0, <<>>, TRUE) EXCEPT !.symbols = @ \cup {Symbol(5, "func", 32, 8)}]}

MCKernelSymbol == (11 :> [name |-> 11, contract |-> 11, version |-> 1, abi |-> 1]) @@
                  (12 :> [name |-> 12, contract |-> 12, version |-> 2, abi |-> 2])
MCSites == {[api |-> 11, selector |-> 1, accepts |-> {"before"}]}

The(kind) == [kind |-> kind, plain |-> TRUE]
Module1 == The("module") @@ [symbol |-> 1]
Import(slot, name, min, max, kernel, abi) ==
    The("import") @@ [slot |-> slot, name |-> name, contract |-> name, min |-> min, max |-> max,
                      kernel |-> kernel, abi |-> abi]
Import3 == Import(3, 11, 1, 1, TRUE, 1)
Import4 == Import(4, 12, 1, 3, FALSE, 2)
Import9 == Import(9, 14, 1, 1, TRUE, 1)
Export(symbol) == The("export") @@ [symbol |-> symbol, name |-> symbol, contract |-> 16, version |-> 1]
Provider(control) == The("provider") @@ [symbol |-> 5, contract |-> 17, control |-> control]
Snapshot == The("snapshot") @@ [symbol |-> 7, contract |-> 17]
Point(suffix) == The("point") @@ [point |-> 18, contract |-> 18, payload |-> 18, stage |-> 4, suffix |-> suffix,
                                  mode |-> "observer"]
Extension == The("extension") @@ [target |-> 19, point |-> 18, contract |-> 18, payload |-> 18, stage |-> 4,
                                  suffix |-> 4, handler |-> 17, priority |-> 1]
Payload == The("payload") @@ [contract |-> 18, size |-> 8]
Mixin(selector, behaviour) == The("mixin") @@ [api |-> 11, selector |-> selector, handler |-> 5,
                                               behaviour |-> behaviour, priority |-> 0]

MCSections ==
    {<<Module1>>, <<>>, <<Import3>>, <<Module1, Module1>>,
     <<Import4, Module1, Import3>>, <<Import3, Import9, Import4, Module1>>, <<Module1, Import9>>,
     <<Module1, Import3, Import3>>, <<Module1, Export(5), Import4>>, <<Export(7), Module1, Export(5), Import3>>,
     <<Module1, Provider(TRUE), Snapshot, Extension, Payload>>, <<Module1, Provider(FALSE), Extension, Payload>>,
     <<Module1, Snapshot>>, <<Module1, Point(4), Payload, Mixin(1, "before")>>, <<Module1, Point(3), Payload>>,
     <<Module1, Mixin(1, "replace")>>, <<Module1, Mixin(2, "before")>>, <<Module1, The("lifecycle")>>}
=============================================================================
