---------------------------- MODULE MCSmallParts ----------------------------
(* The parts that run to their end on their own: one of them is chosen at   *)
(* the start, the others stay idle.                                         *)
EXTENDS ModuleOrder, ArchiveDedup, ModuleConfig, MCWireTypes, MCKernelSymbols,
        MCNativeImage, TLC
CONSTANTS framework, blk, net, FW, BLK, NET, plain, riscv, x86,
          entry, api, helper, MaxArchives

On(S, T) == [m \in ModuleName |-> IF m \in S THEN T ELSE {}]

Good == [listing |-> <<blk, framework, net>>,
         config |-> (framework :> FW @@ blk :> BLK @@ net :> NET),
         default |-> (framework :> "m" @@ blk :> "n" @@ net :> "y"),
         depends |-> On({blk}, {framework}), after |-> On({net}, {blk}),
         targets |-> On({net}, {x86})]

\* blk is gone; net needs the framework; the framework left one target.
Smaller == [Good EXCEPT !.listing = <<framework, net>>, !.after = On({}, {})]
Stricter == [Good EXCEPT !.depends = On({blk, net}, {framework})]
Narrower == [Stricter EXCEPT !.targets = On({net, framework}, {x86})]
Cyclic == [Good EXCEPT !.after = On({framework}, {blk})]

\* The two drivers share a key; a key has no CONFIG_ prefix.
Shared == [Good EXCEPT !.config[net] = BLK]
Bare == [Good EXCEPT !.config[net] = plain]

GoodSets == {Good, Smaller, Stricter, Narrower, Cyclic, Shared, Bare}

\* A hand-written file for part of the set, and one with a duplicate.
HandWritten == {<<>>, <<<<NET, "n">>>>, <<<<FW, "y">>, <<FW, "m">>>>}

DedupAny == \E n \in 0 .. MaxArchives : \E files \in [1 .. n -> Archive] : DedupInit(files)

OrderIdle == OrderInit(<<>>, <<>>)
DedupIdle == /\ archives = <<>> /\ built = <<>> /\ seen = {} /\ index = 1 /\ rebuilt = {}
             /\ dedup = "off"
ConfigIdle == /\ set = Good /\ config = <<>> /\ written = <<>> /\ steps = MaxSteps
              /\ command = [name |-> "none", ok |-> TRUE, target |-> "all"]
TypesIdle == types = <<>> /\ at = 1 /\ names = {} /\ stack = <<>> /\ visited = <<>> /\ judgement = "off"
SymbolsIdle == /\ symbols = <<>> /\ abis = <<>> /\ rlibs = <<>> /\ task = "off" /\ nth = 1
               /\ member = 1 /\ defining = {} /\ inputs = <<>> /\ support = {} /\ imports = {}
NativeIdle == /\ elf = <<>> /\ records = <<>> /\ segments = <<>> /\ meta = <<>> /\ relocations = <<>>
              /\ nextEntry = 1 /\ eki = NoImageYet /\ view = NoView /\ packing = "off"

MCInit ==
    \/ Init /\ DedupIdle /\ ConfigIdle /\ TypesIdle /\ SymbolsIdle /\ NativeIdle
    \/ OrderIdle /\ DedupAny /\ ConfigIdle /\ TypesIdle /\ SymbolsIdle /\ NativeIdle
    \/ OrderIdle /\ DedupIdle /\ ConfigInit /\ TypesIdle /\ SymbolsIdle /\ NativeIdle
    \/ OrderIdle /\ DedupIdle /\ ConfigIdle /\ TypesInit /\ SymbolsIdle /\ NativeIdle
    \/ OrderIdle /\ DedupIdle /\ ConfigIdle /\ TypesIdle /\ SymbolsInit /\ NativeIdle
    \/ OrderIdle /\ DedupIdle /\ ConfigIdle /\ TypesIdle /\ SymbolsIdle /\ NativeInit

allVars == <<orderVars, dedupVars, configVars, typesVars, symbolVars, nativeVars>>

MCNext ==
    \/ OrderNext /\ UNCHANGED <<dedupVars, configVars, typesVars, symbolVars, nativeVars>>
    \/ DedupNext /\ UNCHANGED <<orderVars, configVars, typesVars, symbolVars, nativeVars>>
    \/ ConfigNext /\ UNCHANGED <<orderVars, dedupVars, typesVars, symbolVars, nativeVars>>
    \/ TypesNext /\ UNCHANGED <<orderVars, dedupVars, configVars, symbolVars, nativeVars>>
    \/ SymbolsNext /\ UNCHANGED <<orderVars, dedupVars, configVars, typesVars, nativeVars>>
    \/ NativeNext /\ UNCHANGED <<orderVars, dedupVars, configVars, typesVars, symbolVars>>

MCSpec == MCInit /\ [][MCNext]_allVars /\ WF_orderVars(OrderNext)
=============================================================================
