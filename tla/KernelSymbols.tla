---------------------------- MODULE KernelSymbols ----------------------------
(***************************************************************************)
(* The names a module links against, as export_kernel_interface finds them *)
(* (kernel_interface.rs): populate_link_aliases looks for the Rust symbol  *)
(* of each exported item in the rlibs of the API crates, validate refuses  *)
(* a manifest whose names clash, build_rust_support_library takes the      *)
(* symbols of core and alloc out of all rlibs, and build_import_library    *)
(* makes a stub of every name of the manifest.                             *)
(*                                                                         *)
(* A symbol name is modelled as what its mangling says: the path of the    *)
(* item from the first crate root on, the form, and the hash that tells    *)
(* instances apart; of the letters of a v0 name before that crate root,    *)
(* those that v0_symbol_crate looks for: C and the underscore.             *)
(***************************************************************************)
EXTENDS Naturals, FiniteSets, SequencesExt

CONSTANTS
    Exports,      \* what scan_repository_exports may return: sequences of symbols
    PublicAbis,   \* what scan_repository_api_abis may return: path to ABI
    Rlibs,        \* sequences of rlibs: [api, objects]
    StableName    \* StableName[path]: its FNV hash, see stable_link_name

\* The crates of the compiler.
Compilers == {"core", "alloc"}

\* What an object may define.  The stable names are of the import library only.
Global == [form : {"legacy", "v0", "plain"}, lead : Seq({"C", "_"}), path : Seq(STRING), hash : Nat]

ExportedSymbol == [path : Seq(STRING), kind : {"function", "static", "method"}, abi : STRING,
                   sameLeaf : BOOLEAN, exact : BOOLEAN, aliases : {{}}]

\* The names of core and alloc are mangled, and the public methods are those of
\* the crates that kernel-api-crates.txt lists.
ASSUME SymbolAssumption ==
    /\ \A s \in Exports : s \in Seq(ExportedSymbol)
    /\ \A a \in PublicAbis : \A path \in DOMAIN a : path[1] \notin Compilers
    /\ \A r \in Rlibs :
          /\ r \in Seq([api : BOOLEAN, objects : Seq(SUBSET Global)])
          /\ \A i \in DOMAIN r : \A k \in DOMAIN r[i].objects :
                \A n \in r[i].objects[k] :
                    /\ n.path[1] \in Compilers => n.form # "plain"
                    /\ n.form # "v0" => n.lead = <<>>

VARIABLES
    symbols,    \* the exported symbols; sameLeaf: named like its item, or of GlobalAlloc
    abis,       \* the ABIs of the public methods
    rlibs,      \* the rlibs of the closure; those of API crates are marked
    task,       \* where the export is, or "refused"
    nth,        \* the symbol or the rlib that the loop is at
    member,     \* the object of that rlib
    defining,   \* global_definitions: the names met so far
    inputs,     \* the objects to be linked, as the names each keeps global
    support,    \* the global names of the support library
    imports     \* the names of the import library

symbolVars == <<symbols, abis, rlibs, task, nth, member, defining, inputs, support, imports>>

LinkName(path) == [form |-> "stable", lead |-> <<>>, path |-> <<StableName[path]>>, hash |-> 0]

\* What nm lists of an rlib, and of those of the API crates.
GlobalsOf(rlib) == UNION {rlib.objects[k] : k \in DOMAIN rlib.objects}
Defined == UNION {GlobalsOf(rlibs[i]) : i \in {i \in DOMAIN rlibs : rlibs[i].api}}

-----------------------------------------------------------------------------
(* populate_link_aliases. *)

\* Mutant: the suffix after the path is not looked at.
MatchesByPrefix(s) ==
    {n \in Defined : n.form = "legacy" /\ IsPrefix(s.path, n.path)}
    \cup {n \in Defined : s.path \in DOMAIN abis /\ n.form = "v0" /\ n.path = s.path}

\* A legacy name is the path and a hash.  A v0 name counts where nm demangles
\* it to the inherent method of the path, and there is such a public method.
Matches(s) ==
    {n \in Defined : n.form = "legacy" /\ n.path = s.path}
    \cup {n \in Defined : s.path \in DOMAIN abis /\ n.form = "v0" /\ n.path = s.path}

AddAlias ==
    /\ task = "aliases" /\ nth <= Len(symbols)
    /\ LET s == symbols[nth] IN
       \/ /\ Matches(s) = {}
          /\ nth' = nth + 1 /\ UNCHANGED <<symbols, task>>
       \/ /\ Cardinality(Matches(s)) = 1
          /\ IF s.path \in DOMAIN abis /\ abis[s.path] = s.abi
             THEN /\ symbols' = [symbols EXCEPT ![nth].aliases = Matches(s)]
                  /\ nth' = nth + 1 /\ UNCHANGED task
             ELSE task' = "refused" /\ UNCHANGED <<symbols, nth>>
       \/ /\ Cardinality(Matches(s)) > 1
          /\ task' = "refused" /\ UNCHANGED <<symbols, nth>>
    /\ UNCHANGED <<abis, rlibs, member, defining, inputs, support, imports>>

-----------------------------------------------------------------------------
(* validate. *)

\* The names of the manifest that lead to s.
NamesOfSymbol(s) == {LinkName(s.path)} \cup s.aliases

\* The ABI mode is implemented, a function under another name has a symbol to
\* link to, and neither API paths nor link names clash.
ManifestValid ==
    /\ symbols # <<>>
    /\ \A i \in DOMAIN symbols :
          /\ symbols[i].exact
          /\ symbols[i].kind = "function" /\ ~symbols[i].sameLeaf => symbols[i].aliases # {}
          /\ \A j \in DOMAIN symbols \ {i} :
                /\ symbols[i].path # symbols[j].path
                /\ NamesOfSymbol(symbols[i]) \cap NamesOfSymbol(symbols[j]) = {}

Validate ==
    /\ task = "aliases" /\ nth > Len(symbols)
    /\ IF ManifestValid THEN task' = "support" /\ nth' = 1 ELSE task' = "refused" /\ UNCHANGED nth
    /\ UNCHANGED <<symbols, abis, rlibs, member, defining, inputs, support, imports>>

-----------------------------------------------------------------------------
(* build_rust_support_library. *)

AtObject == task = "support" /\ nth <= Len(rlibs) /\ member <= Len(rlibs[nth].objects)

\* Mutant: the names of an object are not remembered.
TakeObjectAnew ==
    /\ AtObject
    /\ LET object == rlibs[nth].objects[member] IN
          inputs' = IF object = {} THEN inputs ELSE Append(inputs, object \ defining)
    /\ member' = member + 1
    /\ UNCHANGED <<symbols, abis, rlibs, task, nth, defining, support, imports>>

\* One object: what was defined before becomes local to it.
TakeObject ==
    /\ AtObject
    /\ LET object == rlibs[nth].objects[member] IN
          /\ inputs' = IF object = {} THEN inputs ELSE Append(inputs, object \ defining)
          /\ defining' = defining \cup object
    /\ member' = member + 1
    /\ UNCHANGED <<symbols, abis, rlibs, task, nth, support, imports>>

NextRlib ==
    /\ task = "support" /\ nth <= Len(rlibs) /\ member > Len(rlibs[nth].objects)
    /\ nth' = nth + 1 /\ member' = 1
    /\ UNCHANGED <<symbols, abis, rlibs, task, defining, inputs, support, imports>>

\* v0_symbol_crate takes the first C for the crate root and the first underscore
\* after it for the end of its disambiguator.  They are not where a closure or
\* an impl disambiguator before the root has a C and, later, an underscore.
Misread(n) == \E i, j \in DOMAIN n.lead : i < j /\ n.lead[i] = "C" /\ n.lead[j] = "_"

\* is_rust_support_symbol: the crate it finds is core or alloc.
IsSupport(n) == n.path[1] \in Compilers /\ n.form \in {"legacy", "v0"} /\ ~Misread(n)

\* ld -r, which refuses two definitions of a name.  All other names become local.
LinkSupport ==
    /\ task = "support" /\ nth > Len(rlibs)
    /\ LET combined == UNION {inputs[i] : i \in DOMAIN inputs}
           linked == \A i, j \in DOMAIN inputs : i # j => inputs[i] \cap inputs[j] = {}
           published == {n \in combined : IsSupport(n)} IN
          IF inputs # <<>> /\ linked /\ published # {}
          THEN support' = published /\ task' = "imports"
          ELSE task' = "refused" /\ UNCHANGED support
    /\ UNCHANGED <<symbols, abis, rlibs, nth, member, defining, inputs, imports>>

-----------------------------------------------------------------------------
(* build_import_library. *)

BuildImportLibrary ==
    /\ task = "imports"
    /\ imports' = UNION {NamesOfSymbol(symbols[i]) : i \in DOMAIN symbols}
    /\ task' = "packed"
    /\ UNCHANGED <<symbols, abis, rlibs, nth, member, defining, inputs, support>>

SymbolsInit ==
    /\ symbols \in Exports /\ abis \in PublicAbis /\ rlibs \in Rlibs
    /\ task = "aliases" /\ nth = 1 /\ member = 1
    /\ defining = {} /\ inputs = <<>> /\ support = {} /\ imports = {}

SymbolsNext == AddAlias \/ Validate \/ TakeObject \/ NextRlib \/ LinkSupport \/ BuildImportLibrary

SymbolsSpec == SymbolsInit /\ [][SymbolsNext]_symbolVars

-----------------------------------------------------------------------------
(* symbol_by_link_name, which pack_elf_project asks for each relocation. *)

\* Whether the name is one of the symbol, or starts like its legacy mangling.
Answers(s, n) ==
    n \in NamesOfSymbol(s) \/ (n.form = "legacy" /\ IsPrefix(s.path, n.path))

Found(n) == {i \in DOMAIN symbols : Answers(symbols[i], n)}

\* The symbol of the name, where there is no other.
SymbolByLinkName(n) == IF Cardinality(Found(n)) = 1 THEN Found(n) ELSE {}

-----------------------------------------------------------------------------
(* Properties. *)

\* export_kernel_interface: each name of the import library is the name of one
\* exported symbol, what the rlibs define under it is the public method of that
\* path with the ABI the export declares, and packing a module that refers to it
\* imports that symbol or, where another path begins like its own, fails.
NamesLeadHome ==
    task = "packed" =>
        \A n \in imports :
            \E i \in DOMAIN symbols :
                /\ n \in NamesOfSymbol(symbols[i]) /\ SymbolByLinkName(n) \subseteq {i}
                /\ \A j \in DOMAIN symbols \ {i} : n \notin NamesOfSymbol(symbols[j])
                /\ n \in Defined => n.path = symbols[i].path /\ abis[n.path] = symbols[i].abi

\* The core and alloc symbols of the closure.
CompilerNames == {n \in UNION {GlobalsOf(rlibs[i]) : i \in DOMAIN rlibs} : n.path[1] \in Compilers}

\* build_rust_support_library: no two objects it links define one name, and the
\* support library has each core and alloc symbol of the closure whose name has
\* no underscore before its crate root, however many crates have a copy of it,
\* and nothing of other crates: no module is linked with a second copy of what
\* it imports.
SupportIsCompilers ==
    /\ \A i, j \in DOMAIN inputs : i # j => inputs[i] \cap inputs[j] = {}
    /\ task \in {"imports", "packed"} =>
          /\ support \subseteq CompilerNames
          /\ \A n \in CompilerNames : (\A i \in DOMAIN n.lead : n.lead[i] # "_") => n \in support
    /\ task = "packed" => support \cap imports = {}
=============================================================================
